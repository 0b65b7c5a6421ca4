------------------------------- MODULE DataPath -------------------------------
(***************************************************************************)
(* Terminal output of one SSH session, from the shell channel to the parser *)
(* of the webview's terminal, and the flow control that runs the other way. *)
(*                                                                         *)
(*   shell pump -> out -> supervise -> in queue -> coalescer -> frame queue *)
(*     -> gated sender -> Tauri channel (wire) -> ingest -> parser          *)
(*                                                                         *)
(* A chunk of output is the number of its position in the session's stream; *)
(* a frame is an interval of positions.  One unit stands for one chunk, so  *)
(* max_frame and the watermarks are counted in chunks.  The shell pump of a *)
(* later generation continues the numbering.                                *)
(*                                                                         *)
(* Sources: open_shell (core-ssh/session.rs), supervise, spawn_data_path,   *)
(* pause_session, resume_session, close_session (desktop/commands.rs),      *)
(* coalesce (term-stream/lib.rs), TermSession (ui/src/lib/ipc.ts) and       *)
(* handleEvent (ui/src/session/controller.ts).                              *)
(***************************************************************************)
EXTENDS Integers, Sequences

CONSTANTS
    Total,      \* bound: chunks the remote sides produce altogether
    Gens,       \* bound: transport generations
    Retries,    \* bound: Reconnecting events in one outage
    MaxCmds,    \* bound: pause/resume commands in flight
    OutCap,     \* OUTPUT_QUEUE_DEPTH
    InCap,      \* QUEUE_DEPTH, transport -> coalescer
    FrameCap,   \* QUEUE_DEPTH, coalescer -> sender
    MaxFrame,   \* CoalescerConfig.max_frame
    High, Low   \* HIGH_WATERMARK, LOW_WATERMARK

ASSUME DataPathAssumption ==
    /\ Total \in Nat /\ Retries \in Nat /\ MaxCmds \in Nat
    /\ Gens \in Nat \ {0}
    /\ OutCap \in Nat \ {0} /\ InCap \in Nat \ {0} /\ FrameCap \in Nat \ {0}
    /\ MaxFrame \in Nat \ {0}
    /\ High \in Nat /\ Low \in 0 .. High

VARIABLES
    produced,    \* chunks read off the shell channels so far
    pump,        \* pump[g]: "none", "run", "send" (holds a chunk) or "ended"
    pumpPaused,  \* pumpPaused[g]: the flow gate of ShellControl::pause
    out,         \* out[g]: the pump's bounded queue
    sup,         \* where supervise is
    hold,        \* the chunk supervise is blocked on in in_tx.send
    gen,         \* the generation supervise is pumping
    conn,        \* the generation commands reach through Conn
    inq,         \* transport -> coalescer
    co,          \* where the coalescer is
    buf,         \* its pending buffer
    coFrame,     \* the frame it is blocked on in output.send
    frames,      \* coalescer -> sender
    snd,         \* where the sender task is
    sndFrame,    \* the frame it holds at the gate
    gate,        \* desktop_pause
    wire,        \* frames sent on the Tauri channel, not yet ingested
    got,         \* position up to which the webview has ingested
    parsing,     \* sizes of the frames given to term.write, not yet parsed
    pending,     \* flow.pendingBytes
    paused,      \* flow.paused
    cmds,        \* pause/resume commands in flight, in the order issued
    overtaken,   \* history: some command set a gate before an older one was done
    resets,      \* Reconnecting events on their way to the webview
    tries,       \* Reconnecting events sent in this outage
    reg,         \* "opening", "live", "closing" (the webview has let go of the
                 \* session, close_session has yet to run) or "closed"
    shutdown     \* LiveSession.shutdown

pumpVars == <<produced, pump, pumpPaused, out>>
supVars == <<sup, hold, gen, conn, inq, tries, shutdown>>
coVars == <<co, buf, coFrame>>
sndVars == <<snd, sndFrame>>
jsVars == <<got, parsing, pending, paused>>
cmdVars == <<cmds, overtaken>>
vars == <<pumpVars, supVars, coVars, frames, sndVars, gate, wire, jsVars,
          cmdVars, resets, reg>>

Generations == 1 .. Gens
Frame == [lo : Nat, hi : Nat]
Empty == [lo |-> 1, hi |-> 0]
IsEmpty(f) == f.hi < f.lo
Size(f) == f.hi - f.lo + 1

Command == [kind : {"pause", "resume"},
            step : {"lookup", "gate", "control", "apply"},
            gen : 0 .. Gens]

-----------------------------------------------------------------------------

Init ==
    /\ produced = 0
    /\ pump = [g \in Generations |-> IF g = 1 THEN "run" ELSE "none"]
    /\ pumpPaused = [g \in Generations |-> FALSE]
    /\ out = [g \in Generations |-> <<>>]
    /\ sup = "recv" /\ hold = 0 /\ gen = 1 /\ conn = 1
    /\ inq = <<>>
    /\ co = "run" /\ buf = Empty /\ coFrame = Empty
    /\ frames = <<>>
    /\ snd = "recv" /\ sndFrame = Empty
    /\ gate = FALSE
    /\ wire = <<>>
    /\ got = 0 /\ parsing = <<>> /\ pending = 0 /\ paused = FALSE
    /\ cmds = <<>> /\ overtaken = FALSE
    /\ resets = 0 /\ tries = 0
    /\ reg = "opening" /\ shutdown = FALSE

\* Some handle on the session is left: the map entry, the supervisor's
\* clones, or a command that has looked the session up.  Both pause watches
\* lose their last sender when this becomes false.
SendersAlive ==
    \/ reg # "closed"
    \/ sup # "done"
    \/ \E i \in 1 .. Len(cmds) : cmds[i].step # "lookup"

-----------------------------------------------------------------------------
(* The pump task of open_shell.                                             *)

\* Read a chunk off the channel.  Its number is `produced`, and the pump then
\* waits for room in its queue; a pause that arrives meanwhile does not stop it.
PumpRead(g) ==
    /\ pump[g] = "run" /\ ~pumpPaused[g] /\ produced < Total
    /\ produced' = produced + 1
    /\ pump' = [pump EXCEPT ![g] = "send"]
    /\ UNCHANGED <<pumpPaused, out, supVars, coVars, frames, sndVars, gate,
                   wire, jsVars, cmdVars, resets, reg>>

PumpSend(g) ==
    /\ pump[g] = "send" /\ sup # "done" /\ Len(out[g]) < OutCap
    /\ out' = [out EXCEPT ![g] = Append(@, produced)]
    /\ pump' = [pump EXCEPT ![g] = "run"]
    /\ UNCHANGED <<produced, pumpPaused, supVars, coVars, frames, sndVars, gate,
                   wire, jsVars, cmdVars, resets, reg>>

\* supervise has returned and dropped the receiver.
PumpSendFails(g) ==
    /\ pump[g] = "send" /\ sup = "done"
    /\ pump' = [pump EXCEPT ![g] = "ended"]
    /\ UNCHANGED <<produced, pumpPaused, out, supVars, coVars, frames, sndVars,
                   gate, wire, jsVars, cmdVars, resets, reg>>

\* The channel closed or the transport died.  A paused pump looks at neither,
\* only at the loss of its pause sender.
PumpStop(g) ==
    /\ pump[g] = "run"
    /\ ~pumpPaused[g] \/ ~SendersAlive
    /\ pump' = [pump EXCEPT ![g] = "ended"]
    /\ UNCHANGED <<produced, pumpPaused, out, supVars, coVars, frames, sndVars,
                   gate, wire, jsVars, cmdVars, resets, reg>>

-----------------------------------------------------------------------------
(* supervise, as far as it carries data: the control side is in Supervisor. *)

\* Mutant: the pump loop does not look at shutdown.
SupShutdown_OutageOnly ==
    /\ sup = "outage" /\ shutdown
    /\ sup' = "done"
    /\ UNCHANGED <<pumpVars, hold, gen, conn, inq, tries, shutdown, coVars,
                   frames, sndVars, gate, wire, jsVars, cmdVars, resets, reg>>

SupShutdown ==
    /\ sup \in {"recv", "outage"} /\ shutdown
    /\ sup' = "done"
    /\ UNCHANGED <<pumpVars, hold, gen, conn, inq, tries, shutdown, coVars,
                   frames, sndVars, gate, wire, jsVars, cmdVars, resets, reg>>

SupRecv ==
    /\ sup = "recv" /\ ~shutdown /\ out[gen] # <<>>
    /\ hold' = Head(out[gen])
    /\ out' = [out EXCEPT ![gen] = Tail(@)]
    /\ sup' = "send"
    /\ UNCHANGED <<produced, pump, pumpPaused, gen, conn, inq, tries, shutdown,
                   coVars, frames, sndVars, gate, wire, jsVars, cmdVars, resets,
                   reg>>

\* Mutant: try_send, which drops the chunk when the queue is full.
SupSend_TrySend ==
    /\ sup = "send" /\ co # "done"
    /\ inq' = IF Len(inq) < InCap THEN Append(inq, hold) ELSE inq
    /\ sup' = "recv"
    /\ UNCHANGED <<pumpVars, hold, gen, conn, tries, shutdown, coVars, frames,
                   sndVars, gate, wire, jsVars, cmdVars, resets, reg>>

\* in_tx.send(c).await runs inside the select's arm: while it waits for room
\* nothing looks at shutdown.  Its error path needs a coalescer that has
\* returned, hence a sender that has; but the sender gives up at the gate only
\* when supervise itself is gone, or when the webview is (see SndSend).
SupSend ==
    /\ sup = "send" /\ co # "done" /\ Len(inq) < InCap
    /\ inq' = Append(inq, hold)
    /\ sup' = "recv"
    /\ UNCHANGED <<pumpVars, hold, gen, conn, tries, shutdown, coVars, frames,
                   sndVars, gate, wire, jsVars, cmdVars, resets, reg>>

\* The queue is empty and the pump has ended: recv answers None.
Drained == sup = "recv" /\ ~shutdown /\ out[gen] = <<>> /\ pump[gen] = "ended"

\* The shell exited, or the policy allows no reconnect.
SupExit ==
    /\ Drained
    /\ sup' = "done"
    /\ UNCHANGED <<pumpVars, hold, gen, conn, inq, tries, shutdown, coVars,
                   frames, sndVars, gate, wire, jsVars, cmdVars, resets, reg>>

\* A drop (tries = 0), or a failed attempt that may be retried: announce the
\* next attempt.
SupAnnounceAttempt ==
    /\ Drained \/ sup = "outage"
    /\ gen < Gens /\ tries < Retries
    /\ sup' = "outage"
    /\ tries' = tries + 1
    /\ resets' = resets + 1
    /\ UNCHANGED <<pumpVars, hold, gen, conn, inq, shutdown, coVars, frames,
                   sndVars, gate, wire, jsVars, cmdVars, reg>>

SupGiveUp ==
    /\ sup = "outage"
    /\ sup' = "done"
    /\ UNCHANGED <<pumpVars, hold, gen, conn, inq, tries, shutdown, coVars,
                   frames, sndVars, gate, wire, jsVars, cmdVars, resets, reg>>

\* The reconnector returns: a new shell with its own pump is running.
SupEstablish ==
    /\ sup = "outage"
    /\ pump' = [pump EXCEPT ![gen + 1] = "run"]
    /\ sup' = "swap"
    /\ UNCHANGED <<produced, pumpPaused, out, hold, gen, conn, inq, tries,
                   shutdown, coVars, frames, sndVars, gate, wire, jsVars, cmdVars,
                   resets, reg>>

SupSwap ==
    /\ sup = "swap"
    /\ conn' = gen + 1
    /\ sup' = "ungate"
    /\ UNCHANGED <<pumpVars, hold, gen, inq, tries, shutdown, coVars, frames,
                   sndVars, gate, wire, jsVars, cmdVars, resets, reg>>

SupUngate ==
    /\ sup = "ungate"
    /\ gate' = FALSE
    /\ gen' = gen + 1
    /\ tries' = 0
    /\ sup' = "recv"
    /\ UNCHANGED <<pumpVars, hold, conn, inq, shutdown, coVars, frames, sndVars,
                   wire, jsVars, cmdVars, resets, reg>>

Supervise ==
    \/ SupShutdown \/ SupRecv \/ SupSend \/ SupExit
    \/ SupAnnounceAttempt \/ SupGiveUp \/ SupEstablish \/ SupSwap \/ SupUngate

-----------------------------------------------------------------------------
(* coalesce.                                                                *)

Extend(b, p) == IF IsEmpty(b) THEN [lo |-> p, hi |-> p] ELSE [b EXCEPT !.hi = p]

\* A chunk arrives.  A full buffer is flushed; one that was empty is flushed
\* at once when the last flush is a tick or more ago.
CoRecv ==
    /\ co = "run" /\ inq # <<>>
    /\ inq' = Tail(inq)
    /\ LET b == Extend(buf, Head(inq)) IN
       \/ /\ Size(b) >= MaxFrame \/ IsEmpty(buf)
          /\ co' = "flush" /\ coFrame' = b /\ buf' = Empty
       \/ /\ Size(b) < MaxFrame
          /\ buf' = b
          /\ UNCHANGED <<co, coFrame>>
    /\ UNCHANGED <<pumpVars, sup, hold, gen, conn, tries, shutdown, frames,
                   sndVars, gate, wire, jsVars, cmdVars, resets, reg>>

CoTick ==
    /\ co = "run" /\ ~IsEmpty(buf)
    /\ co' = "flush" /\ coFrame' = buf /\ buf' = Empty
    /\ UNCHANGED <<pumpVars, supVars, frames, sndVars, gate, wire, jsVars, cmdVars,
                   resets, reg>>

\* Mutant: the remainder is not flushed.
CoInputClosed_NoFlush ==
    /\ co = "run" /\ inq = <<>> /\ sup = "done"
    /\ co' = "done"
    /\ UNCHANGED <<buf, coFrame>>
    /\ UNCHANGED <<pumpVars, supVars, frames, sndVars, gate, wire, jsVars, cmdVars,
                   resets, reg>>

\* The input is closed: ship what is left, then return.
CoInputClosed ==
    /\ co = "run" /\ inq = <<>> /\ sup = "done"
    /\ IF IsEmpty(buf)
       THEN co' = "done" /\ UNCHANGED <<buf, coFrame>>
       ELSE co' = "final" /\ coFrame' = buf /\ buf' = Empty
    /\ UNCHANGED <<pumpVars, supVars, frames, sndVars, gate, wire, jsVars, cmdVars,
                   resets, reg>>

\* Mutant: the frame queue is unbounded.
CoSend_Unbounded ==
    /\ co \in {"flush", "final"} /\ snd # "done"
    /\ frames' = Append(frames, coFrame)
    /\ co' = IF co = "final" THEN "done" ELSE "run"
    /\ UNCHANGED <<pumpVars, supVars, buf, coFrame, sndVars, gate, wire, jsVars,
                   cmdVars, resets, reg>>

CoSend ==
    /\ co \in {"flush", "final"} /\ snd # "done" /\ Len(frames) < FrameCap
    /\ frames' = Append(frames, coFrame)
    /\ co' = IF co = "final" THEN "done" ELSE "run"
    /\ UNCHANGED <<pumpVars, supVars, buf, coFrame, sndVars, gate, wire, jsVars,
                   cmdVars, resets, reg>>

CoSendFails ==
    /\ co \in {"flush", "final"} /\ snd = "done"
    /\ co' = "done"
    /\ UNCHANGED <<pumpVars, supVars, buf, coFrame, frames, sndVars, gate, wire,
                   jsVars, cmdVars, resets, reg>>

Coalesce == CoRecv \/ CoTick \/ CoInputClosed \/ CoSend \/ CoSendFails

-----------------------------------------------------------------------------
(* The sender task of spawn_data_path.                                      *)

SndRecv ==
    /\ snd = "recv" /\ frames # <<>>
    /\ sndFrame' = Head(frames)
    /\ frames' = Tail(frames)
    /\ snd' = "hold"
    /\ UNCHANGED <<pumpVars, supVars, coVars, gate, wire, jsVars, cmdVars, resets,
                   reg>>

\* data.send fails only when the webview is gone, and the application with it.
SndSend ==
    /\ snd = "hold" /\ ~gate
    /\ wire' = Append(wire, sndFrame)
    /\ snd' = "recv"
    /\ UNCHANGED <<pumpVars, supVars, coVars, frames, sndFrame, gate, jsVars,
                   cmdVars, resets, reg>>

SndOrphaned ==
    /\ snd = "hold" /\ gate /\ ~SendersAlive
    /\ snd' = "done"
    /\ UNCHANGED <<pumpVars, supVars, coVars, frames, sndFrame, gate, wire,
                   jsVars, cmdVars, resets, reg>>

SndInputClosed ==
    /\ snd = "recv" /\ frames = <<>> /\ co = "done"
    /\ snd' = "done"
    /\ UNCHANGED <<pumpVars, supVars, coVars, frames, sndFrame, gate, wire,
                   jsVars, cmdVars, resets, reg>>

Sender == SndRecv \/ SndSend \/ SndOrphaned \/ SndInputClosed

-----------------------------------------------------------------------------
(* The webview.                                                             *)

\* open_session has returned: the session is in the map and the webview
\* knows its id.
OpenReturns ==
    /\ reg = "opening"
    /\ reg' = "live"
    /\ UNCHANGED <<pumpVars, supVars, coVars, frames, sndVars, gate, wire,
                   jsVars, cmdVars, resets>>

\* invoke(...) is skipped while session.id is still empty.
Issue(kind) ==
    IF reg = "opening"
    THEN UNCHANGED cmds
    ELSE /\ Len(cmds) < MaxCmds
         /\ cmds' = Append(cmds, [kind |-> kind, step |-> "lookup", gen |-> 0])

Ingest ==
    /\ wire # <<>>
    /\ LET n == Size(Head(wire)) IN
       /\ got' = Head(wire).hi
       /\ pending' = pending + n
       /\ parsing' = Append(parsing, n)
    /\ wire' = Tail(wire)
    /\ \/ /\ ~paused /\ pending' > High
          /\ paused' = TRUE
          /\ Issue("pause")
       \/ /\ paused \/ pending' <= High
          /\ UNCHANGED <<paused, cmds>>
    /\ UNCHANGED <<pumpVars, supVars, coVars, frames, sndVars, gate, overtaken,
                   resets, reg>>

\* The callback of term.write.
Parsed ==
    /\ parsing # <<>>
    /\ parsing' = Tail(parsing)
    /\ pending' = pending - Head(parsing)
    /\ \/ /\ paused /\ pending' < Low
          /\ paused' = FALSE
          /\ Issue("resume")
       \/ /\ ~paused \/ pending' >= Low
          /\ UNCHANGED <<paused, cmds>>
    /\ UNCHANGED <<pumpVars, supVars, coVars, frames, sndVars, gate, wire, got,
                   overtaken, resets, reg>>

\* handleEvent("reconnecting"): resetFlowState, if the tab still has, or
\* already has, its session.
FlowReset ==
    /\ resets > 0
    /\ resets' = resets - 1
    /\ IF reg = "live" THEN pending' = 0 /\ paused' = FALSE
                       ELSE UNCHANGED <<pending, paused>>
    /\ UNCHANGED <<pumpVars, supVars, coVars, frames, sndVars, gate, wire, got,
                   parsing, cmdVars, reg>>

\* disconnect: the tab lets go of its session and invokes close_session.
Disconnect ==
    /\ reg = "live"
    /\ reg' = "closing"
    /\ UNCHANGED <<pumpVars, supVars, coVars, frames, sndVars, gate, wire,
                   jsVars, cmdVars, resets>>

\* close_session: out of the map, then shutdown; closing the channel itself
\* is one of the reasons for PumpStop.
Close ==
    /\ reg = "closing"
    /\ reg' = "closed"
    /\ shutdown' = TRUE
    /\ UNCHANGED <<pumpVars, sup, hold, gen, conn, inq, tries, coVars, frames,
                   sndVars, gate, wire, jsVars, cmdVars, resets>>

-----------------------------------------------------------------------------
(* pause_session and resume_session: look the session up, set the gate,     *)
(* take the control handle, set the pump's own gate.  Each is a task of its *)
(* own, so any command in flight may take the next step.                    *)

WithoutCmd(i) == SubSeq(cmds, 1, i - 1) \o SubSeq(cmds, i + 1, Len(cmds))

CmdLookup(i) ==
    /\ i \in 1 .. Len(cmds) /\ cmds[i].step = "lookup" /\ reg # "closed"
    /\ cmds' = [cmds EXCEPT ![i].step = "gate"]
    /\ UNCHANGED <<pumpVars, supVars, coVars, frames, sndVars, gate, wire,
                   jsVars, overtaken, resets, reg>>

CmdUnknownSession(i) ==
    /\ i \in 1 .. Len(cmds) /\ cmds[i].step = "lookup" /\ reg = "closed"
    /\ cmds' = WithoutCmd(i)
    /\ UNCHANGED <<pumpVars, supVars, coVars, frames, sndVars, gate, wire,
                   jsVars, overtaken, resets, reg>>

\* The session is held by its Arc: whether it is still in the map is not
\* asked again.
CmdGate(i) ==
    /\ i \in 1 .. Len(cmds) /\ cmds[i].step = "gate"
    /\ gate' = (cmds[i].kind = "pause")
    /\ cmds' = [cmds EXCEPT ![i].step = "control"]
    /\ overtaken' = (overtaken \/ i > 1)
    /\ UNCHANGED <<pumpVars, supVars, coVars, frames, sndVars, wire, jsVars,
                   resets, reg>>

CmdControl(i) ==
    /\ i \in 1 .. Len(cmds) /\ cmds[i].step = "control"
    /\ cmds' = [cmds EXCEPT ![i].step = "apply", ![i].gen = conn]
    /\ UNCHANGED <<pumpVars, supVars, coVars, frames, sndVars, gate, wire,
                   jsVars, overtaken, resets, reg>>

\* Mutant: resume opens the desktop gate and forgets the pump's.
CmdApply_PauseOnly(i) ==
    /\ i \in 1 .. Len(cmds) /\ cmds[i].step = "apply"
    /\ pumpPaused' = [pumpPaused EXCEPT ![cmds[i].gen] =
                        @ \/ cmds[i].kind = "pause"]
    /\ cmds' = WithoutCmd(i)
    /\ overtaken' = (overtaken \/ i > 1)
    /\ UNCHANGED <<produced, pump, out, supVars, coVars, frames, sndVars, gate,
                   wire, jsVars, resets, reg>>

CmdApply(i) ==
    /\ i \in 1 .. Len(cmds) /\ cmds[i].step = "apply"
    /\ pumpPaused' = [pumpPaused EXCEPT ![cmds[i].gen] =
                        (cmds[i].kind = "pause")]
    /\ cmds' = WithoutCmd(i)
    /\ overtaken' = (overtaken \/ i > 1)
    /\ UNCHANGED <<produced, pump, out, supVars, coVars, frames, sndVars, gate,
                   wire, jsVars, resets, reg>>

RunCmd(i) ==
    \/ CmdLookup(i) \/ CmdUnknownSession(i)
    \/ CmdGate(i) \/ CmdControl(i) \/ CmdApply(i)

-----------------------------------------------------------------------------

Next ==
    \/ \E g \in Generations : PumpRead(g) \/ PumpSend(g) \/ PumpSendFails(g)
                              \/ PumpStop(g)
    \/ Supervise
    \/ Coalesce
    \/ Sender
    \/ OpenReturns \/ Ingest \/ Parsed \/ FlowReset
    \/ Disconnect \/ Close
    \/ \E i \in 1 .. MaxCmds : RunCmd(i)

Spec == Init /\ [][Next]_vars

(* The tasks behind the pump, the webview's callbacks and the commands run.  *)
(* Nothing is assumed of the remote end, the user or an attempt to          *)
(* reconnect, whose authentication has no timeout.                          *)
Fairness ==
    /\ WF_vars(Supervise /\ sup # "outage") /\ WF_vars(Coalesce) /\ WF_vars(Sender)
    /\ WF_vars(Ingest) /\ WF_vars(Parsed)
    /\ \A i \in 1 .. MaxCmds : WF_vars(RunCmd(i))

FairSpec == Spec /\ Fairness

(* What else may be relied on: the pump moves what it has read, and ends    *)
(* once its channel was asked to close; open, close and reset go through.   *)
MoreFairness ==
    /\ WF_vars(OpenReturns) /\ WF_vars(FlowReset) /\ WF_vars(Close)
    /\ \A g \in Generations : /\ WF_vars(PumpSend(g) \/ PumpSendFails(g))
                              /\ WF_vars(shutdown /\ PumpStop(g))

FairestSpec == FairSpec /\ MoreFairness
-----------------------------------------------------------------------------
(* Properties.                                                              *)

TypeOK ==
    /\ produced \in Nat
    /\ pump \in [Generations -> {"none", "run", "send", "ended"}]
    /\ pumpPaused \in [Generations -> BOOLEAN]
    /\ out \in [Generations -> Seq(Nat)]
    /\ \A g \in Generations : Len(out[g]) <= OutCap
    /\ sup \in {"recv", "send", "outage", "swap", "ungate", "done"}
    /\ hold \in Nat
    /\ gen \in Generations /\ conn \in Generations
    /\ sup \in {"outage", "swap", "ungate"} => gen < Gens
    /\ inq \in Seq(Nat) /\ Len(inq) <= InCap
    /\ co \in {"run", "flush", "final", "done"}
    /\ buf \in Frame /\ coFrame \in Frame
    /\ frames \in Seq(Frame) /\ Len(frames) <= FrameCap
    /\ snd \in {"recv", "hold", "done"}
    /\ sndFrame \in Frame
    /\ gate \in BOOLEAN
    /\ wire \in Seq(Frame)
    /\ got \in Nat
    /\ parsing \in Seq(Int)
    /\ pending \in Int
    /\ paused \in BOOLEAN
    /\ cmds \in Seq(Command) /\ overtaken \in BOOLEAN
    /\ resets \in Nat /\ tries \in Nat
    /\ reg \in {"opening", "live", "closing", "closed"}
    /\ shutdown \in BOOLEAN

(* Where the stream has got to at the end of each stage, starting from what *)
(* the webview has ingested.                                                *)
EndOf(q, from) == IF q = <<>> THEN from ELSE q[Len(q)].hi

Abut(q, from) ==
    \A i \in 1 .. Len(q) :
        /\ q[i].lo = (IF i = 1 THEN from ELSE q[i - 1].hi) + 1
        /\ q[i].lo <= q[i].hi

Follow(q, from) == \A i \in 1 .. Len(q) : q[i] = from + i

AtWire   == EndOf(wire, got)
AtSender == IF snd = "hold" THEN sndFrame.hi ELSE AtWire
AtFrames == EndOf(frames, AtSender)
AtFlush  == IF co \in {"flush", "final"} THEN coFrame.hi ELSE AtFrames
AtBuf    == IF IsEmpty(buf) THEN AtFlush ELSE buf.hi
AtInq    == AtBuf + Len(inq)
AtHold   == IF sup = "send" THEN AtInq + 1 ELSE AtInq

(* Zero drops, duplicates or reorderings: at every moment the frames and    *)
(* chunks between the remote shell and the webview are the next positions   *)
(* of the stream, in order, across pauses, reconnects and closes.  Stages   *)
(* downstream of a task that has returned are exempt from then on.          *)
InOrder ==
    /\ Abut(wire, got)
    /\ snd = "hold" => sndFrame.lo = AtWire + 1 /\ ~IsEmpty(sndFrame)
    /\ snd # "done" => Abut(frames, AtSender)
    /\ snd # "done" /\ co \in {"flush", "final"} =>
            coFrame.lo = AtFrames + 1 /\ ~IsEmpty(coFrame)
    /\ snd # "done" /\ co # "done" /\ ~IsEmpty(buf) => buf.lo = AtFlush + 1
    /\ snd # "done" /\ co # "done" => Follow(inq, AtBuf)
    /\ snd # "done" /\ co # "done" /\ sup = "send" => hold = AtInq + 1
    /\ snd # "done" /\ co # "done" /\ sup # "done" =>
            /\ Follow(out[gen], AtHold)
            /\ pump[gen] = "send" => produced = AtHold + Len(out[gen]) + 1

(* The desktop gate is shut, yet the webview does not think it has paused   *)
(* anything and nothing that could open the gate is on its way.             *)
Stranded == gate /\ ~paused /\ cmds = <<>>

(* Once the session has ended by itself, everything the shell wrote reaches *)
(* the webview (the coalescer's final flush, the frames held at the gate),  *)
(* unless the tab is closed meanwhile or the gate is stranded for good.     *)
OutputDelivered ==
    []<>~Stranded => []<>(sup = "done" => got = produced \/ reg = "closed")

(* Closed with the gate open, and no pause that had found the session in    *)
(* the map has still to shut it.  This stays so.                            *)
ClosedUngated ==
    /\ shutdown /\ ~gate
    /\ \A i \in 1 .. Len(cmds) : ~(cmds[i].kind = "pause" /\ cmds[i].step = "gate")

(* The supervisor of a session that was closed so returns: a pipeline       *)
(* blocked behind the gate drains.  Only a reconnect attempt that never     *)
(* ends holds the supervisor up.                                            *)
CloseStopsUngated ==
    []<>(sup # "outage") => []<>(ClosedUngated => sup = "done")

(* "Pause the Rust producer above HIGH, resume below LOW once parsing       *)
(* catches up" (ipc.ts:5): outside an outage and with nothing in flight, a  *)
(* webview that is not paused faces open gates.                             *)
NoLostResume ==
    /\ reg = "live" /\ sup \notin {"outage", "swap", "ungate"}
    /\ ~paused /\ cmds = <<>> /\ resets = 0
    => ~gate /\ ~pumpPaused[conn]

(* What a lost resume takes: commands that overtook one another, or a drop  *)
(* of the transport.  Nothing else (a lookup, a half-done command, the      *)
(* opening of the session) shuts a gate behind the webview's back.          *)
LostResumeExplained ==
    NoLostResume \/ overtaken \/ gen > 1 \/ tries > 0

-----------------------------------------------------------------------------
(* Claims of the repository that the code does not keep.                    *)

(* resetFlowState: "Across a reconnect there is no such work" in flight.    *)
(* The count of pending bytes never goes below zero.                        *)
PendingNotNegative == pending >= 0

(* supervise, after a swap: "clear any pause left from the old one so the   *)
(* new producer is not throttled against a stale watermark".  A reconnected *)
(* session whose webview is not paused, with nothing in flight, is not held *)
(* back by either gate.                                                     *)
ReconnectClearsPause ==
    /\ reg = "live" /\ sup \in {"recv", "send"} /\ gen > 1
    /\ ~paused /\ cmds = <<>> /\ resets = 0
    => ~gate /\ ~pumpPaused[gen]

(* close_session: "Stop the supervisor first".  A closed session's          *)
(* supervisor returns.                                                      *)
CloseStopsSupervisor == shutdown ~> sup = "done"
=============================================================================
