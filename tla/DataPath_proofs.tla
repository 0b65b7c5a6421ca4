---------------------------- MODULE DataPath_proofs ----------------------------
(***************************************************************************)
(* Proofs about module DataPath, for every depth of every queue, every     *)
(* frame size and watermark, any number of generations, and commands in    *)
(* any order.                                                              *)
(***************************************************************************)
EXTENDS DataPath, SequenceTheorems, TLAPS

\* The generation whose pump is at work: the one supervise reads, or the one
\* it is about to read once the reconnector has returned.
Current == IF sup \in {"swap", "ungate"} THEN gen + 1 ELSE gen

\* Generations that were replaced are drained, later ones have not started,
\* and an outage begins only when the current one is drained.
OneSource ==
    /\ \A g \in Generations : g < Current => pump[g] = "ended" /\ out[g] = <<>>
    /\ \A g \in Generations : g > Current => pump[g] = "none" /\ out[g] = <<>>
    /\ sup = "outage" => pump[gen] = "ended" /\ out[gen] = <<>>

\* While every stage is up, what was read off the channel is accounted for.
Held(g) == IF pump[g] = "send" THEN 1 ELSE 0
Tally ==
    snd # "done" /\ co # "done" /\ sup # "done" =>
        /\ Follow(out[Current], AtHold)
        /\ produced = AtHold + Len(out[Current]) + Held(Current)

-----------------------------------------------------------------------------
(* Queues of frames and of chunks.                                          *)

\* Appending the next frame to a queue of frames that abut.
LEMMA AbutAppend ==
    ASSUME NEW q \in Seq(Frame), NEW from \in Nat, NEW f \in Frame,
           Abut(q, from), f.lo = EndOf(q, from) + 1, f.lo <= f.hi
    PROVE  Abut(Append(q, f), from) /\ EndOf(Append(q, f), from) = f.hi
<1>1. /\ Append(q, f) \in Seq(Frame) /\ Append(q, f) # <<>>
      /\ Len(Append(q, f)) = Len(q) + 1
      /\ \A i \in 1 .. Len(q) : Append(q, f)[i] = q[i]
      /\ Append(q, f)[Len(q) + 1] = f
  BY AppendProperties
<1>2. Len(q) \in Nat /\ (q = <<>> <=> Len(q) = 0)
  OBVIOUS
<1> QED
  BY <1>1, <1>2 DEF Abut, EndOf

\* A queue is empty exactly when its length is 0.
LEMMA EmptyQueue ==
    ASSUME NEW S, NEW q \in Seq(S)
    PROVE  Len(q) \in Nat /\ (q = <<>> <=> Len(q) = 0)
OBVIOUS

\* Taking the first frame off a queue of frames that abut.
LEMMA AbutTail ==
    ASSUME NEW q \in Seq(Frame), NEW from \in Nat, q # <<>>, Abut(q, from)
    PROVE  /\ Abut(Tail(q), Head(q).hi) /\ EndOf(Tail(q), Head(q).hi) = EndOf(q, from)
           /\ Head(q).lo = from + 1 /\ Head(q).lo <= Head(q).hi
<1>1. /\ Tail(q) \in Seq(Frame) /\ Len(Tail(q)) = Len(q) - 1
      /\ \A i \in 1 .. Len(Tail(q)) : Tail(q)[i] = q[i + 1]
  BY HeadTailProperties
<1>2. Len(q) \in Nat \ {0} /\ Head(q) = q[1]
  BY EmptySeq
<1>3. Tail(q) = <<>> <=> Len(q) = 1
  <2>1. Tail(q) = <<>> <=> Len(Tail(q)) = 0
    BY <1>1, EmptyQueue, Zenon
  <2>2. Len(Tail(q)) = 0 <=> Len(q) = 1
    BY <1>1, <1>2
  <2> QED
    BY <2>1, <2>2, Zenon
<1> QED
  BY <1>1, <1>2, <1>3 DEF Abut, EndOf

\* The position behind a queue of frames is a number.
LEMMA EndOfType ==
    ASSUME NEW q \in Seq(Frame), NEW from \in Nat
    PROVE  EndOf(q, from) \in Nat
<1>1. CASE q = <<>>
  BY <1>1 DEF EndOf
<1>2. CASE q # <<>>
  <2>1. Len(q) \in 1 .. Len(q)
    BY <1>2, EmptyQueue
  <2>2. q[Len(q)] \in Frame
    BY <2>1, ElementOfSeq
  <2> QED
    BY <1>2, <2>2 DEF EndOf, Frame
<1> QED
  BY <1>1, <1>2

\* The same for a queue of consecutive chunks.
LEMMA FollowAppend ==
    ASSUME NEW q \in Seq(Nat), NEW from \in Nat, Follow(q, from)
    PROVE  Follow(Append(q, from + Len(q) + 1), from)
<1>1. from + Len(q) + 1 \in Nat
  OBVIOUS
<1>2. /\ Len(Append(q, from + Len(q) + 1)) = Len(q) + 1
      /\ \A i \in 1 .. Len(q) : Append(q, from + Len(q) + 1)[i] = q[i]
      /\ Append(q, from + Len(q) + 1)[Len(q) + 1] = from + Len(q) + 1
  BY <1>1, AppendProperties
<1> QED
  BY <1>2 DEF Follow

\* Taking the first chunk off a queue of consecutive chunks.
LEMMA FollowTail ==
    ASSUME NEW q \in Seq(Nat), NEW from \in Nat, q # <<>>, Follow(q, from)
    PROVE  Head(q) = from + 1 /\ Follow(Tail(q), from + 1) /\ Len(Tail(q)) = Len(q) - 1
<1>1. /\ Len(Tail(q)) = Len(q) - 1
      /\ \A i \in 1 .. Len(Tail(q)) : Tail(q)[i] = q[i + 1]
  BY HeadTailProperties
<1> QED
  BY <1>1 DEF Follow

-----------------------------------------------------------------------------
(* Types.                                                                   *)

\* The parts of TypeOK, one per task.
PumpType ==
    /\ produced \in Nat
    /\ pump \in [Generations -> {"none", "run", "send", "ended"}]
    /\ pumpPaused \in [Generations -> BOOLEAN]
    /\ out \in [Generations -> Seq(Nat)]
    /\ \A g \in Generations : Len(out[g]) <= OutCap
SupType ==
    /\ sup \in {"recv", "send", "outage", "swap", "ungate", "done"}
    /\ hold \in Nat
    /\ gen \in Generations /\ conn \in Generations
    /\ sup \in {"outage", "swap", "ungate"} => gen < Gens
    /\ inq \in Seq(Nat) /\ Len(inq) <= InCap
    /\ tries \in Nat /\ shutdown \in BOOLEAN
CoType ==
    /\ co \in {"run", "flush", "final", "done"}
    /\ buf \in Frame /\ coFrame \in Frame
SndType ==
    /\ snd \in {"recv", "hold", "done"}
    /\ sndFrame \in Frame
QueueType ==
    /\ frames \in Seq(Frame) /\ Len(frames) <= FrameCap
    /\ wire \in Seq(Frame)
JsType ==
    /\ got \in Nat
    /\ parsing \in Seq(Int)
    /\ pending \in Int
    /\ paused \in BOOLEAN
    /\ cmds \in Seq(Command) /\ overtaken \in BOOLEAN
FlagType ==
    /\ gate \in BOOLEAN
    /\ resets \in Nat
    /\ reg \in {"opening", "live", "closing", "closed"}

\* The type invariant, by the task each variable belongs to.
LEMMA TypeParts ==
    TypeOK <=> /\ PumpType /\ SupType /\ CoType /\ SndType /\ QueueType
               /\ JsType /\ FlagType
BY DEF TypeOK, PumpType, SupType, CoType, SndType, QueueType, JsType, FlagType

\* The same for the next state.
LEMMA TypePartsNext ==
    /\ PumpType' /\ SupType' /\ CoType' /\ SndType' /\ QueueType'
    /\ JsType' /\ FlagType'
    => TypeOK'
BY DEF TypeOK, PumpType, SupType, CoType, SndType, QueueType, JsType, FlagType

\* A task that takes no step keeps its type.
LEMMA TypeKept ==
    /\ PumpType /\ UNCHANGED pumpVars => PumpType'
    /\ SupType /\ UNCHANGED supVars => SupType'
    /\ CoType /\ UNCHANGED coVars => CoType'
    /\ SndType /\ UNCHANGED sndVars => SndType'
    /\ QueueType /\ UNCHANGED <<frames, wire>> => QueueType'
    /\ JsType /\ UNCHANGED <<jsVars, cmdVars>> => JsType'
    /\ FlagType /\ UNCHANGED <<gate, resets, reg>> => FlagType'
<1>1. PumpType /\ UNCHANGED pumpVars => PumpType'
  BY DEF PumpType, pumpVars
<1>2. SupType /\ UNCHANGED supVars => SupType'
  BY DEF SupType, supVars
<1>3. CoType /\ UNCHANGED coVars => CoType'
  BY DEF CoType, coVars
<1>4. SndType /\ UNCHANGED sndVars => SndType'
  BY DEF SndType, sndVars
<1>5. QueueType /\ UNCHANGED <<frames, wire>> => QueueType'
  BY DEF QueueType
<1>6. JsType /\ UNCHANGED <<jsVars, cmdVars>> => JsType'
  BY DEF JsType, jsVars, cmdVars
<1>7. FlagType /\ UNCHANGED <<gate, resets, reg>> => FlagType'
  BY DEF FlagType
<1> QED
  BY <1>1, <1>2, <1>3, <1>4, <1>5, <1>6, <1>7

\* Everything empty and open: the types hold initially.
LEMMA InitType == Init => TypeOK
<1> SUFFICES ASSUME Init PROVE TypeOK
  OBVIOUS
<1> USE DataPathAssumption DEF Init
<1>1. PumpType
  <2>1. out \in [Generations -> Seq(Nat)] /\ \A g \in Generations : Len(out[g]) <= OutCap
    OBVIOUS
  <2>2. pump \in [Generations -> {"none", "run", "send", "ended"}]
    OBVIOUS
  <2>3. pumpPaused \in [Generations -> BOOLEAN]
    OBVIOUS
  <2> QED
    BY <2>1, <2>2, <2>3 DEF PumpType
<1>2. SupType
  <2>1. inq \in Seq(Nat) /\ Len(inq) <= InCap
    OBVIOUS
  <2>2. gen \in Generations /\ conn \in Generations
    BY DEF Generations
  <2>3. sup = "recv" /\ shutdown \in BOOLEAN /\ hold \in Nat /\ tries \in Nat
    OBVIOUS
  <2> QED
    BY <2>1, <2>2, <2>3 DEF SupType
<1>3. Empty \in Frame
  BY DEF Empty, Frame
<1>4. CoType /\ SndType
  BY <1>3 DEF CoType, SndType
<1>5. QueueType
  BY DEF QueueType
<1>6. JsType
  <2>1. parsing \in Seq(Int) /\ cmds \in Seq(Command)
    OBVIOUS
  <2>2. paused \in BOOLEAN /\ overtaken \in BOOLEAN
    OBVIOUS
  <2>3. got \in Nat /\ pending \in Int
    OBVIOUS
  <2> QED
    BY <2>1, <2>2, <2>3, Zenon DEF JsType
<1>7. FlagType
  BY DEF FlagType
<1> QED
  BY <1>1, <1>2, <1>4, <1>5, <1>6, <1>7, TypeParts

\* A command taken out of the queue leaves a queue of commands.
LEMMA WithoutCmdType ==
    ASSUME cmds \in Seq(Command), NEW i \in 1 .. Len(cmds)
    PROVE  WithoutCmd(i) \in Seq(Command)
<1>1. \A j \in 1 .. i - 1 : cmds[j] \in Command
  OBVIOUS
<1>2. \A j \in i + 1 .. Len(cmds) : cmds[j] \in Command
  OBVIOUS
<1>3. SubSeq(cmds, 1, i - 1) \in Seq(Command)
  BY <1>1, SubSeqProperties
<1>4. SubSeq(cmds, i + 1, Len(cmds)) \in Seq(Command)
  BY <1>2, SubSeqProperties
<1> QED
  BY <1>3, <1>4, ConcatProperties DEF WithoutCmd

\* Issuing a command.
LEMMA IssueType ==
    ASSUME cmds \in Seq(Command), NEW kind \in {"pause", "resume"}, Issue(kind)
    PROVE  cmds' \in Seq(Command)
<1>1. [kind |-> kind, step |-> "lookup", gen |-> 0] \in Command
  BY DataPathAssumption DEF Command
<1> QED
  BY <1>1, AppendProperties DEF Issue

\* The types are kept by the output pump of any generation,
LEMMA PumpTypeStep ==
    ASSUME TypeOK, NEW g \in Generations,
           PumpRead(g) \/ PumpSend(g) \/ PumpSendFails(g) \/ PumpStop(g)
    PROVE  TypeOK'
<1> USE TypeParts, TypeKept, TypePartsNext
<1>1. CASE PumpRead(g)
  <2>1. PumpType'
    BY <1>1 DEF PumpRead, PumpType
  <2> QED
    BY <1>1, <2>1 DEF PumpRead
<1>2. CASE PumpSend(g)
  <2>1. Append(out[g], produced) \in Seq(Nat) /\ Len(Append(out[g], produced)) = Len(out[g]) + 1
    BY AppendProperties DEF PumpType
  <2>2. out' \in [Generations -> Seq(Nat)] /\ \A h \in Generations : Len(out'[h]) <= OutCap
    BY <1>2, <2>1, DataPathAssumption DEF PumpSend, PumpType
  <2>3. PumpType'
    BY <1>2, <2>2 DEF PumpSend, PumpType
  <2> QED
    BY <1>2, <2>3 DEF PumpSend
<1>3. CASE PumpSendFails(g)
  <2>1. PumpType'
    BY <1>3 DEF PumpSendFails, PumpType
  <2> QED
    BY <1>3, <2>1 DEF PumpSendFails
<1>4. CASE PumpStop(g)
  <2>1. PumpType'
    BY <1>4 DEF PumpStop, PumpType
  <2> QED
    BY <1>4, <2>1 DEF PumpStop
<1> QED
  BY <1>1, <1>2, <1>3, <1>4

\* by the supervisor,
LEMMA SupTypeStep == ASSUME TypeOK, Supervise PROVE TypeOK'
<1> USE TypeParts, TypeKept, TypePartsNext
<1>1. CASE SupShutdown
  <2>1. SupType'
    BY <1>1 DEF SupShutdown, SupType
  <2> QED
    BY <1>1, <2>1 DEF SupShutdown
<1>2. CASE SupRecv
  <2>1. Head(out[gen]) \in Nat /\ Tail(out[gen]) \in Seq(Nat) /\ Len(Tail(out[gen])) = Len(out[gen]) - 1
    BY <1>2, HeadTailProperties DEF SupRecv, PumpType, SupType
  <2>2. out' \in [Generations -> Seq(Nat)] /\ \A h \in Generations : Len(out'[h]) <= OutCap
    BY <1>2, <2>1, DataPathAssumption DEF SupRecv, PumpType, SupType
  <2>3. PumpType'
    BY <1>2, <2>2 DEF SupRecv, PumpType
  <2>4. SupType'
    BY <1>2, <2>1 DEF SupRecv, SupType
  <2> QED
    BY <1>2, <2>3, <2>4 DEF SupRecv
<1>3. CASE SupSend
  <2>1. Append(inq, hold) \in Seq(Nat) /\ Len(Append(inq, hold)) = Len(inq) + 1
    BY AppendProperties DEF SupType
  <2>2. SupType'
    BY <1>3, <2>1, DataPathAssumption DEF SupSend, SupType
  <2> QED
    BY <1>3, <2>2 DEF SupSend
<1>4. CASE SupExit
  <2>1. SupType'
    BY <1>4 DEF SupExit, SupType
  <2> QED
    BY <1>4, <2>1 DEF SupExit
<1>5. CASE SupAnnounceAttempt
  <2>1. SupType'
    BY <1>5 DEF SupAnnounceAttempt, SupType
  <2>2. FlagType'
    BY <1>5 DEF SupAnnounceAttempt, FlagType
  <2> QED
    BY <1>5, <2>1, <2>2 DEF SupAnnounceAttempt
<1>6. CASE SupGiveUp
  <2>1. SupType'
    BY <1>6 DEF SupGiveUp, SupType
  <2> QED
    BY <1>6, <2>1 DEF SupGiveUp
<1>7. CASE SupEstablish
  <2>1. SupType'
    BY <1>7 DEF SupEstablish, SupType
  <2>2. PumpType'
    BY <1>7 DEF SupEstablish, PumpType
  <2> QED
    BY <1>7, <2>1, <2>2 DEF SupEstablish
<1>8. CASE SupSwap
  <2>1. SupType'
    BY <1>8, DataPathAssumption DEF SupSwap, SupType, Generations
  <2> QED
    BY <1>8, <2>1 DEF SupSwap
<1>9. CASE SupUngate
  <2>1. SupType'
    BY <1>9, DataPathAssumption DEF SupUngate, SupType, Generations
  <2>2. FlagType'
    BY <1>9 DEF SupUngate, FlagType
  <2> QED
    BY <1>9, <2>1, <2>2 DEF SupUngate
<1> QED
  BY <1>1, <1>2, <1>3, <1>4, <1>5, <1>6, <1>7, <1>8, <1>9 DEF Supervise

\* by the coalescer,
LEMMA CoTypeStep == ASSUME TypeOK, Coalesce PROVE TypeOK'
<1> USE TypeParts, TypeKept, TypePartsNext
<1>0. Empty \in Frame
  BY DEF Empty, Frame
<1>1. CASE CoRecv
  <2>1. Head(inq) \in Nat /\ Tail(inq) \in Seq(Nat) /\ Len(Tail(inq)) = Len(inq) - 1
    BY <1>1, HeadTailProperties DEF CoRecv, SupType
  <2>2. Extend(buf, Head(inq)) \in Frame
    BY <2>1 DEF CoType, Extend, Frame
  <2>3. CoType'
    BY <1>0, <1>1, <2>2 DEF CoRecv, CoType
  <2>4. SupType'
    BY <1>1, <2>1, DataPathAssumption DEF CoRecv, SupType
  <2> QED
    BY <1>1, <2>3, <2>4 DEF CoRecv
<1>2. CASE CoTick
  <2>1. CoType'
    BY <1>0, <1>2 DEF CoTick, CoType
  <2> QED
    BY <1>2, <2>1 DEF CoTick
<1>3. CASE CoInputClosed
  <2>1. CoType'
    BY <1>0, <1>3 DEF CoInputClosed, CoType
  <2> QED
    BY <1>3, <2>1 DEF CoInputClosed
<1>4. CASE CoSend
  <2>1. Append(frames, coFrame) \in Seq(Frame) /\ Len(Append(frames, coFrame)) = Len(frames) + 1
    BY AppendProperties DEF QueueType, CoType
  <2>2. QueueType'
    BY <1>4, <2>1, DataPathAssumption DEF CoSend, QueueType
  <2>3. CoType'
    BY <1>4 DEF CoSend, CoType
  <2> QED
    BY <1>4, <2>2, <2>3 DEF CoSend
<1>5. CASE CoSendFails
  <2>1. CoType'
    BY <1>5 DEF CoSendFails, CoType
  <2> QED
    BY <1>5, <2>1 DEF CoSendFails
<1> QED
  BY <1>1, <1>2, <1>3, <1>4, <1>5 DEF Coalesce

\* by the sender,
LEMMA SndTypeStep == ASSUME TypeOK, Sender PROVE TypeOK'
<1> USE TypeParts, TypeKept, TypePartsNext
<1>1. CASE SndRecv
  <2>1. Head(frames) \in Frame /\ Tail(frames) \in Seq(Frame) /\ Len(Tail(frames)) = Len(frames) - 1
    BY <1>1, HeadTailProperties DEF SndRecv, QueueType
  <2>2. frames' \in Seq(Frame) /\ Len(frames') = Len(frames) - 1 /\ wire' = wire
    BY <1>1, <2>1, Zenon DEF SndRecv
  <2>4. QueueType'
    BY <2>2, DataPathAssumption DEF QueueType
  <2>3. SndType'
    BY <1>1, <2>1 DEF SndRecv, SndType
  <2> QED
    BY <1>1, <2>4, <2>3 DEF SndRecv
<1>2. CASE SndSend
  <2>1. Append(wire, sndFrame) \in Seq(Frame)
    BY AppendProperties DEF QueueType, SndType
  <2>2. QueueType'
    BY <1>2, <2>1 DEF SndSend, QueueType
  <2>3. SndType'
    BY <1>2 DEF SndSend, SndType
  <2> QED
    BY <1>2, <2>2, <2>3 DEF SndSend
<1>3. CASE SndOrphaned
  <2>1. SndType'
    BY <1>3 DEF SndOrphaned, SndType
  <2> QED
    BY <1>3, <2>1 DEF SndOrphaned
<1>4. CASE SndInputClosed
  <2>1. SndType'
    BY <1>4 DEF SndInputClosed, SndType
  <2> QED
    BY <1>4, <2>1 DEF SndInputClosed
<1> QED
  BY <1>1, <1>2, <1>3, <1>4 DEF Sender

\* by the webview,
LEMMA WebviewTypeStep ==
    ASSUME TypeOK, OpenReturns \/ Ingest \/ Parsed \/ FlowReset \/ Disconnect \/ Close
    PROVE  TypeOK'
<1> USE TypeParts, TypeKept, TypePartsNext
<1>1. CASE OpenReturns
  <2>1. FlagType'
    BY <1>1 DEF OpenReturns, FlagType
  <2> QED
    BY <1>1, <2>1 DEF OpenReturns
<1>2. CASE Ingest
  <2>1. Head(wire) \in Frame /\ Tail(wire) \in Seq(Frame)
    BY <1>2, HeadTailProperties DEF Ingest, QueueType
  <2>2. Size(Head(wire)) \in Int /\ Head(wire).hi \in Nat
    BY <2>1 DEF Size, Frame
  <2>3. Append(parsing, Size(Head(wire))) \in Seq(Int)
    BY <2>2, AppendProperties DEF JsType
  <2>4. paused' \in BOOLEAN /\ cmds' \in Seq(Command) /\ overtaken' \in BOOLEAN
    BY <1>2, IssueType DEF Ingest, JsType
  <2>5. got' \in Nat /\ parsing' \in Seq(Int) /\ pending' \in Int
    BY <1>2, <2>2, <2>3 DEF Ingest, JsType
  <2>6. JsType'
    BY <2>4, <2>5 DEF JsType
  <2>7. QueueType'
    BY <1>2, <2>1 DEF Ingest, QueueType
  <2> QED
    BY <1>2, <2>6, <2>7 DEF Ingest
<1>3. CASE Parsed
  <2>1. Head(parsing) \in Int /\ Tail(parsing) \in Seq(Int)
    BY <1>3, HeadTailProperties DEF Parsed, JsType
  <2>2. paused' \in BOOLEAN /\ cmds' \in Seq(Command) /\ overtaken' \in BOOLEAN
    BY <1>3, IssueType DEF Parsed, JsType
  <2>3. got' \in Nat /\ parsing' \in Seq(Int) /\ pending' \in Int
    BY <1>3, <2>1 DEF Parsed, JsType
  <2>4. JsType'
    BY <2>2, <2>3 DEF JsType
  <2> QED
    BY <1>3, <2>4 DEF Parsed
<1>4. CASE FlowReset
  <2>3. paused' \in BOOLEAN
    BY <1>4 DEF FlowReset, JsType
  <2>4. pending' \in Int
    BY <1>4 DEF FlowReset, JsType
  <2>1. JsType'
    BY <1>4, <2>3, <2>4, Zenon DEF FlowReset, JsType, cmdVars
  <2>2. FlagType'
    BY <1>4 DEF FlowReset, FlagType
  <2> QED
    BY <1>4, <2>1, <2>2 DEF FlowReset
<1>5. CASE Close
  <2>1. SupType'
    BY <1>5 DEF Close, SupType
  <2>2. FlagType'
    BY <1>5 DEF Close, FlagType
  <2> QED
    BY <1>5, <2>1, <2>2 DEF Close
<1>6. CASE Disconnect
  <2>1. FlagType'
    BY <1>6 DEF Disconnect, FlagType
  <2> QED
    BY <1>6, <2>1 DEF Disconnect
<1> QED
  BY <1>1, <1>2, <1>3, <1>4, <1>5, <1>6

\* by a pause or resume command that runs,
LEMMA CmdTypeStep ==
    ASSUME TypeOK, NEW i, RunCmd(i)
    PROVE  TypeOK'
<1> USE TypeParts, TypeKept, TypePartsNext
<1>1. i \in 1 .. Len(cmds)
  BY DEF RunCmd, CmdLookup, CmdGate, CmdUnknownSession, CmdControl, CmdApply
<1>2. cmds \in Seq(Command) /\ cmds[i] \in Command
  BY <1>1, ElementOfSeq DEF JsType
<1>3. CASE CmdGate(i)
  <2>1. [cmds[i] EXCEPT !.step = "control"] \in Command
    BY <1>2 DEF Command
  <2>2. cmds' = [cmds EXCEPT ![i] = [cmds[i] EXCEPT !.step = "control"]]
    BY <1>1, <1>2, <1>3 DEF CmdGate
  <2>3. cmds' \in Seq(Command)
    BY <1>1, <1>2, <2>1, <2>2, ExceptSeq
  <2>6. overtaken' \in BOOLEAN
    BY <1>3 DEF CmdGate, JsType
  <2>4. JsType'
    BY <1>3, <2>3, <2>6 DEF CmdGate, JsType, jsVars
  <2>5. FlagType'
    BY <1>3 DEF CmdGate, FlagType
  <2> QED
    BY <1>3, <2>4, <2>5 DEF CmdGate
<1>4. CASE CmdControl(i)
  <2>1. [cmds[i] EXCEPT !.step = "apply", !.gen = conn] \in Command
    <3>1. conn \in 0 .. Gens
      BY DataPathAssumption DEF SupType, Generations
    <3> QED
      BY <1>2, <3>1 DEF Command
  <2>2. cmds' = [cmds EXCEPT ![i] = [cmds[i] EXCEPT !.step = "apply", !.gen = conn]]
    BY <1>1, <1>2, <1>4 DEF CmdControl
  <2>3. cmds' \in Seq(Command)
    BY <1>1, <1>2, <2>1, <2>2, ExceptSeq
  <2>4. JsType'
    BY <1>4, <2>3 DEF CmdControl, JsType, jsVars
  <2> QED
    BY <1>4, <2>4 DEF CmdControl
<1>5. CASE CmdUnknownSession(i)
  <2>1. cmds' \in Seq(Command)
    BY <1>1, <1>2, <1>5, WithoutCmdType DEF CmdUnknownSession
  <2>2. JsType'
    BY <1>5, <2>1 DEF CmdUnknownSession, JsType, jsVars
  <2> QED
    BY <1>5, <2>2 DEF CmdUnknownSession
<1>6. CASE CmdApply(i)
  <2>1. cmds' \in Seq(Command)
    BY <1>1, <1>2, <1>6, WithoutCmdType DEF CmdApply
  <2>5. overtaken' \in BOOLEAN
    BY <1>6 DEF CmdApply, JsType
  <2>2. JsType'
    BY <1>6, <2>1, <2>5 DEF CmdApply, JsType, jsVars
  <2>3. pumpPaused' \in [Generations -> BOOLEAN]
    BY <1>6 DEF CmdApply, PumpType
  <2>4. PumpType'
    BY <1>6, <2>3 DEF CmdApply, PumpType
  <2> QED
    BY <1>6, <2>2, <2>4 DEF CmdApply
<1>7. CASE CmdLookup(i)
  <2>1. [cmds[i] EXCEPT !.step = "gate"] \in Command
    BY <1>2 DEF Command
  <2>2. cmds' = [cmds EXCEPT ![i] = [cmds[i] EXCEPT !.step = "gate"]]
    BY <1>1, <1>2, <1>7 DEF CmdLookup
  <2>3. cmds' \in Seq(Command)
    BY <1>1, <1>2, <2>1, <2>2, ExceptSeq
  <2>4. JsType'
    BY <1>7, <2>3 DEF CmdLookup, JsType, jsVars
  <2> QED
    BY <1>7, <2>4 DEF CmdLookup
<1> QED
  BY <1>3, <1>4, <1>5, <1>6, <1>7 DEF RunCmd

\* and so by every step.
LEMMA TypeStep == TypeOK /\ [Next]_vars => TypeOK'
<1> SUFFICES ASSUME TypeOK, [Next]_vars PROVE TypeOK'
  OBVIOUS
<1>1. CASE UNCHANGED vars
  BY <1>1, TypeParts, TypeKept, TypePartsNext DEF vars
<1> QED
  BY <1>1, PumpTypeStep, SupTypeStep, CoTypeStep, SndTypeStep, WebviewTypeStep,
     CmdTypeStep
     DEF Next

-----------------------------------------------------------------------------
(* One generation of the transport feeds the session at a time.             *)

\* Only the pump of the current generation has anything to say: OneSource is kept.
LEMMA SourceStep ==
    ASSUME TypeOK, OneSource, [Next]_vars
    PROVE  OneSource'
<1> USE DEF OneSource, Current
<1>0. /\ gen \in 1 .. Gens /\ Gens \in Nat
      /\ sup \in {"outage", "swap", "ungate"} => gen < Gens
      /\ pump \in [Generations -> {"none", "run", "send", "ended"}]
      /\ out \in [Generations -> Seq(Nat)]
  BY DataPathAssumption DEF TypeOK, Generations
<1>1. ASSUME UNCHANGED <<pump, out, sup, gen>> PROVE OneSource'
  BY <1>1
<1>2. ASSUME NEW g \in Generations, pump[g] \in {"run", "send"}
      PROVE  g = Current /\ sup # "outage"
  BY <1>0, <1>2 DEF Generations
<1>3. ASSUME NEW g \in Generations, PumpRead(g) \/ PumpSendFails(g) \/ PumpStop(g)
      PROVE  OneSource'
  <2>1. /\ pump[g] \in {"run", "send"} /\ pump' = [pump EXCEPT ![g] = pump'[g]]
        /\ UNCHANGED <<out, sup, gen>>
    BY <1>0, <1>3 DEF PumpRead, PumpSendFails, PumpStop, supVars
  <2> QED
    BY <1>0, <1>2, <2>1 DEF Generations
<1>4. ASSUME NEW g \in Generations, PumpSend(g) PROVE OneSource'
  <2>1. /\ pump[g] \in {"run", "send"} /\ pump' = [pump EXCEPT ![g] = "run"]
        /\ out' = [out EXCEPT ![g] = out'[g]]
        /\ UNCHANGED <<sup, gen>>
    BY <1>0, <1>4 DEF PumpSend, supVars
  <2> QED
    BY <1>0, <1>2, <2>1 DEF Generations
<1>5. CASE SupRecv
  <2>1. /\ sup = "recv" /\ sup' = "send" /\ pump' = pump /\ gen' = gen
        /\ out' = [out EXCEPT ![gen] = out'[gen]]
    BY <1>0, <1>5 DEF SupRecv, Generations
  <2> QED
    BY <1>0, <2>1 DEF Generations
<1>6. CASE SupSend
  BY <1>6 DEF SupSend, pumpVars
<1>7. CASE SupShutdown \/ SupExit \/ SupGiveUp
  BY <1>7 DEF SupShutdown, SupExit, SupGiveUp, Drained, pumpVars
<1>8. CASE SupAnnounceAttempt
  BY <1>8 DEF SupAnnounceAttempt, Drained, pumpVars
<1>9. CASE SupEstablish
  <2>1. sup = "outage" /\ sup' = "swap" /\ out' = out /\ gen' = gen
        /\ pump' = [pump EXCEPT ![gen + 1] = "run"]
    BY <1>9 DEF SupEstablish
  <2>2. \A g \in Generations : pump'[g] = IF g = gen + 1 THEN "run" ELSE pump[g]
    BY <1>0, <2>1
  <2>3. ASSUME NEW g \in Generations, g < gen + 1 PROVE pump'[g] = "ended" /\ out'[g] = <<>>
    <3>1. g # gen + 1 /\ (g < gen \/ g = gen)
      BY <1>0, <2>3 DEF Generations
    <3>2. pump[g] = "ended" /\ out[g] = <<>>
      BY <2>1, <3>1
    <3> QED
      BY <2>1, <2>2, <3>1, <3>2
  <2>4. ASSUME NEW g \in Generations, g > gen + 1 PROVE pump'[g] = "none" /\ out'[g] = <<>>
    BY <1>0, <2>1, <2>2, <2>4 DEF Generations
  <2> QED
    BY <2>1, <2>3, <2>4
<1>10. CASE SupSwap
  BY <1>10 DEF SupSwap, pumpVars
<1>11. CASE SupUngate
  BY <1>0, <1>11 DEF SupUngate, pumpVars, Generations
<1>12. CASE Coalesce
  BY <1>1, <1>12
     DEF Coalesce, CoRecv, CoTick, CoInputClosed, CoSend, CoSendFails, pumpVars, supVars
<1>13. CASE Sender
  BY <1>1, <1>13
     DEF Sender, SndRecv, SndSend, SndOrphaned, SndInputClosed, pumpVars, supVars
<1>14. CASE OpenReturns \/ Ingest \/ Parsed \/ FlowReset \/ Disconnect \/ Close
  BY <1>1, <1>14 DEF OpenReturns, Ingest, Parsed, FlowReset, Disconnect, Close, pumpVars, supVars
<1>15. ASSUME NEW i, RunCmd(i) PROVE OneSource'
  BY <1>1, <1>15
     DEF RunCmd, CmdLookup, CmdGate, CmdUnknownSession, CmdControl, CmdApply, pumpVars, supVars
<1>16. CASE UNCHANGED vars
  BY <1>1, <1>16 DEF vars, pumpVars, supVars
<1> QED
  BY <1>3, <1>4, <1>5, <1>6, <1>7, <1>8, <1>9, <1>10, <1>11, <1>12, <1>13, <1>14,
     <1>15, <1>16
     DEF Next, Supervise

-----------------------------------------------------------------------------
(* The stages of InOrder, each with the position that the stream has        *)
(* reached behind it.                                                       *)

AtSenderOK ==
    /\ Abut(wire, got)
    /\ snd = "hold" => sndFrame.lo = AtWire + 1 /\ ~IsEmpty(sndFrame)
AtFramesOK == snd # "done" => Abut(frames, AtSender)
AtFlushOK ==
    snd # "done" /\ co \in {"flush", "final"} =>
        coFrame.lo = AtFrames + 1 /\ ~IsEmpty(coFrame)
AtBufOK ==
    snd # "done" /\ co # "done" /\ ~IsEmpty(buf) => buf.lo = AtFlush + 1
AtHoldOK ==
    /\ snd # "done" /\ co # "done" => Follow(inq, AtBuf)
    /\ snd # "done" /\ co # "done" /\ sup = "send" => hold = AtInq + 1

Stages == AtSenderOK /\ AtFramesOK /\ AtFlushOK /\ AtBufOK /\ AtHoldOK /\ Tally

\* The positions of the stages are numbers.
LEMMA AtTypes ==
    ASSUME TypeOK
    PROVE  /\ AtWire \in Nat /\ AtSender \in Nat /\ AtFrames \in Nat /\ AtFlush \in Nat
           /\ AtBuf \in Nat /\ AtInq \in Nat /\ AtHold \in Nat
<1> USE DEF TypeOK
<1>1. AtWire \in Nat
  BY EndOfType DEF AtWire
<1>2. AtSender \in Nat
  BY <1>1 DEF AtSender, Frame
<1>3. AtFrames \in Nat
  BY <1>2, EndOfType DEF AtFrames
<1>4. AtFlush \in Nat
  BY <1>3 DEF AtFlush, Frame
<1>5. AtBuf \in Nat
  BY <1>4 DEF AtBuf, Frame
<1>6. AtInq \in Nat /\ AtHold \in Nat
  BY <1>5 DEF AtInq, AtHold
<1> QED
  BY <1>1, <1>2, <1>3, <1>4, <1>5, <1>6

\* A stage that is not touched, behind a position that has not moved.
LEMMA SenderKept ==
    ASSUME AtSenderOK, UNCHANGED <<wire, got, sndVars>>
    PROVE  AtSenderOK' /\ AtWire' = AtWire /\ AtSender' = AtSender
BY DEF AtSenderOK, AtWire, AtSender, sndVars

\* The frame queue is not touched.
LEMMA FramesKept ==
    ASSUME AtFramesOK, AtSender' = AtSender, frames' = frames, snd' # "done" => snd # "done"
    PROVE  AtFramesOK' /\ AtFrames' = AtFrames
BY DEF AtFramesOK, AtFrames

\* The frame that is being flushed is not touched.
LEMMA FlushKept ==
    ASSUME AtFlushOK, AtFrames' = AtFrames, UNCHANGED <<co, coFrame>>, snd' # "done" => snd # "done"
    PROVE  AtFlushOK' /\ AtFlush' = AtFlush
BY DEF AtFlushOK, AtFlush

\* The coalescer's buffer is not touched.
LEMMA BufKept ==
    ASSUME AtBufOK, AtFlush' = AtFlush, buf' = buf,
           snd' # "done" => snd # "done", co' # "done" => co # "done"
    PROVE  AtBufOK' /\ AtBuf' = AtBuf
BY DEF AtBufOK, AtBuf

\* Nothing before the coalescer is touched.
LEMMA HoldKept ==
    ASSUME AtHoldOK, Tally, AtBuf' = AtBuf,
           UNCHANGED <<inq, sup, hold, gen, out, pump, produced>>,
           snd' # "done" => snd # "done", co' # "done" => co # "done"
    PROVE  AtHoldOK' /\ Tally'
<1>1. AtInq' = AtInq /\ AtHold' = AtHold /\ Current' = Current
  BY DEF AtInq, AtHold, Current
<1>2. Held(Current)' = Held(Current)
  BY <1>1 DEF Held
<1>3. AtHoldOK'
  BY <1>1 DEF AtHoldOK
<1>4. Tally'
  BY <1>1, <1>2 DEF Tally
<1> QED
  BY <1>3, <1>4

\* The sender moves alone: what comes behind it stays where it is.
LEMMA BehindSenderKept ==
    ASSUME Stages, AtSender' = AtSender, snd' # "done" => snd # "done",
           UNCHANGED <<frames, coVars, inq, sup, hold, gen, out, pump, produced>>
    PROVE  AtFramesOK' /\ AtFlushOK' /\ AtBufOK' /\ AtHoldOK' /\ Tally'
<1>1. UNCHANGED <<co, buf, coFrame>>
  BY DEF coVars
<1>2. AtFramesOK' /\ AtFrames' = AtFrames
  BY FramesKept DEF Stages
<1>3. AtFlushOK' /\ AtFlush' = AtFlush
  BY <1>1, <1>2, FlushKept DEF Stages
<1>4. AtBufOK' /\ AtBuf' = AtBuf
  BY <1>1, <1>3, BufKept DEF Stages
<1> QED
  BY <1>1, <1>2, <1>3, <1>4, HoldKept DEF Stages

\* Only the pump or the supervisor moves: what is ahead of them stays.
LEMMA AheadOfHoldKept ==
    ASSUME Stages, UNCHANGED <<wire, got, sndVars, frames, coVars>>
    PROVE  /\ AtSenderOK' /\ AtFramesOK' /\ AtFlushOK' /\ AtBufOK'
           /\ AtBuf' = AtBuf
<1>1. UNCHANGED <<co, buf, coFrame, snd>>
  BY DEF coVars, sndVars
<1>2. AtSenderOK' /\ AtSender' = AtSender
  BY SenderKept DEF Stages
<1>3. AtFramesOK' /\ AtFrames' = AtFrames
  BY <1>1, <1>2, FramesKept DEF Stages
<1>4. AtFlushOK' /\ AtFlush' = AtFlush
  BY <1>1, <1>3, FlushKept DEF Stages
<1>5. AtBufOK' /\ AtBuf' = AtBuf
  BY <1>1, <1>4, BufKept DEF Stages
<1> QED
  BY <1>2, <1>3, <1>4, <1>5

\* No stage is touched.
LEMMA StagesKept ==
    ASSUME Stages,
           UNCHANGED <<wire, got, sndVars, frames, coVars, inq, sup, hold, gen, out,
                       pump, produced>>
    PROVE  Stages'
<1>1. UNCHANGED <<co, snd>>
  BY DEF coVars, sndVars
<1>2. /\ AtSenderOK' /\ AtFramesOK' /\ AtFlushOK' /\ AtBufOK' /\ AtBuf' = AtBuf
  BY AheadOfHoldKept
<1>3. AtHoldOK' /\ Tally'
  BY <1>1, <1>2, HoldKept DEF Stages
<1> QED
  BY <1>2, <1>3 DEF Stages

-----------------------------------------------------------------------------
(* The order of the stream, task by task.                                   *)

\* The pump's steps keep every stage behind the next: a chunk is read in order.
LEMMA PumpStages ==
    ASSUME TypeOK, OneSource, Stages, NEW g \in Generations,
           PumpRead(g) \/ PumpSend(g) \/ PumpSendFails(g) \/ PumpStop(g)
    PROVE  Stages'
<1>0. UNCHANGED <<wire, got, sndVars, frames, coVars, inq, sup, hold, gen, snd, co>>
  BY DEF PumpRead, PumpSend, PumpSendFails, PumpStop, supVars, jsVars, coVars, sndVars
<1>1. /\ AtSenderOK' /\ AtFramesOK' /\ AtFlushOK' /\ AtBufOK' /\ AtBuf' = AtBuf
  BY <1>0, AheadOfHoldKept
<1>2. AtInq' = AtInq /\ AtHold' = AtHold /\ Current' = Current
  BY <1>0, <1>1 DEF AtInq, AtHold, Current
<1>3. AtHoldOK'
  BY <1>0, <1>1, <1>2 DEF Stages, AtHoldOK
<1>4. /\ produced \in Nat /\ AtHold \in Nat
      /\ pump \in [Generations -> {"none", "run", "send", "ended"}]
      /\ out \in [Generations -> Seq(Nat)]
  BY AtTypes DEF TypeOK
<1>5. g = Current
  <2>1. gen \in Nat /\ pump[g] \in {"run", "send"}
    BY DataPathAssumption DEF TypeOK, Generations, PumpRead, PumpSend, PumpSendFails, PumpStop
  <2> QED
    BY <2>1 DEF OneSource, Generations, Current
<1>6. CASE PumpRead(g)
  <2>1. Held(g) = 0 /\ Held(g)' = 1
    BY <1>4, <1>6 DEF PumpRead, Held
  <2>2. out' = out /\ produced' = produced + 1
    BY <1>6 DEF PumpRead
  <2>3. Tally'
    BY <1>0, <1>2, <1>4, <1>5, <2>1, <2>2 DEF Stages, Tally
  <2> QED
    BY <1>1, <1>3, <2>3 DEF Stages
<1>7. CASE PumpSend(g)
  <2>1. Held(g) = 1 /\ Held(g)' = 0
    BY <1>4, <1>7 DEF PumpSend, Held
  <2>2. out'[g] = Append(out[g], produced) /\ produced' = produced
    BY <1>4, <1>7 DEF PumpSend
  <2>3. out[g] \in Seq(Nat) /\ Len(out[g]) \in Nat
    BY <1>4, EmptyQueue
  <2>4. Len(Append(out[g], produced)) = Len(out[g]) + 1
    BY <1>4, <2>3, AppendProperties
  <2>5. ASSUME snd # "done", co # "done", sup # "done"
        PROVE  Follow(out[g], AtHold) /\ produced = AtHold + Len(out[g]) + 1
    BY <1>5, <2>1, <2>5 DEF Stages, Tally
  <2>6. ASSUME snd # "done", co # "done", sup # "done"
        PROVE  Follow(Append(out[g], produced), AtHold)
    BY <1>4, <2>3, <2>5, <2>6, FollowAppend
  <2>7. ASSUME snd' # "done", co' # "done", sup' # "done"
        PROVE  /\ Follow(out[Current], AtHold)'
               /\ produced' = AtHold' + Len(out'[Current']) + Held(Current)'
    <3>1. Follow(out[Current], AtHold)'
      BY <1>0, <1>2, <1>5, <2>2, <2>6, <2>7 DEF Follow
    <3>2. Len(out'[Current']) = Len(out[g]) + 1
      BY <1>2, <1>5, <2>2, <2>4, Zenon
    <3>3. Held(Current)' = 0
      BY <1>2, <1>5, <2>1
    <3> QED
      BY <1>0, <1>2, <1>4, <2>2, <2>3, <2>5, <2>7, <3>1, <3>2, <3>3
  <2>8. Tally'
    BY <2>7 DEF Tally
  <2> QED
    BY <1>1, <1>3, <2>8 DEF Stages
<1>8. CASE PumpSendFails(g)
  <2>1. sup' = "done"
    BY <1>0, <1>8 DEF PumpSendFails
  <2> QED
    BY <1>1, <1>3, <2>1 DEF Stages, Tally
<1>9. CASE PumpStop(g)
  <2>1. Held(g) = 0 /\ Held(g)' = 0
    BY <1>4, <1>9 DEF PumpStop, Held
  <2>2. out' = out /\ produced' = produced
    BY <1>9 DEF PumpStop
  <2>3. Tally'
    BY <1>0, <1>2, <1>4, <1>5, <2>1, <2>2 DEF Stages, Tally
  <2> QED
    BY <1>1, <1>3, <2>3 DEF Stages
<1> QED
  BY <1>6, <1>7, <1>8, <1>9

\* So do those of the supervisor, which swaps transports only once the old is drained.
LEMMA SupStages ==
    ASSUME TypeOK, OneSource, Stages, Supervise
    PROVE  Stages'
<1>0. UNCHANGED <<wire, got, sndVars, frames, coVars, snd, co, produced>>
  BY DEF Supervise, SupShutdown, SupRecv, SupSend, SupExit, SupAnnounceAttempt,
         SupGiveUp, SupEstablish, SupSwap, SupUngate, pumpVars, jsVars, coVars, sndVars
<1>1. /\ AtSenderOK' /\ AtFramesOK' /\ AtFlushOK' /\ AtBufOK' /\ AtBuf' = AtBuf
  BY <1>0, AheadOfHoldKept
<1>2. AtBuf \in Nat /\ AtInq \in Nat /\ inq \in Seq(Nat) /\ Len(inq) \in Nat
  BY AtTypes, EmptyQueue DEF TypeOK
<1>3. /\ gen \in Generations /\ gen \in Nat /\ produced \in Nat
      /\ pump \in [Generations -> {"none", "run", "send", "ended"}]
      /\ out \in [Generations -> Seq(Nat)]
      /\ sup \in {"outage", "swap", "ungate"} => gen + 1 \in Generations
  BY DataPathAssumption DEF TypeOK, Generations
<1>4. ASSUME UNCHANGED inq, sup # "send", sup' # "send", UNCHANGED <<out, Current>>,
             sup' # "done" => sup # "done" /\ Held(Current)' = Held(Current)
      PROVE  Stages'
  <2>1. AtInq' = AtInq /\ AtHold' = AtHold
    BY <1>1, <1>4 DEF AtInq, AtHold
  <2>2. AtHoldOK'
    BY <1>0, <1>1, <1>4 DEF Stages, AtHoldOK
  <2>3. Tally'
    BY <1>0, <1>4, <2>1 DEF Stages, Tally
  <2> QED
    BY <1>1, <2>2, <2>3 DEF Stages
<1>5. CASE SupShutdown \/ SupExit \/ SupGiveUp
  BY <1>4, <1>5 DEF SupShutdown, SupExit, SupGiveUp, Drained, Current, pumpVars
<1>6. CASE SupAnnounceAttempt
  BY <1>4, <1>6 DEF SupAnnounceAttempt, Drained, Current, Held, pumpVars
<1>7. CASE SupSwap
  BY <1>4, <1>7 DEF SupSwap, Current, Held, pumpVars
<1>8. CASE SupUngate
  BY <1>4, <1>8 DEF SupUngate, Current, Held, pumpVars
<1>9. CASE SupEstablish
  <2>1. /\ sup = "outage" /\ sup' = "swap" /\ UNCHANGED <<out, gen, inq>>
        /\ pump' = [pump EXCEPT ![gen + 1] = "run"]
    BY <1>9 DEF SupEstablish
  <2>2. Current = gen /\ Current' = gen + 1
    BY <2>1 DEF Current
  <2>3. AtHold' = AtHold
    BY <1>1, <2>1 DEF AtInq, AtHold
  <2>4. out[gen] = <<>> /\ out[gen + 1] = <<>> /\ Held(gen) = 0 /\ Held(gen + 1)' = 0
    BY <1>3, <2>1, <2>2 DEF OneSource, Held
  <2>5. AtHoldOK'
    BY <1>0, <1>1, <2>1 DEF Stages, AtHoldOK
  <2>6. Tally'
    BY <1>0, <2>1, <2>2, <2>3, <2>4 DEF Stages, Tally
  <2> QED
    BY <1>1, <2>5, <2>6 DEF Stages
<1>10. CASE SupRecv
  <2>1. /\ sup = "recv" /\ sup' = "send" /\ UNCHANGED <<pump, gen, inq>> /\ out[gen] # <<>>
        /\ hold' = Head(out[gen]) /\ out'[gen] = Tail(out[gen])
    BY <1>3, <1>10 DEF SupRecv
  <2>2. Current = gen /\ Current' = gen
    BY <2>1 DEF Current
  <2>3. AtHold = AtInq /\ AtInq' = AtInq /\ AtHold' = AtInq + 1
    BY <1>1, <2>1 DEF AtInq, AtHold
  <2>4. out[gen] \in Seq(Nat)
    BY <1>3
  <2>5. ASSUME snd # "done", co # "done"
        PROVE  /\ Head(out[gen]) = AtInq + 1 /\ Follow(Tail(out[gen]), AtInq + 1)
               /\ Len(Tail(out[gen])) = Len(out[gen]) - 1
    <3>1. Follow(out[gen], AtInq)
      BY <2>1, <2>2, <2>3, <2>5 DEF Stages, Tally
    <3> QED
      BY <1>2, <2>1, <2>4, <3>1, FollowTail
  <2>6. Len(out[gen]) \in Nat
    BY <2>4, EmptyQueue
  <2>7. AtHoldOK'
    BY <1>0, <1>1, <2>1, <2>3, <2>5 DEF Stages, AtHoldOK
  <2>8. Held(gen) \in Nat /\ Held(gen)' = Held(gen)
    BY <2>1 DEF Held
  <2>9. ASSUME snd # "done", co # "done"
        PROVE  /\ Follow(out[Current], AtHold)'
               /\ produced' = AtHold' + Len(out'[Current']) + Held(Current)'
    <3>1. Follow(out[Current], AtHold)'
      BY <2>1, <2>2, <2>3, <2>5, <2>9 DEF Follow
    <3>2. Len(out'[Current']) = Len(out[gen]) - 1
      BY <2>1, <2>2, <2>5, <2>9, Zenon
    <3>3. produced = AtInq + Len(out[gen]) + Held(gen)
      BY <2>1, <2>2, <2>3, <2>9 DEF Stages, Tally
    <3>4. Held(Current)' = Held(gen) /\ produced' = produced
      BY <1>0, <2>1, <2>2 DEF Held
    <3>5. produced = AtInq + 1 + (Len(out[gen]) - 1) + Held(gen)
      <4>1. \A a, l, h \in Nat : a + l + h = a + 1 + (l - 1) + h
        OBVIOUS
      <4> QED
        BY <1>2, <2>6, <2>8, <3>3, <4>1, Zenon
    <3> QED
      BY <2>3, <3>1, <3>2, <3>4, <3>5, Zenon
  <2>10. Tally'
    BY <1>0, <2>9 DEF Tally
  <2> QED
    BY <1>1, <2>7, <2>10 DEF Stages
<1>11. CASE SupSend
  <2>1. /\ sup = "send" /\ sup' = "recv" /\ UNCHANGED <<pump, gen, out, hold>>
        /\ inq' = Append(inq, hold) /\ co # "done" /\ hold \in Nat
    BY <1>11 DEF SupSend, pumpVars, TypeOK
  <2>2. Current = gen /\ Current' = gen
    BY <2>1 DEF Current
  <2>3. Len(Append(inq, hold)) = Len(inq) + 1
    BY <1>2, <2>1, AppendProperties
  <2>4. AtInq' = AtInq + 1
    BY <1>1, <1>2, <2>1, <2>3 DEF AtInq
  <2>5. AtHold' = AtHold
    BY <2>1, <2>4 DEF AtHold
  <2>6. ASSUME snd # "done" PROVE Follow(inq', AtBuf')
    <3>1. Follow(inq, AtBuf) /\ hold = AtBuf + Len(inq) + 1
      BY <2>1, <2>6 DEF Stages, AtHoldOK, AtInq
    <3>2. Follow(Append(inq, hold), AtBuf)
      BY <1>2, <3>1, FollowAppend
    <3> QED
      BY <1>1, <2>1, <3>2
  <2>7. AtHoldOK'
    BY <1>0, <2>1, <2>6 DEF AtHoldOK, Follow
  <2>8. Held(gen)' = Held(gen)
    BY <2>1 DEF Held
  <2>9. Tally'
    BY <1>0, <2>1, <2>2, <2>5, <2>8 DEF Stages, Tally
  <2> QED
    BY <1>1, <2>7, <2>9 DEF Stages
<1> QED
  BY <1>5, <1>6, <1>7, <1>8, <1>9, <1>10, <1>11 DEF Supervise

\* The buffer after a chunk that continues it.
LEMMA ExtendLemma ==
    ASSUME NEW b \in Frame, NEW from \in Nat, NEW p \in Nat,
           ~IsEmpty(b) => b.lo = from + 1,
           p = (IF IsEmpty(b) THEN from ELSE b.hi) + 1
    PROVE  /\ Extend(b, p) \in Frame /\ ~IsEmpty(Extend(b, p))
           /\ Extend(b, p).lo = from + 1 /\ Extend(b, p).hi = p
BY DEF Extend, IsEmpty, Frame

\* So do those of the coalescer, which extends a frame or starts the next.
LEMMA CoStages ==
    ASSUME TypeOK, Stages, Coalesce
    PROVE  Stages'
<1>0. UNCHANGED <<wire, got, sndVars, snd, sup, hold, gen, out, pump, produced>>
  BY DEF Coalesce, CoRecv, CoTick, CoInputClosed, CoSend, CoSendFails, pumpVars,
         supVars, jsVars, sndVars
<1>1. AtSenderOK' /\ AtWire' = AtWire /\ AtSender' = AtSender
  BY <1>0, SenderKept DEF Stages
<1>2. /\ AtSender \in Nat /\ AtFrames \in Nat /\ AtFlush \in Nat /\ AtBuf \in Nat
      /\ AtInq \in Nat /\ inq \in Seq(Nat) /\ Len(inq) \in Nat
      /\ buf \in Frame /\ coFrame \in Frame /\ frames \in Seq(Frame)
  BY AtTypes, EmptyQueue DEF TypeOK
<1>3. IsEmpty(Empty)
  BY DEF IsEmpty, Empty
<1>4. ASSUME co' # "done" => co # "done", co' # "done" => AtInq' = AtInq,
             co' # "done" /\ snd # "done" => Follow(inq', AtBuf')
      PROVE  AtHoldOK' /\ Tally'
  <2>1. co' # "done" => AtHold' = AtHold /\ Current' = Current
    BY <1>0, <1>4 DEF AtHold, Current
  <2>2. AtHoldOK'
    BY <1>0, <1>4 DEF Stages, AtHoldOK
  <2>3. Held(Current') = Held(Current') /\ Held(Current)' = Held(Current')
    BY <1>0 DEF Held
  <2>4. Tally'
    BY <1>0, <1>4, <2>1, <2>3 DEF Stages, Tally
  <2> QED
    BY <2>2, <2>4
<1>5. CASE CoRecv
  <2> DEFINE b == Extend(buf, Head(inq))
  <2>1. co = "run" /\ inq # <<>> /\ inq' = Tail(inq) /\ frames' = frames
    BY <1>5 DEF CoRecv
  <2>2. AtFramesOK' /\ AtFrames' = AtFrames
    BY <1>0, <1>1, <2>1, FramesKept DEF Stages
  <2>3. AtFlush = AtFrames
    BY <2>1 DEF AtFlush
  <2>4. CASE snd = "done"
    <3>1. Tally' /\ AtHoldOK' /\ AtBufOK' /\ AtFlushOK'
      BY <1>0, <2>4 DEF Tally, AtHoldOK, AtBufOK, AtFlushOK
    <3> QED
      BY <1>1, <2>2, <3>1 DEF Stages
  <2>5. CASE snd # "done"
    <3>1. Follow(inq, AtBuf) /\ (~IsEmpty(buf) => buf.lo = AtFlush + 1)
      BY <2>1, <2>5 DEF Stages, AtHoldOK, AtBufOK
    <3>2. /\ Head(inq) = AtBuf + 1 /\ Follow(Tail(inq), AtBuf + 1)
          /\ Len(Tail(inq)) = Len(inq) - 1
      BY <1>2, <2>1, <3>1, FollowTail
    <3>3. b \in Frame /\ ~IsEmpty(b) /\ b.lo = AtFlush + 1 /\ b.hi = AtBuf + 1
      <4>1. Head(inq) = (IF IsEmpty(buf) THEN AtFlush ELSE buf.hi) + 1
        BY <3>2 DEF AtBuf
      <4>2. Head(inq) \in Nat
        BY <1>2, <3>2
      <4> QED
        BY <1>2, <3>1, <3>2, <4>1, <4>2, ExtendLemma
    <3>4. \/ co' = "flush" /\ coFrame' = b /\ buf' = Empty
          \/ co' = co /\ coFrame' = coFrame /\ buf' = b
      BY <1>5 DEF CoRecv
    <3> HIDE DEF b
    <3>5. /\ AtFlushOK' /\ AtBufOK' /\ AtBuf' = AtBuf + 1
      BY <1>0, <1>2, <1>3, <2>1, <2>2, <2>3, <3>3, <3>4
         DEF AtFlushOK, AtBufOK, AtFlush, AtBuf
    <3>6. Len(inq') = Len(inq) - 1 /\ Follow(inq', AtBuf')
      BY <2>1, <3>2, <3>5, Zenon
    <3>7. AtInq' = AtInq /\ co' # "done"
      BY <1>2, <2>1, <3>4, <3>5, <3>6 DEF AtInq
    <3>8. AtHoldOK' /\ Tally'
      BY <1>4, <2>1, <3>6, <3>7
    <3> QED
      BY <1>1, <2>2, <3>5, <3>8 DEF Stages
  <2> QED
    BY <2>4, <2>5
<1>6. CASE CoTick \/ CoInputClosed
  <2>1. /\ co = "run" /\ frames' = frames /\ inq' = inq
        /\ \/ ~IsEmpty(buf) /\ co' \in {"flush", "final"} /\ coFrame' = buf /\ buf' = Empty
           \/ co' = "done" /\ buf' = buf
    BY <1>6 DEF CoTick, CoInputClosed, supVars
  <2>2. AtFramesOK' /\ AtFrames' = AtFrames
    BY <1>0, <1>1, <2>1, FramesKept DEF Stages
  <2>3. AtFlush = AtFrames
    BY <2>1 DEF AtFlush
  <2>4. AtFlushOK' /\ AtBufOK' /\ (co' # "done" => AtBuf' = AtBuf)
    BY <1>0, <1>2, <1>3, <2>1, <2>2, <2>3
       DEF Stages, AtFlushOK, AtBufOK, AtFlush, AtBuf
  <2>5. co' # "done" => AtInq' = AtInq
    BY <2>1, <2>4 DEF AtInq
  <2>6. co' # "done" /\ snd # "done" => Follow(inq', AtBuf')
    BY <2>1, <2>4 DEF Stages, AtHoldOK
  <2>7. AtHoldOK' /\ Tally'
    BY <1>4, <2>1, <2>5, <2>6
  <2> QED
    BY <1>1, <2>2, <2>4, <2>7 DEF Stages
<1>7. CASE CoSend
  <2>1. /\ co \in {"flush", "final"} /\ snd # "done" /\ frames' = Append(frames, coFrame)
        /\ co' \in {"run", "done"} /\ UNCHANGED <<buf, coFrame, inq>>
    BY <1>7 DEF CoSend, supVars
  <2>2. Abut(frames, AtSender) /\ coFrame.lo = EndOf(frames, AtSender) + 1 /\ ~IsEmpty(coFrame)
    BY <2>1 DEF Stages, AtFramesOK, AtFlushOK, AtFrames
  <2>3. coFrame.lo <= coFrame.hi
    BY <1>2, <2>2 DEF IsEmpty, Frame
  <2>4. /\ Abut(Append(frames, coFrame), AtSender)
        /\ EndOf(Append(frames, coFrame), AtSender) = coFrame.hi
    BY <1>2, <2>2, <2>3, AbutAppend
  <2>5. AtFramesOK' /\ AtFrames' = coFrame.hi
    BY <1>1, <2>1, <2>4, Zenon DEF AtFramesOK, AtFrames
  <2>6. AtFlush' = AtFlush
    BY <2>1, <2>5 DEF AtFlush
  <2>7. AtFlushOK'
    BY <2>1 DEF AtFlushOK
  <2>8. AtBufOK' /\ AtBuf' = AtBuf
    BY <1>0, <2>1, <2>6, BufKept DEF Stages
  <2>9. AtHoldOK' /\ Tally'
    BY <1>0, <2>1, <2>8, HoldKept DEF Stages
  <2> QED
    BY <1>1, <2>5, <2>7, <2>8, <2>9 DEF Stages
<1>8. CASE CoSendFails
  <2>1. snd' = "done"
    BY <1>0, <1>8 DEF CoSendFails
  <2>2. AtFramesOK' /\ AtFlushOK' /\ AtBufOK' /\ AtHoldOK' /\ Tally'
    BY <2>1 DEF AtFramesOK, AtFlushOK, AtBufOK, AtHoldOK, Tally
  <2> QED
    BY <1>1, <2>2 DEF Stages
<1> QED
  BY <1>5, <1>6, <1>7, <1>8 DEF Coalesce

\* So do those of the sender.
LEMMA SndStages ==
    ASSUME TypeOK, Stages, Sender
    PROVE  Stages'
<1>0. UNCHANGED <<got, coVars, co, inq, sup, hold, gen, out, pump, produced, buf, coFrame>>
  BY DEF Sender, SndRecv, SndSend, SndOrphaned, SndInputClosed, pumpVars, supVars,
         jsVars, coVars
<1>1. /\ AtWire \in Nat /\ AtSender \in Nat /\ got \in Nat
      /\ frames \in Seq(Frame) /\ wire \in Seq(Frame) /\ sndFrame \in Frame
  BY AtTypes DEF TypeOK
<1>2. CASE SndRecv
  <2>1. /\ snd = "recv" /\ snd' = "hold" /\ frames # <<>> /\ wire' = wire
        /\ sndFrame' = Head(frames) /\ frames' = Tail(frames)
    BY <1>2 DEF SndRecv
  <2>2. AtSender = AtWire /\ AtWire' = AtWire
    BY <1>0, <2>1 DEF AtSender, AtWire
  <2>3. /\ Abut(Tail(frames), Head(frames).hi)
        /\ EndOf(Tail(frames), Head(frames).hi) = EndOf(frames, AtSender)
        /\ Head(frames).lo = AtSender + 1 /\ Head(frames).lo <= Head(frames).hi
    <3>1. Abut(frames, AtSender)
      BY <2>1 DEF Stages, AtFramesOK
    <3> QED
      BY <1>1, <2>1, <3>1, AbutTail
  <2>4. Head(frames) \in Frame
    BY <1>1, <2>1, HeadTailProperties
  <2>5. AtSenderOK'
    <3>1. ~IsEmpty(Head(frames))
      BY <2>3, <2>4 DEF IsEmpty, Frame
    <3>2. Abut(wire, got)'
      BY <1>0, <2>1 DEF Stages, AtSenderOK, Abut
    <3>3. sndFrame'.lo = AtWire' + 1 /\ ~IsEmpty(sndFrame')
      BY <2>1, <2>2, <2>3, <3>1, Zenon
    <3> QED
      BY <3>2, <3>3 DEF AtSenderOK, IsEmpty
  <2>6. AtSender' = Head(frames).hi
    BY <2>1 DEF AtSender
  <2>7. AtFramesOK' /\ AtFrames' = AtFrames
    BY <2>1, <2>3, <2>6, Zenon DEF AtFramesOK, AtFrames
  <2>8. AtFlushOK' /\ AtFlush' = AtFlush
    BY <1>0, <2>1, <2>7, FlushKept DEF Stages
  <2>9. AtBufOK' /\ AtBuf' = AtBuf
    BY <1>0, <2>1, <2>8, BufKept DEF Stages
  <2>10. AtHoldOK' /\ Tally'
    BY <1>0, <2>1, <2>9, HoldKept DEF Stages
  <2> QED
    BY <2>5, <2>7, <2>8, <2>9, <2>10 DEF Stages
<1>3. CASE SndSend
  <2>1. /\ snd = "hold" /\ snd' = "recv" /\ frames' = frames /\ wire' = Append(wire, sndFrame)
    BY <1>3 DEF SndSend
  <2>2. Abut(wire, got) /\ sndFrame.lo = EndOf(wire, got) + 1 /\ ~IsEmpty(sndFrame)
    BY <2>1 DEF Stages, AtSenderOK, AtWire
  <2>3. sndFrame.lo <= sndFrame.hi
    BY <1>1, <2>2 DEF IsEmpty, Frame
  <2>4. /\ Abut(Append(wire, sndFrame), got)
        /\ EndOf(Append(wire, sndFrame), got) = sndFrame.hi
    BY <1>1, <2>2, <2>3, AbutAppend
  <2>5. Abut(wire, got)' /\ AtWire' = sndFrame.hi
    BY <1>0, <2>1, <2>4, Zenon DEF AtWire
  <2>6. AtSenderOK' /\ AtSender' = AtSender
    BY <2>1, <2>5 DEF AtSenderOK, AtSender
  <2>7. AtFramesOK' /\ AtFlushOK' /\ AtBufOK' /\ AtHoldOK' /\ Tally'
    BY <1>0, <2>1, <2>6, BehindSenderKept
  <2> QED
    BY <2>6, <2>7 DEF Stages
<1>4. CASE SndOrphaned \/ SndInputClosed
  <2>1. snd' = "done" /\ wire' = wire
    BY <1>4 DEF SndOrphaned, SndInputClosed
  <2>2. AtSenderOK'
    BY <1>0, <2>1 DEF Stages, AtSenderOK
  <2>3. AtFramesOK' /\ AtFlushOK' /\ AtBufOK' /\ AtHoldOK' /\ Tally'
    BY <2>1 DEF AtFramesOK, AtFlushOK, AtBufOK, AtHoldOK, Tally
  <2> QED
    BY <2>2, <2>3 DEF Stages
<1> QED
  BY <1>2, <1>3, <1>4 DEF Sender

\* So does the webview, which takes the oldest frame off the wire.
LEMMA IngestStages ==
    ASSUME TypeOK, Stages, Ingest
    PROVE  Stages'
<1>0. UNCHANGED <<sndVars, snd, sndFrame, frames, coVars, inq, sup, hold, gen, out, pump,
                  produced>>
  BY DEF Ingest, pumpVars, supVars, sndVars
<1>1. /\ got \in Nat /\ wire \in Seq(Frame) /\ wire # <<>>
      /\ got' = Head(wire).hi /\ wire' = Tail(wire)
  BY DEF Ingest, TypeOK
<1>2. /\ Abut(Tail(wire), Head(wire).hi)
      /\ EndOf(Tail(wire), Head(wire).hi) = EndOf(wire, got)
  BY <1>1, AbutTail DEF Stages, AtSenderOK
<1>3. Abut(wire, got)' /\ AtWire' = AtWire
  BY <1>1, <1>2, Zenon DEF AtWire
<1>4. AtSenderOK' /\ AtSender' = AtSender
  BY <1>0, <1>3 DEF Stages, AtSenderOK, AtSender
<1>5. AtFramesOK' /\ AtFlushOK' /\ AtBufOK' /\ AtHoldOK' /\ Tally'
  BY <1>0, <1>4, BehindSenderKept
<1> QED
  BY <1>4, <1>5 DEF Stages

\* So does every step.
LEMMA StagesStep ==
    ASSUME TypeOK, OneSource, Stages, [Next]_vars
    PROVE  Stages'
<1>1. CASE OpenReturns \/ Parsed \/ FlowReset \/ Disconnect \/ Close
  BY <1>1, StagesKept DEF OpenReturns, Parsed, FlowReset, Disconnect, Close, pumpVars, supVars, jsVars
<1>2. ASSUME NEW i, RunCmd(i) PROVE Stages'
  BY <1>2, StagesKept
     DEF RunCmd, CmdLookup, CmdGate, CmdUnknownSession, CmdControl, CmdApply, pumpVars, supVars, jsVars
<1>3. CASE UNCHANGED vars
  BY <1>3, StagesKept DEF vars, pumpVars, supVars, jsVars
<1> QED
  BY <1>1, <1>2, <1>3, PumpStages, SupStages, CoStages, SndStages, IngestStages DEF Next

\* The stages are what InOrder says, and Tally adds the rest: a generation
\* that was replaced has nothing left to say.
LEMMA StagesInOrder == TypeOK /\ OneSource /\ Stages => InOrder
<1> SUFFICES ASSUME TypeOK, OneSource, Stages PROVE InOrder
  OBVIOUS
<1>1. /\ gen \in Generations /\ gen \in Nat /\ produced \in Nat /\ AtHold \in Nat
      /\ out \in [Generations -> Seq(Nat)]
  BY DataPathAssumption, AtTypes DEF TypeOK, Generations
<1>2. Len(out[gen]) \in Nat
  BY <1>1, EmptyQueue
<1>3. snd # "done" /\ co # "done" /\ sup # "done" =>
        /\ Follow(out[gen], AtHold)
        /\ pump[gen] = "send" => produced = AtHold + Len(out[gen]) + 1
  <2>1. CASE sup \in {"swap", "ungate"}
    <3>1. out[gen] = <<>> /\ pump[gen] = "ended"
      BY <1>1, <2>1 DEF OneSource, Current
    <3> QED
      BY <3>1 DEF Follow
  <2>2. CASE sup \notin {"swap", "ungate"}
    BY <1>1, <1>2, <2>2 DEF Stages, Tally, Current, Held
  <2> QED
    BY <2>1, <2>2
<1> QED
  BY <1>3 DEF InOrder, Stages, AtSenderOK, AtFramesOK, AtFlushOK, AtBufOK, AtHoldOK

-----------------------------------------------------------------------------
(* The theorems.                                                            *)

\* The inductive invariant.
IInv == TypeOK /\ OneSource /\ Stages

\* The inductive invariant holds initially: every stage is empty.
LEMMA InitIInv == Init => IInv
<1> SUFFICES ASSUME Init PROVE IInv
  OBVIOUS
<1>1. TypeOK
  BY InitType
<1>2. OneSource
  BY DataPathAssumption DEF Init, OneSource, Current, Generations
<1>3. IsEmpty(Empty)
  BY DEF IsEmpty, Empty
<1>4. /\ AtWire = 0 /\ AtSender = 0 /\ AtFrames = 0 /\ AtFlush = 0 /\ AtBuf = 0
      /\ AtInq = 0 /\ AtHold = 0
  BY <1>3 DEF Init, AtWire, AtSender, AtFrames, AtFlush, AtBuf, AtInq, AtHold, EndOf
<1>5. Abut(<<>>, 0) /\ Follow(<<>>, 0)
  BY DEF Abut, Follow
<1>6. AtSenderOK /\ AtFramesOK /\ AtFlushOK /\ AtBufOK /\ AtHoldOK
  BY <1>3, <1>4, <1>5 DEF Init, AtSenderOK, AtFramesOK, AtFlushOK, AtBufOK, AtHoldOK
<1>7. Tally
  <2>1. 1 \in Generations
    BY DataPathAssumption DEF Generations
  <2>2. Current = 1 /\ out[1] = <<>> /\ pump[1] = "run" /\ produced = 0
    BY <2>1 DEF Init, Current
  <2> QED
    BY <1>4, <1>5, <2>2 DEF Tally, Held
<1> QED
  BY <1>1, <1>2, <1>6, <1>7 DEF IInv, Stages

\* Every step of every task, command and callback keeps it.
LEMMA StepIInv == IInv /\ [Next]_vars => IInv'
BY TypeStep, SourceStep, StagesStep DEF IInv

\* It holds in every behaviour of the data path.
THEOREM Inductive == Spec => []IInv
BY InitIInv, StepIInv, PTL DEF Spec

\* Every queue between the shell channel and the webview stays within its
\* bound, and nothing leaves its type, whatever the depths and watermarks.
THEOREM TypeCorrect == Spec => []TypeOK
<1>1. IInv => TypeOK
  BY DEF IInv
<1> QED
  BY <1>1, Inductive, PTL

\* Zero drops, duplicates or reorderings: at every moment what lies between
\* the remote shell and the webview is the next positions of the stream, in
\* order, across pauses, reconnects and closes.
THEOREM StreamInOrder == Spec => []InOrder
<1>1. IInv => InOrder
  BY StagesInOrder DEF IInv
<1> QED
  BY <1>1, Inductive, PTL

-----------------------------------------------------------------------------
(* Pause and resume.                                                        *)

\* So far no command was overtaken, the transport was not lost and the session
\* not closed.
Quiet == gen = 1 /\ tries = 0 /\ ~overtaken /\ reg # "closed"

\* While that lasts, only the oldest command has touched a gate, and the
\* youngest one says what the webview wants.
GatesInStep ==
    /\ resets = 0
    /\ reg = "opening" => cmds = <<>> /\ ~gate /\ ~pumpPaused[1]
    /\ \A i \in 2 .. Len(cmds) : cmds[i].step \in {"lookup", "gate"}
    /\ cmds # <<>> =>
        /\ cmds[1].step \in {"control", "apply"} /\ cmds[1].kind = "resume" => ~gate
        /\ cmds[1].step = "apply" => cmds[1].gen = 1
    /\ reg = "live" /\ ~paused =>
        IF cmds = <<>> THEN ~gate /\ ~pumpPaused[1]
        ELSE cmds[Len(cmds)].kind = "resume"

\* An outage is counted from its first announcement on, and commands still
\* reach the first transport until the first swap.
OutageCounted ==
    /\ sup \in {"outage", "swap", "ungate"} => tries > 0
    /\ gen = 1 /\ tries = 0 => conn = 1

FlowInv == OutageCounted /\ (Quiet => GatesInStep)

\* A step that touches neither gates nor commands keeps the gates in step.
LEMMA GatesKept ==
    ASSUME GatesInStep, UNCHANGED <<pumpPaused, gate, cmds, paused, resets, reg>>
    PROVE  GatesInStep'
BY DEF GatesInStep

\* The rest of a sequence, from its second element on.
LEMMA FromSecond ==
    ASSUME NEW S, NEW q \in Seq(S), q # <<>>, NEW m \in Int, NEW n \in Int, m = 2, n = Len(q)
    PROVE  /\ SubSeq(q, m, n) \in Seq(S) /\ Len(SubSeq(q, m, n)) = n - 1
           /\ \A j \in 1 .. n - 1 : SubSeq(q, m, n)[j] = q[j + 1]
<1> DEFINE t == SubSeq(q, m, n)
<1>1. \A j \in m .. n : q[j] \in S
  BY ElementOfSeq
<1>2. /\ t \in Seq(S)
      /\ Len(t) = IF m <= n THEN n - m + 1 ELSE 0
      /\ \A j \in 1 .. n - m + 1 : t[j] = q[m + j - 1]
  BY <1>1, SubSeqProperties, SMT
<1>3. n \in Nat \ {0}
  BY EmptyQueue
<1> HIDE DEF t
<1>4. Len(t) = n - 1
  BY <1>2, <1>3
<1>5. \A j \in 1 .. n - 1 : t[j] = q[j + 1]
  <2>1. \A j \in 1 .. n - 1 : j \in 1 .. n - m + 1 /\ m + j - 1 = j + 1
    BY <1>3
  <2> QED
    BY <1>2, <2>1
<1> QED
  BY <1>2, <1>4, <1>5 DEF t

\* The queue without its oldest command.
LEMMA WithoutFirst ==
    ASSUME cmds \in Seq(Command), cmds # <<>>
    PROVE  /\ WithoutCmd(1) \in Seq(Command) /\ Len(WithoutCmd(1)) = Len(cmds) - 1
           /\ \A j \in 1 .. Len(cmds) - 1 : WithoutCmd(1)[j] = cmds[j + 1]
<1>1. Len(cmds) \in Nat
  BY EmptyQueue
<1>2. SubSeq(cmds, 1, 0) = <<>>
  BY SubSeqProperties
<1>3. /\ SubSeq(cmds, 2, Len(cmds)) \in Seq(Command)
      /\ Len(SubSeq(cmds, 2, Len(cmds))) = Len(cmds) - 1
      /\ \A j \in 1 .. Len(cmds) - 1 : SubSeq(cmds, 2, Len(cmds))[j] = cmds[j + 1]
  <2>1. 2 \in Int /\ Len(cmds) \in Int
    BY <1>1
  <2> QED
    BY <2>1, FromSecond, Zenon
<1>4. WithoutCmd(1) = SubSeq(cmds, 2, Len(cmds))
  <2>1. WithoutCmd(1) = <<>> \o SubSeq(cmds, 2, Len(cmds))
    BY <1>2 DEF WithoutCmd
  <2> QED
    BY <1>3, <2>1, ConcatEmptySeq
<1> QED
  BY <1>3, <1>4, Zenon

\* A command is issued, or not yet because the session has no id.
LEMMA IssueFlow ==
    ASSUME TypeOK, GatesInStep, NEW kind \in {"pause", "resume"}, Issue(kind),
           paused' => kind = "pause", ~paused' => kind = "resume",
           UNCHANGED <<pumpPaused, gate, resets, reg>>
    PROVE  GatesInStep'
<1>1. CASE reg = "opening"
  BY <1>1 DEF GatesInStep, Issue
<1>2. CASE reg # "opening"
  <2> DEFINE c == [kind |-> kind, step |-> "lookup", gen |-> 0]
  <2>1. c \in Command /\ cmds \in Seq(Command) /\ Len(cmds) \in Nat
    BY DataPathAssumption, EmptyQueue DEF Command, TypeOK
  <2>2. cmds' = Append(cmds, c)
    BY <1>2 DEF Issue
  <2>3. c.step = "lookup" /\ c.kind = kind
    OBVIOUS
  <2> HIDE DEF c
  <2>4. /\ Len(cmds') = Len(cmds) + 1 /\ cmds' # <<>> /\ cmds'[Len(cmds) + 1] = c
        /\ \A i \in 1 .. Len(cmds) : cmds'[i] = cmds[i]
    BY <2>1, <2>2, AppendProperties
  <2>5. \A i \in 2 .. Len(cmds') : cmds'[i].step \in {"lookup", "gate"}
    BY <2>1, <2>3, <2>4 DEF GatesInStep
  <2>6. /\ cmds'[1].step \in {"control", "apply"} /\ cmds'[1].kind = "resume" => ~gate'
        /\ cmds'[1].step = "apply" => cmds'[1].gen = 1
    <3>1. CASE cmds = <<>>
      BY <2>1, <2>3, <2>4, <3>1
    <3>2. CASE cmds # <<>>
      <4>1. 1 \in 1 .. Len(cmds)
        BY <2>1, <3>2, EmptyQueue
      <4>2. cmds'[1] = cmds[1]
        BY <2>4, <4>1
      <4> QED
        BY <3>2, <4>2 DEF GatesInStep
    <3> QED
      BY <3>1, <3>2
  <2>7. cmds'[Len(cmds')].kind = kind
    BY <2>3, <2>4
  <2> QED
    BY <1>2, <2>4, <2>5, <2>6, <2>7 DEF GatesInStep
<1> QED
  BY <1>1, <1>2

\* A command that looks its session up or takes the control handle touches no
\* gate.
LEMMA CmdReads ==
    ASSUME TypeOK, GatesInStep, conn = 1, NEW i, CmdLookup(i) \/ CmdControl(i)
    PROVE  GatesInStep'
<1>1. /\ i \in 1 .. Len(cmds) /\ cmds \in Seq(Command)
      /\ UNCHANGED <<pumpPaused, gate, paused, resets, reg>>
  BY DEF CmdLookup, CmdControl, TypeOK, pumpVars, jsVars
<1>2. Len(cmds) \in Nat \ {0} /\ cmds # <<>> /\ i \in Nat \ {0}
  BY <1>1, EmptyQueue
<1>3. CmdControl(i) => i = 1
  BY <1>1, <1>2 DEF CmdControl, GatesInStep
<1>10. PICK d : /\ cmds' = [cmds EXCEPT ![i] = d] /\ d.kind = cmds[i].kind
                /\ CmdLookup(i) => d.step = "gate"
                /\ CmdControl(i) => d.step = "apply" /\ d.gen = 1 /\ cmds[i].step = "control"
  <2>0. cmds[i] \in Command
    BY <1>1, ElementOfSeq
  <2>1. CASE CmdLookup(i)
    <3> DEFINE d == [cmds[i] EXCEPT !.step = "gate"]
    <3>1. cmds' = [cmds EXCEPT ![i] = d] /\ cmds[i].step = "lookup"
      BY <1>1, <2>1 DEF CmdLookup
    <3>2. d.kind = cmds[i].kind /\ d.step = "gate"
      BY <2>0 DEF Command
    <3>3. ~CmdControl(i)
      BY <3>1 DEF CmdControl
    <3> QED
      BY <3>1, <3>2, <3>3
  <2>2. CASE CmdControl(i)
    <3> DEFINE d == [cmds[i] EXCEPT !.step = "apply", !.gen = conn]
    <3>1. cmds' = [cmds EXCEPT ![i] = d] /\ cmds[i].step = "control"
      BY <1>1, <2>2 DEF CmdControl
    <3>2. d.kind = cmds[i].kind /\ d.step = "apply" /\ d.gen = 1
      BY <2>0 DEF Command
    <3>3. ~CmdLookup(i)
      BY <3>1 DEF CmdLookup
    <3> QED
      BY <3>1, <3>2, <3>3
  <2> QED
    BY <2>1, <2>2
<1>4. /\ Len(cmds') = Len(cmds) /\ cmds' # <<>>
      /\ \A j \in 1 .. Len(cmds) : cmds'[j].kind = cmds[j].kind
      /\ \A j \in 1 .. Len(cmds) : j # i => cmds'[j] = cmds[j]
  BY <1>1, <1>2, <1>10
<1>5. /\ CmdLookup(i) => cmds'[i].step = "gate"
      /\ CmdControl(i) => /\ cmds'[i].step = "apply" /\ cmds'[i].gen = 1
                          /\ cmds[i].step = "control"
  BY <1>1, <1>2, <1>10
<1>6. \A j \in 2 .. Len(cmds') : cmds'[j].step \in {"lookup", "gate"}
  BY <1>2, <1>3, <1>4, <1>5 DEF GatesInStep
<1>7. /\ cmds'[1].step \in {"control", "apply"} /\ cmds'[1].kind = "resume" => ~gate'
      /\ cmds'[1].step = "apply" => cmds'[1].gen = 1
  <2>1. CASE i # 1
    <3>1. cmds'[1] = cmds[1]
      BY <1>2, <1>4, <2>1
    <3> QED
      BY <1>1, <1>2, <3>1 DEF GatesInStep
  <2>2. CASE i = 1 /\ CmdLookup(i)
    BY <1>5, <2>2
  <2>3. CASE i = 1 /\ CmdControl(i)
    <3>1. cmds'[1].kind = cmds[1].kind /\ cmds[1].step = "control" /\ cmds'[1].gen = 1
      BY <1>2, <1>4, <1>5, <2>3
    <3> QED
      BY <1>1, <1>2, <3>1 DEF GatesInStep
  <2> QED
    BY <2>1, <2>2, <2>3
<1>8. reg' = "live" /\ ~paused' => cmds'[Len(cmds')].kind = "resume"
  BY <1>1, <1>2, <1>4 DEF GatesInStep
<1>9. reg # "opening"
  BY <1>2 DEF GatesInStep
<1> QED
  BY <1>1, <1>4, <1>6, <1>7, <1>8, <1>9 DEF GatesInStep

\* The oldest command sets a gate.
LEMMA CmdWrites ==
    ASSUME TypeOK, GatesInStep, CmdGate(1) \/ CmdApply(1)
    PROVE  GatesInStep'
<1>1. /\ cmds # <<>> /\ cmds \in Seq(Command) /\ Len(cmds) \in Nat \ {0}
      /\ pumpPaused \in [Generations -> BOOLEAN] /\ 1 \in Generations
      /\ cmds[1] \in Command
  <2>1. 1 \in 1 .. Len(cmds)
    BY DEF CmdGate, CmdApply
  <2>2. cmds \in Seq(Command) /\ pumpPaused \in [Generations -> BOOLEAN]
    BY DEF TypeOK
  <2>3. cmds # <<>> /\ Len(cmds) \in Nat \ {0}
    BY <2>1, <2>2, EmptyQueue
  <2> QED
    BY <2>1, <2>2, <2>3, ElementOfSeq, DataPathAssumption DEF Generations
<1>0. UNCHANGED <<paused, resets, reg>> /\ reg # "opening"
  BY <1>1 DEF CmdGate, CmdApply, jsVars, GatesInStep
<1>2. CASE CmdGate(1)
  <2>1. /\ cmds' = [cmds EXCEPT ![1].step = "control"] /\ gate' = (cmds[1].kind = "pause")
        /\ pumpPaused' = pumpPaused
    BY <1>1, <1>2 DEF CmdGate, pumpVars
  <2>2. /\ Len(cmds') = Len(cmds) /\ cmds' # <<>>
        /\ \A j \in 1 .. Len(cmds) : cmds'[j].kind = cmds[j].kind
        /\ \A j \in 2 .. Len(cmds) : cmds'[j] = cmds[j]
        /\ cmds'[1].step = "control"
    BY <1>1, <2>1 DEF Command
  <2>3. cmds'[1].kind = "resume" => ~gate'
    <3>1. cmds'[1].kind = cmds[1].kind
      BY <1>1, <2>2
    <3> QED
      BY <2>1, <3>1, Zenon
  <2>4. \A j \in 2 .. Len(cmds') : cmds'[j].step \in {"lookup", "gate"}
    BY <2>2 DEF GatesInStep
  <2>5. reg' = "live" /\ ~paused' => cmds'[Len(cmds')].kind = "resume"
    BY <1>0, <1>1, <2>2 DEF GatesInStep
  <2> QED
    BY <1>0, <2>2, <2>3, <2>4, <2>5 DEF GatesInStep
<1>3. CASE CmdApply(1)
  <2>1. cmds' = WithoutCmd(1) /\ gate' = gate
    BY <1>1, <1>3 DEF CmdApply
  <2>2. /\ cmds' \in Seq(Command) /\ Len(cmds') = Len(cmds) - 1
        /\ \A j \in 1 .. Len(cmds) - 1 : cmds'[j] = cmds[j + 1]
    BY <1>1, <2>1, WithoutFirst
  <2>3. cmds' = <<>> <=> Len(cmds) = 1
    BY <1>1, <2>2, EmptyQueue
  <2>4. \A j \in 1 .. Len(cmds') : cmds'[j].step \in {"lookup", "gate"}
    BY <1>1, <2>2 DEF GatesInStep
  <2>5. cmds' # <<>> => cmds'[1].step \in {"lookup", "gate"}
    BY <1>1, <2>2, <2>3, <2>4
  <2>6. reg' = "live" /\ ~paused' /\ cmds' # <<>> => cmds'[Len(cmds')].kind = "resume"
    <3>1. cmds' # <<>> => cmds'[Len(cmds')] = cmds[Len(cmds)]
      BY <1>1, <2>2, <2>3
    <3> QED
      BY <1>0, <1>1, <3>1 DEF GatesInStep
  <2>7. reg' = "live" /\ ~paused' /\ cmds' = <<>> => ~gate' /\ ~pumpPaused'[1]
    <3> SUFFICES ASSUME reg' = "live", ~paused', cmds' = <<>>
                 PROVE  ~gate' /\ ~pumpPaused'[1]
      OBVIOUS
    <3>1. cmds[1].kind = "resume"
      BY <1>0, <1>1, <2>3 DEF GatesInStep
    <3>3. cmds[1].step = "apply" /\ cmds[1].gen = 1
      BY <1>1, <1>3 DEF CmdApply, GatesInStep
    <3>4. ~gate'
      BY <1>1, <2>1, <3>1, <3>3 DEF GatesInStep
    <3>5. pumpPaused' = [pumpPaused EXCEPT ![1] = FALSE]
      BY <3>1, <1>3, <3>3 DEF CmdApply
    <3> QED
      BY <1>1, <3>4, <3>5
  <2> QED
    BY <1>0, <2>4, <2>5, <2>6, <2>7 DEF GatesInStep
<1> QED
  BY <1>2, <1>3

\* A command that runs out of turn, or not at all, ends the quiet.
LEMMA CmdFlow ==
    ASSUME TypeOK, FlowInv, NEW i, RunCmd(i)
    PROVE  FlowInv'
<1>1. UNCHANGED <<sup, gen, tries, conn, reg>>
  BY DEF RunCmd, CmdLookup, CmdGate, CmdUnknownSession, CmdControl, CmdApply, supVars
<1>2. i \in 1 .. Len(cmds) /\ Len(cmds) \in Nat
  BY EmptyQueue
     DEF RunCmd, CmdLookup, CmdGate, CmdUnknownSession, CmdControl, CmdApply, TypeOK
<1>3. OutageCounted'
  BY <1>1 DEF FlowInv, OutageCounted
<1>4. ASSUME Quiet' PROVE GatesInStep'
  <2>0. overtaken' = overtaken \/ overtaken' = (overtaken \/ i > 1)
    BY DEF RunCmd, CmdLookup, CmdGate, CmdUnknownSession, CmdControl, CmdApply
  <2>6. ~overtaken
    <3>1. ~overtaken'
      BY <1>4 DEF Quiet
    <3> QED
      BY <2>0, <3>1, Zenon
  <2>1. Quiet
    BY <1>1, <1>4, <2>6 DEF Quiet
  <2>2. GatesInStep /\ conn = 1
    BY <2>1 DEF FlowInv, OutageCounted, Quiet
  <2>3. CASE CmdUnknownSession(i)
    BY <2>1, <2>3 DEF CmdUnknownSession, Quiet
  <2>4. CASE CmdLookup(i) \/ CmdControl(i)
    BY <2>2, <2>4, CmdReads
  <2>5. CASE CmdGate(i) \/ CmdApply(i)
    <3>1. overtaken' = (overtaken \/ i > 1) /\ ~overtaken'
      BY <1>4, <2>5 DEF CmdGate, CmdApply, Quiet
    <3>2. ~(i > 1)
      BY <3>1, Zenon
    <3>3. i = 1
      BY <1>2, <3>2
    <3> QED
      BY <2>2, <2>5, <3>3, CmdWrites
  <2> QED
    BY <2>3, <2>4, <2>5 DEF RunCmd
<1> QED
  BY <1>3, <1>4 DEF FlowInv

\* Steps of the supervisor: an outage ends the quiet.
LEMMA SupFlow ==
    ASSUME TypeOK, FlowInv, Supervise
    PROVE  FlowInv'
<1>0. gen \in Nat \ {0} /\ tries \in Nat
  BY DataPathAssumption DEF TypeOK, Generations
<1>1. CASE SupRecv \/ SupSend \/ SupShutdown \/ SupExit
  <2>1. /\ UNCHANGED <<pumpPaused, gate, cmds, overtaken, paused, resets, reg>>
        /\ UNCHANGED <<gen, tries, conn>> /\ sup' \in {"recv", "send", "done"}
    BY <1>1 DEF SupRecv, SupSend, SupShutdown, SupExit, pumpVars, jsVars, cmdVars
  <2>2. OutageCounted'
    BY <2>1 DEF FlowInv, OutageCounted
  <2>3. Quiet' => Quiet
    BY <2>1 DEF Quiet
  <2> QED
    BY <2>1, <2>2, <2>3, GatesKept DEF FlowInv
<1>2. CASE SupAnnounceAttempt \/ SupGiveUp \/ SupEstablish \/ SupSwap
  <2>1. tries' > 0
    BY <1>0, <1>2 DEF SupAnnounceAttempt, SupGiveUp, SupEstablish, SupSwap,
                      FlowInv, OutageCounted
  <2> QED
    BY <2>1 DEF FlowInv, OutageCounted, Quiet
<1>3. CASE SupUngate
  <2>1. gen' > 1 /\ sup' = "recv"
    BY <1>0, <1>3 DEF SupUngate
  <2> QED
    BY <2>1 DEF FlowInv, OutageCounted, Quiet
<1> QED
  BY <1>1, <1>2, <1>3 DEF Supervise

\* Every step keeps the flow invariant.
LEMMA FlowStep ==
    ASSUME TypeOK, FlowInv, [Next]_vars
    PROVE  FlowInv'
<1>0. ASSUME UNCHANGED <<sup, gen, tries, conn>>, Quiet' => Quiet,
             GatesInStep /\ Quiet /\ Quiet' => GatesInStep'
      PROVE  FlowInv'
  BY <1>0 DEF FlowInv, OutageCounted
<1>1. ASSUME NEW g \in Generations, PumpRead(g) \/ PumpSend(g) \/ PumpSendFails(g) \/ PumpStop(g)
      PROVE  FlowInv'
  <2>1. UNCHANGED <<pumpPaused, gate, cmds, overtaken, paused, resets, reg, sup, gen, tries, conn>>
    BY <1>1 DEF PumpRead, PumpSend, PumpSendFails, PumpStop, supVars, jsVars, cmdVars
  <2> QED
    BY <1>0, <2>1, GatesKept DEF Quiet
<1>3. CASE Coalesce
  <2>1. UNCHANGED <<pumpPaused, gate, cmds, overtaken, paused, resets, reg, sup, gen, tries, conn>>
    BY <1>3 DEF Coalesce, CoRecv, CoTick, CoInputClosed, CoSend, CoSendFails,
                pumpVars, supVars, jsVars, cmdVars
  <2> QED
    BY <1>0, <2>1, GatesKept DEF Quiet
<1>4. CASE Sender
  <2>1. UNCHANGED <<pumpPaused, gate, cmds, overtaken, paused, resets, reg, sup, gen, tries, conn>>
    BY <1>4 DEF Sender, SndRecv, SndSend, SndOrphaned, SndInputClosed,
                pumpVars, supVars, jsVars, cmdVars
  <2> QED
    BY <1>0, <2>1, GatesKept DEF Quiet
<1>5. CASE OpenReturns \/ Disconnect \/ Close
  <2>1. UNCHANGED <<pumpPaused, gate, cmds, overtaken, paused, resets, sup, gen, tries, conn>>
    BY <1>5 DEF OpenReturns, Disconnect, Close, pumpVars, supVars, jsVars, cmdVars
  <2>2. Quiet' => Quiet
    BY <1>5, <2>1 DEF Quiet, OpenReturns, Disconnect, Close
  <2>3. GatesInStep => GatesInStep'
    BY <1>5, <2>1 DEF GatesInStep, OpenReturns, Disconnect, Close
  <2> QED
    BY <1>0, <2>1, <2>2, <2>3
<1>6. CASE Ingest
  <2>1. UNCHANGED <<pumpPaused, gate, overtaken, resets, reg, sup, gen, tries, conn>>
    BY <1>6 DEF Ingest, pumpVars, supVars
  <2>2. Quiet' => Quiet
    BY <2>1 DEF Quiet
  <2>3. CASE paused' = TRUE /\ Issue("pause")
    BY <1>0, <2>1, <2>2, <2>3, IssueFlow
  <2>4. CASE UNCHANGED <<paused, cmds>>
    BY <1>0, <2>1, <2>2, <2>4, GatesKept
  <2> QED
    BY <1>6, <2>3, <2>4 DEF Ingest
<1>7. CASE Parsed
  <2>1. UNCHANGED <<pumpPaused, gate, overtaken, resets, reg, sup, gen, tries, conn>>
    BY <1>7 DEF Parsed, pumpVars, supVars
  <2>2. Quiet' => Quiet
    BY <2>1 DEF Quiet
  <2>3. CASE paused' = FALSE /\ Issue("resume")
    BY <1>0, <2>1, <2>2, <2>3, IssueFlow
  <2>4. CASE UNCHANGED <<paused, cmds>>
    BY <1>0, <2>1, <2>2, <2>4, GatesKept
  <2> QED
    BY <1>7, <2>3, <2>4 DEF Parsed
<1>8. CASE FlowReset
  <2>1. UNCHANGED <<overtaken, reg, sup, gen, tries, conn>> /\ resets > 0
    BY <1>8 DEF FlowReset, supVars, cmdVars
  <2>2. Quiet' => Quiet
    BY <2>1 DEF Quiet
  <2>3. ~(GatesInStep /\ Quiet)
    BY <2>1 DEF GatesInStep
  <2> QED
    BY <1>0, <2>1, <2>2, <2>3
<1>10. CASE UNCHANGED vars
  <2>1. UNCHANGED <<pumpPaused, gate, cmds, overtaken, paused, resets, reg, sup, gen, tries, conn>>
    BY <1>10 DEF vars, pumpVars, supVars, jsVars, cmdVars
  <2> QED
    BY <1>0, <2>1, GatesKept DEF Quiet
<1> QED
  BY <1>1, <1>3, <1>4, <1>5, <1>6, <1>7, <1>8, <1>10, SupFlow, CmdFlow DEF Next

\* The two ways to lose a resume are the only ones, whatever the depths and
\* watermarks and however commands, drops and closes interleave: with nothing
\* in flight, a webview that is not paused faces open gates, or a command was
\* overtaken by a younger one, or the transport was lost.
THEOREM LostResumesExplained == Spec => []LostResumeExplained
<1>1. Init => FlowInv
  BY DataPathAssumption DEF Init, FlowInv, OutageCounted, Quiet, GatesInStep, Generations
<1>2. IInv /\ FlowInv /\ [Next]_vars => FlowInv'
  BY FlowStep DEF IInv
<1>3. IInv /\ FlowInv => LostResumeExplained
  <2> SUFFICES ASSUME TypeOK, FlowInv, ~overtaken, ~(gen > 1), ~(tries > 0), reg = "live"
               PROVE  NoLostResume
    BY DEF IInv, LostResumeExplained, NoLostResume
  <2>1. gen = 1 /\ tries = 0
    BY DataPathAssumption DEF TypeOK, Generations
  <2>2. GatesInStep /\ conn = 1
    BY <2>1 DEF FlowInv, Quiet, OutageCounted
  <2> QED
    BY <2>2 DEF GatesInStep, NoLostResume
<1> QED
  BY <1>1, <1>2, <1>3, Inductive, PTL DEF Spec

=============================================================================
