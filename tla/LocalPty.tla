------------------------------ MODULE LocalPty ------------------------------
(***************************************************************************)
(* A local shell tab: the reader, writer and reaper threads of core-pty,   *)
(* the pump task of open_session, and the child at the other end of the    *)
(* PTY, which may leave a background process behind that keeps it open.    *)
(* Chunks of output and of input are numbered.                             *)
(***************************************************************************)
EXTENDS Naturals, Sequences, SequencesExt, FiniteSets

CONSTANTS
    MaxOutput, MaxInput,    \* bounds: chunks of output, of input
    KernelDepth,            \* the PTY's kernel buffers, each way
    OutputQueueDepth,       \* OUTPUT_QUEUE_DEPTH
    WriteQueueDepth,        \* the writer thread's queue
    TailDepth               \* what the coalescer and its queues hold

ASSUME PtyConstants ==
    /\ MaxOutput \in Nat /\ MaxInput \in Nat
    /\ {KernelDepth, OutputQueueDepth, WriteQueueDepth, TailDepth} \subseteq Nat \ {0}

VARIABLES
    child,      \* "running" or "exited"
    holders,    \* who has the slave side open
    kernelOut, kernelIn,
    produced,   \* chunks of output written so far
    reader,     \* the reader thread: state and the chunk it holds
    outq,       \* output channel of LocalPty
    pump,       \* the task of open_session: state and the chunk it holds
    tail,       \* in the data path, on the way to the gate
    shown,      \* what the webview received
    paused,     \* the gate, and
    pauses,     \* how often it closed
    tailUp,     \* the gated sender is running
    session,    \* "open" or "closed"
    exit,       \* the reaper's oneshot
    exited,     \* SessionEvent::Exited was sent
    acked,      \* write_session calls that were answered
    writeq, writer,
    received    \* input the child has read
vars == <<child, holders, kernelOut, kernelIn, produced, reader, outq, pump, tail, shown, paused, pauses, tailUp,
          session, exit, exited, acked, writeq, writer, received>>

childSide == <<child, holders, kernelOut, produced>>
inputSide == <<kernelIn, acked, writeq, writer, received>>
outputSide == <<reader, outq, pump, tail, shown, tailUp>>
others == <<paused, pauses, session, exit, exited>>

Task(state, held) == [state |-> state, held |-> held]

\* Mutant: the parent keeps the slave side open after the spawn.
Spawned_KeepsSlave == {"child", "parent"}
\* Only the child has it: the parent's copy is dropped right after the spawn.
Spawned == {"child"}

Init ==
    /\ child = "running" /\ holders = Spawned
    /\ kernelOut = <<>> /\ kernelIn = <<>> /\ produced = 0
    /\ reader = Task("read", <<>>) /\ outq = <<>> /\ pump = Task("recv", <<>>)
    /\ tail = <<>> /\ shown = <<>> /\ paused = FALSE /\ pauses = 0 /\ tailUp = TRUE
    /\ session = "open" /\ exit = FALSE /\ exited = FALSE
    /\ acked = 0 /\ writeq = <<>> /\ writer = "up" /\ received = <<>>

-----------------------------------------------------------------------------
(* The processes on the slave side.                                         *)

ChildWrites ==
    /\ holders \intersect {"child", "background"} # {}
    /\ produced < MaxOutput /\ Len(kernelOut) < KernelDepth
    /\ kernelOut' = Append(kernelOut, produced + 1) /\ produced' = produced + 1
    /\ UNCHANGED <<child, holders, inputSide, outputSide, others>>

ChildReads ==
    /\ child = "running" /\ kernelIn # <<>>
    /\ received' = Append(received, Head(kernelIn)) /\ kernelIn' = Tail(kernelIn)
    /\ UNCHANGED <<childSide, acked, writeq, writer, outputSide, others>>

\* The child may leave a background process that holds the terminal for a while.
ChildExits ==
    /\ child = "running" /\ child' = "exited"
    /\ \E left \in {{}, {"background"}} : holders' = (holders \ {"child"}) \union left
    /\ UNCHANGED <<kernelOut, produced, inputSide, outputSide, others>>

BackgroundEnds ==
    /\ "background" \in holders /\ holders' = holders \ {"background"}
    /\ UNCHANGED <<child, kernelOut, produced, inputSide, outputSide, others>>

-----------------------------------------------------------------------------
(* The reader thread, the reaper thread and the pump task.                  *)

ReaderReads ==
    /\ reader.state = "read" /\ kernelOut # <<>>
    /\ reader' = Task("send", <<Head(kernelOut)>>) /\ kernelOut' = Tail(kernelOut)
    /\ UNCHANGED <<child, holders, produced, inputSide, outq, pump, tail, shown, tailUp, others>>

\* Mutant: the thread stops with the child, not with the end of its output.
ReaderEof_WithChild ==
    /\ reader.state = "read" /\ child = "exited"
    /\ reader' = Task("done", <<>>)
    /\ UNCHANGED <<childSide, inputSide, outq, pump, tail, shown, tailUp, others>>
\* The PTY reads as ended once nobody holds the slave and the buffer is drained.
ReaderEof ==
    /\ reader.state = "read" /\ kernelOut = <<>> /\ holders = {}
    /\ reader' = Task("done", <<>>)
    /\ UNCHANGED <<childSide, inputSide, outq, pump, tail, shown, tailUp, others>>

\* Mutant: a full queue drops the chunk (try_send).
ReaderSends_TrySend ==
    /\ reader.state = "send" /\ pump.state # "done"
    /\ reader' = Task("read", <<>>) /\ outq' = IF Len(outq) < OutputQueueDepth THEN outq \o reader.held ELSE outq
    /\ UNCHANGED <<childSide, inputSide, pump, tail, shown, tailUp, others>>
\* blocking_send: waits for room; a receiver that is gone ends the thread.
ReaderSends ==
    /\ reader.state = "send"
    /\ IF pump.state = "done" THEN reader' = Task("done", <<>>) /\ UNCHANGED outq
       ELSE Len(outq) < OutputQueueDepth /\ reader' = Task("read", <<>>) /\ outq' = outq \o reader.held
    /\ UNCHANGED <<childSide, inputSide, pump, tail, shown, tailUp, others>>

Reap ==
    /\ child = "exited" /\ ~exit /\ exit' = TRUE
    /\ UNCHANGED <<childSide, inputSide, outputSide, paused, pauses, session, exited>>

PumpReceives ==
    /\ pump.state = "recv"
    /\ \/ outq # <<>> /\ pump' = Task("send", <<Head(outq)>>) /\ outq' = Tail(outq)
       \/ outq = <<>> /\ reader.state = "done" /\ pump' = Task("exit", <<>>) /\ UNCHANGED outq
    /\ UNCHANGED <<childSide, inputSide, reader, tail, shown, tailUp, others>>

\* in_tx.send; a data path that is gone breaks the loop.
PumpSends ==
    /\ pump.state = "send"
    /\ IF tailUp THEN Len(tail) < TailDepth /\ pump' = Task("recv", <<>>) /\ tail' = tail \o pump.held
       ELSE pump' = Task("exit", <<>>) /\ UNCHANGED tail
    /\ UNCHANGED <<childSide, inputSide, reader, outq, shown, tailUp, others>>

\* exit_code().await holds the output receiver until the reaper has reported.
PumpEnds ==
    /\ pump.state = "exit" /\ exit
    /\ pump' = Task("done", <<>>) /\ exited' = TRUE
    /\ UNCHANGED <<childSide, inputSide, reader, outq, tail, shown, tailUp, paused, pauses, session, exit>>

-----------------------------------------------------------------------------
(* The data path behind the pump, as DataPath has it, and the commands.     *)

Deliver ==
    /\ tailUp /\ tail # <<>> /\ ~paused
    /\ shown' = Append(shown, Head(tail)) /\ tail' = Tail(tail)
    /\ UNCHANGED <<childSide, inputSide, reader, outq, pump, tailUp, others>>

\* A paused gate whose pause sender went away with the session returns.
GateEnds ==
    /\ tailUp /\ tail # <<>> /\ paused /\ session = "closed"
    /\ tailUp' = FALSE
    /\ UNCHANGED <<childSide, inputSide, reader, outq, pump, tail, shown, others>>

\* A pause, and a resume, takes effect.  ingest issues at most one pause for a
\* frame it receives; when commands take effect, and in which order, is open,
\* and one that has found its session may do so after the close.
PauseSession ==
    /\ ~paused /\ paused' = TRUE
    /\ pauses < Len(shown) /\ pauses' = pauses + 1
    /\ UNCHANGED <<childSide, inputSide, outputSide, session, exit, exited>>
ResumeSession ==
    /\ paused /\ paused' = FALSE
    /\ UNCHANGED <<pauses, childSide, inputSide, outputSide, session, exit, exited>>

\* write_session is answered once the queue has taken the input.
WriteSession ==
    /\ session = "open" /\ writer = "up" /\ acked < MaxInput /\ Len(writeq) < WriteQueueDepth
    /\ writeq' = Append(writeq, acked + 1) /\ acked' = acked + 1
    /\ UNCHANGED <<childSide, kernelIn, writer, received, outputSide, others>>

\* write_all blocks while the child does not read; it fails when nobody holds the slave.
WriterWrites ==
    /\ writer = "up" /\ writeq # <<>>
    /\ IF holders = {} THEN writer' = "done" /\ writeq' = <<>> /\ UNCHANGED kernelIn
       ELSE /\ Len(kernelIn) < KernelDepth /\ UNCHANGED writer
            /\ kernelIn' = Append(kernelIn, Head(writeq)) /\ writeq' = Tail(writeq)
    /\ UNCHANGED <<childSide, acked, received, outputSide, others>>

\* The queue's senders are gone and what was queued is written.
WriterEnds ==
    /\ writer = "up" /\ writeq = <<>> /\ session = "closed" /\ writer' = "done"
    /\ UNCHANGED <<childSide, kernelIn, acked, writeq, received, outputSide, others>>

\* close_session drops the session, and with it the control half and the pause sender.
CloseSession ==
    /\ session = "open" /\ session' = "closed"
    /\ UNCHANGED <<childSide, inputSide, outputSide, paused, pauses, exit, exited>>

ReaderThread == ReaderReads \/ ReaderEof \/ ReaderSends
PumpTask == PumpReceives \/ PumpSends \/ PumpEnds
Next ==
    \/ ChildWrites \/ ChildReads \/ ChildExits \/ BackgroundEnds
    \/ ReaderThread \/ Reap \/ PumpTask \/ Deliver \/ GateEnds
    \/ PauseSession \/ ResumeSession \/ WriteSession \/ WriterWrites \/ WriterEnds \/ CloseSession

Spec == Init /\ [][Next]_vars
\* The threads and tasks run.  Nothing is assumed of the child, nor that a gate
\* is opened again: a pause may overtake its resume.
FairSpec ==
    /\ Spec /\ WF_vars(ReaderThread) /\ WF_vars(PumpTask) /\ WF_vars(Reap) /\ WF_vars(Deliver)
    /\ WF_vars(WriterWrites)

-----------------------------------------------------------------------------
\* Types, and the bounds that make a paused consumer stall the child: nothing
\* between the child and the webview holds more than its depth.
TypeOK ==
    /\ child \in {"running", "exited"} /\ holders \subseteq {"child", "background", "parent"}
    /\ produced \in 0 .. MaxOutput /\ acked \in 0 .. MaxInput
    /\ Len(kernelOut) <= KernelDepth /\ Len(kernelIn) <= KernelDepth
    /\ Len(outq) <= OutputQueueDepth /\ Len(tail) <= TailDepth /\ Len(writeq) <= WriteQueueDepth
    /\ Len(reader.held) <= 1 /\ Len(pump.held) <= 1

UpTo(n) == [k \in 1 .. n |-> k]

\* Nothing is lost, doubled or overtaken in either direction: while the gate is
\* up, what was shown followed by all that is on its way is what was produced;
\* and a consumer that pauses stalls the child, no stage taking in more.
StreamsIntact ==
    /\ TypeOK
    /\ tailUp => shown \o tail \o pump.held \o outq \o reader.held \o kernelOut = UpTo(produced)
    /\ writer = "up" => received \o kernelIn \o writeq = UpTo(acked)
    /\ IsPrefix(shown, UpTo(produced)) /\ IsPrefix(received, UpTo(acked))

\* Exited comes after the child's exit and, unless the session was closed, after
\* every chunk of output was handed to the data path.
ExitIsLast ==
    exited => child = "exited" /\ (tailUp => shown \o tail = UpTo(produced))

\* A shell that ends in an open tab is reported once nobody holds the terminal,
\* whatever it left in the buffers and however often the webview paused, unless
\* the gate stays shut for good (DataPath, NoLostResume) or the tab is closed.
ExitReported ==
    [](child = "exited" /\ "background" \notin holders /\ session = "open"
         => <>(exited \/ session = "closed" \/ []paused))

=============================================================================
