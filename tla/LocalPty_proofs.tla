---------------------------- MODULE LocalPty_proofs ----------------------------
(***************************************************************************)
(* Proofs about module LocalPty, for buffers and queues of every depth and *)
(* any amount of output and input.                                         *)
(***************************************************************************)
EXTENDS LocalPty, SequenceTheorems, TLAPS

\* What the chunks and the tasks that hold them are.  A task holds a chunk
\* exactly while it waits for room to send it.
Shapes ==
    /\ kernelOut \in Seq(Nat) /\ outq \in Seq(Nat) /\ tail \in Seq(Nat) /\ shown \in Seq(Nat)
    /\ kernelIn \in Seq(Nat) /\ writeq \in Seq(Nat) /\ received \in Seq(Nat)
    /\ reader \in [state : {"read", "send", "done"}, held : Seq(Nat)]
    /\ pump \in [state : {"recv", "send", "exit", "done"}, held : Seq(Nat)]
    /\ reader.state # "send" => reader.held = <<>>
    /\ pump.state # "send" => pump.held = <<>>

\* The stream from the webview back to the child, stage by stage.
ToTail == shown \o tail
ToPump == ToTail \o pump.held
ToQueue == ToPump \o outq
ToReader == ToQueue \o reader.held
ToKernel == ToReader \o kernelOut

\* An initial part of 1, 2, ..., n.
Initial(q, n) == Len(q) <= n /\ \A i \in 1 .. Len(q) : q[i] = i

Output ==
    /\ tailUp => ToKernel = UpTo(produced)
    /\ Initial(shown, produced)

Input ==
    /\ writer = "up" => received \o kernelIn \o writeq = UpTo(acked)
    /\ Initial(received \o kernelIn, acked)

\* While the gate is up, a task that has ended left nothing behind it.
Ends ==
    /\ child = "running" => "child" \in holders
    /\ exit => child = "exited"
    /\ exited => exit /\ pump.state = "done"
    /\ tailUp /\ pump.state \in {"exit", "done"} => reader.state = "done" /\ outq = <<>>
    /\ tailUp /\ reader.state = "done" => holders = {} /\ kernelOut = <<>>

IInv == TypeOK /\ Shapes /\ Output /\ Input /\ Ends

-----------------------------------------------------------------------------
(* Streams.                                                                 *)

\* Concatenation is associative,
LEMMA Assoc ==
    ASSUME NEW a \in Seq(Nat), NEW b \in Seq(Nat), NEW c \in Seq(Nat)
    PROVE  (a \o b) \o c = a \o (b \o c)
OBVIOUS

\* as one quantified fact,
LEMMA AllAssoc == \A a, b, c \in Seq(Nat) : (a \o b) \o c = a \o (b \o c)
BY Assoc

\* keeps the type,
LEMMA ConcatType ==
    ASSUME NEW a \in Seq(Nat), NEW b \in Seq(Nat)
    PROVE  a \o b \in Seq(Nat)
OBVIOUS

\* and the empty sequence is neutral.
LEMMA EmptyConcat ==
    ASSUME NEW a \in Seq(Nat)
    PROVE  a \o <<>> = a
OBVIOUS

\* The first element of a stage moves into the empty stage before it.
LEMMA MoveHead ==
    ASSUME NEW q \in Seq(Nat), q # <<>>
    PROVE  /\ <<Head(q)>> \in Seq(Nat) /\ Len(<<Head(q)>>) = 1
           /\ Head(q) \in Nat /\ Tail(q) \in Seq(Nat) /\ Len(Tail(q)) = Len(q) - 1
           /\ <<Head(q)>> \o Tail(q) = q
<1>1. Head(q) \in Nat /\ Tail(q) \in Seq(Nat) /\ Len(Tail(q)) = Len(q) - 1
  BY HeadTailProperties
<1>2. <<Head(q)>> \o Tail(q) = q
  OBVIOUS
<1> QED
  BY <1>1, <1>2

\* It moves to the end of the stage before it.
LEMMA MoveToEnd ==
    ASSUME NEW a \in Seq(Nat), NEW q \in Seq(Nat), q # <<>>
    PROVE  /\ Append(a, Head(q)) \in Seq(Nat) /\ Len(Append(a, Head(q))) = Len(a) + 1
           /\ Append(a, Head(q)) \o Tail(q) = a \o q
<1>1. Head(q) \in Nat /\ <<Head(q)>> \in Seq(Nat) /\ Tail(q) \in Seq(Nat)
  BY MoveHead
<1>2. Append(a, Head(q)) \o Tail(q) = a \o q
  <2>1. Append(a, Head(q)) = a \o <<Head(q)>>
    BY <1>1, AppendIsConcat
  <2>2. (a \o <<Head(q)>>) \o Tail(q) = a \o (<<Head(q)>> \o Tail(q))
    BY <1>1, Assoc, Zenon
  <2> QED
    BY <2>1, <2>2, MoveHead, Zenon
<1> QED
  BY <1>1, <1>2, AppendProperties

\* UpTo(n) is the sequence of the first n chunks.
LEMMA UpToType ==
    ASSUME NEW n \in Nat
    PROVE  UpTo(n) \in Seq(Nat) /\ Len(UpTo(n)) = n /\ \A i \in 1 .. n : UpTo(n)[i] = i
BY DEF UpTo

\* A new chunk at the far end.
LEMMA Produce ==
    ASSUME NEW n \in Nat, NEW a \in Seq(Nat), NEW q \in Seq(Nat), a \o q = UpTo(n)
    PROVE  a \o Append(q, n + 1) = UpTo(n + 1)
<1>1. a \o Append(q, n + 1) = Append(a \o q, n + 1)
  OBVIOUS
<1>2. Append(UpTo(n), n + 1) = UpTo(n + 1)
  BY DEF UpTo
<1> QED
  BY <1>1, <1>2

\* Its left part is an initial one.
LEMMA PrefixOfUpTo ==
    ASSUME NEW n \in Nat, NEW a \in Seq(Nat), NEW q \in Seq(Nat), a \o q = UpTo(n)
    PROVE  Initial(a, n)
<1>1. /\ Len(a \o q) = Len(a) + Len(q) /\ Len(a) \in Nat /\ Len(q) \in Nat
      /\ \A i \in 1 .. Len(a) + Len(q) : (a \o q)[i] = IF i <= Len(a) THEN a[i] ELSE q[i - Len(a)]
  BY ConcatProperties, LenProperties
<1>2. Len(UpTo(n)) = n /\ \A i \in 1 .. n : UpTo(n)[i] = i
  BY UpToType
<1>3. n = Len(a) + Len(q)
  BY <1>1, <1>2, Zenon
<1>4. \A i \in 1 .. Len(a) : i \in 1 .. n /\ i \in 1 .. Len(a) + Len(q) /\ i <= Len(a)
  BY <1>1, <1>3
<1>5. \A i \in 1 .. n : (a \o q)[i] = i
  BY <1>2, Zenon
<1>6. \A i \in 1 .. Len(a) : a[i] = i
  BY <1>1, <1>4, <1>5
<1> QED
  BY <1>1, <1>3, <1>6 DEF Initial

\* The left part of an initial part is one.
LEMMA InitialLeft ==
    ASSUME NEW n \in Nat, NEW a \in Seq(Nat), NEW q \in Seq(Nat), Initial(a \o q, n)
    PROVE  Initial(a, n)
<1>1. /\ Len(a \o q) = Len(a) + Len(q) /\ Len(a) \in Nat /\ Len(q) \in Nat
      /\ \A i \in 1 .. Len(a) + Len(q) : (a \o q)[i] = IF i <= Len(a) THEN a[i] ELSE q[i - Len(a)]
  BY ConcatProperties, LenProperties
<1>2. \A i \in 1 .. Len(a) : i \in 1 .. Len(a) + Len(q) /\ i <= Len(a)
  BY <1>1
<1>3. Len(a) + Len(q) <= n /\ \A i \in 1 .. Len(a) + Len(q) : (a \o q)[i] = i
  BY <1>1, Zenon DEF Initial
<1>4. \A i \in 1 .. Len(a) : a[i] = i
  BY <1>1, <1>2, <1>3
<1> QED
  BY <1>1, <1>3, <1>4 DEF Initial

\* An initial part is a prefix, and stays one when there is more.
LEMMA InitialIsPrefix ==
    ASSUME NEW n \in Nat, NEW a \in Seq(Nat), Initial(a, n)
    PROVE  IsPrefix(a, UpTo(n)) /\ Initial(a, n + 1)
<1>1. IsPrefix(a, UpTo(n))
  BY DEF IsPrefix, UpTo, Initial
<1>2. Initial(a, n + 1)
  BY DEF Initial
<1> QED
  BY <1>1, <1>2

\* The stages of the output hold chunks.
LEMMA StageTypes ==
    ASSUME Shapes
    PROVE  /\ ToTail \in Seq(Nat) /\ ToPump \in Seq(Nat) /\ ToQueue \in Seq(Nat)
           /\ ToReader \in Seq(Nat) /\ ToKernel \in Seq(Nat)
           /\ reader.held \in Seq(Nat) /\ pump.held \in Seq(Nat)
<1>1. reader.held \in Seq(Nat) /\ pump.held \in Seq(Nat)
  BY DEF Shapes
<1>2. ToTail \in Seq(Nat)
  BY ConcatType DEF ToTail, Shapes
<1>3. ToPump \in Seq(Nat)
  BY <1>1, <1>2, ConcatType DEF ToPump
<1>4. ToQueue \in Seq(Nat)
  BY <1>3, ConcatType DEF ToQueue, Shapes
<1>5. ToReader \in Seq(Nat)
  BY <1>1, <1>4, ConcatType DEF ToReader
<1>6. ToKernel \in Seq(Nat)
  BY <1>5, ConcatType DEF ToKernel, Shapes
<1> QED
  BY <1>1, <1>2, <1>3, <1>4, <1>5, <1>6

\* What a task is made of.
LEMMA TaskLemma ==
    ASSUME NEW st, NEW h
    PROVE  Task(st, h).state = st /\ Task(st, h).held = h
BY DEF Task

-----------------------------------------------------------------------------
(* The input stream: only these actions touch it.                           *)

\* A step that leaves the input side alone keeps what is said of it.
LEMMA InputKept ==
    ASSUME IInv, UNCHANGED inputSide
    PROVE  Input'
BY DEF IInv, Input, Initial, inputSide

\* The invariant is kept by the input side: command, writer and reading child,
LEMMA InputStep ==
    ASSUME IInv, ChildReads \/ WriteSession \/ WriterWrites \/ WriterEnds
    PROVE  IInv'
<1>1. TypeOK /\ Shapes /\ Output /\ Input /\ Ends
  BY DEF IInv
<1>2. UNCHANGED <<childSide, outputSide, others>>
  BY DEF ChildReads, WriteSession, WriterWrites, WriterEnds
<1>3. Output' /\ Ends'
  <2>1. UNCHANGED <<child, holders, kernelOut, produced, reader, outq, pump, tail, shown, tailUp,
                    exit, exited>>
    BY <1>2 DEF childSide, outputSide, others
  <2>2. ToKernel' = ToKernel
    BY <2>1 DEF ToKernel, ToReader, ToQueue, ToPump, ToTail
  <2>3. Output'
    BY <1>1, <2>1, <2>2 DEF Output, Initial
  <2> QED
    BY <1>1, <2>1, <2>3 DEF Ends
<1>4. /\ received \in Seq(Nat) /\ kernelIn \in Seq(Nat) /\ writeq \in Seq(Nat) /\ acked \in Nat
      /\ received \o kernelIn \in Seq(Nat)
      /\ Len(kernelIn) \in Nat /\ Len(writeq) \in Nat /\ Len(kernelIn) <= KernelDepth
      /\ Len(writeq) <= WriteQueueDepth /\ KernelDepth \in Nat /\ WriteQueueDepth \in Nat
      /\ acked <= MaxInput /\ MaxInput \in Nat
  BY <1>1, ConcatType, LenProperties, PtyConstants DEF Shapes, TypeOK
<1>5. ASSUME received' \in Seq(Nat), kernelIn' \in Seq(Nat), writeq' \in Seq(Nat),
             acked' \in 0 .. MaxInput, Len(kernelIn') <= KernelDepth, Len(writeq') <= WriteQueueDepth,
             Input'
      PROVE  IInv'
  <2>1. UNCHANGED <<child, holders, kernelOut, produced, reader, outq, pump, tail, shown>>
    BY <1>2 DEF childSide, outputSide
  <2>2. TypeOK'
    BY <1>1, <1>5, <2>1 DEF TypeOK
  <2>3. Shapes'
    BY <1>1, <1>5, <2>1 DEF Shapes
  <2> QED
    BY <1>3, <1>5, <2>2, <2>3 DEF IInv
<1>6. CASE ChildReads
  <2>1. /\ kernelIn # <<>> /\ received' = Append(received, Head(kernelIn))
        /\ kernelIn' = Tail(kernelIn) /\ UNCHANGED <<acked, writeq, writer>>
    BY <1>6 DEF ChildReads
  <2>2. /\ received' \in Seq(Nat) /\ kernelIn' \in Seq(Nat) /\ Len(kernelIn') = Len(kernelIn) - 1
        /\ received' \o kernelIn' = received \o kernelIn
    BY <1>4, <2>1, MoveHead, MoveToEnd, Zenon
  <2>3. Len(kernelIn') <= KernelDepth
    BY <1>4, <2>2
  <2>4. Input'
    BY <1>1, <2>1, <2>2 DEF Input
  <2> QED
    BY <1>4, <1>5, <2>1, <2>2, <2>3, <2>4, PtyConstants
<1>7. CASE WriteSession
  <2>1. /\ writer = "up" /\ acked < MaxInput /\ Len(writeq) < WriteQueueDepth
        /\ writeq' = Append(writeq, acked + 1) /\ acked' = acked + 1
        /\ UNCHANGED <<kernelIn, writer, received>>
    BY <1>7 DEF WriteSession
  <2>2. writeq' \in Seq(Nat) /\ Len(writeq') = Len(writeq) + 1
    BY <1>4, <2>1, AppendProperties
  <2>3. (received \o kernelIn) \o Append(writeq, acked + 1) = UpTo(acked + 1)
    BY <1>1, <1>4, <2>1, Produce DEF Input
  <2>4. Initial(received \o kernelIn, acked + 1)
    BY <1>1, <1>4, InitialIsPrefix DEF Input
  <2>5. Input'
    BY <2>1, <2>3, <2>4, Zenon DEF Input
  <2>6. acked' \in 0 .. MaxInput /\ Len(writeq') <= WriteQueueDepth
    BY <1>4, <2>1, <2>2
  <2> QED
    BY <1>4, <1>5, <2>1, <2>2, <2>5, <2>6
<1>8. CASE WriterWrites
  <2>1. writer = "up" /\ writeq # <<>> /\ UNCHANGED <<acked, received>>
    BY <1>8 DEF WriterWrites
  <2>2. CASE holders = {}
    <3>1. writer' = "done" /\ writeq' = <<>> /\ kernelIn' = kernelIn
      BY <1>8, <2>2 DEF WriterWrites
    <3>2. Input'
      BY <1>1, <2>1, <3>1 DEF Input
    <3>3. writeq' \in Seq(Nat) /\ Len(writeq') = 0
      BY <3>1
    <3> QED
      BY <1>4, <1>5, <2>1, <3>1, <3>2, <3>3
  <2>3. CASE holders # {}
    <3>1. /\ Len(kernelIn) < KernelDepth /\ writer' = writer
          /\ kernelIn' = Append(kernelIn, Head(writeq)) /\ writeq' = Tail(writeq)
      BY <1>8, <2>3 DEF WriterWrites
    <3>2. /\ kernelIn' \in Seq(Nat) /\ Len(kernelIn') = Len(kernelIn) + 1
          /\ writeq' \in Seq(Nat) /\ Len(writeq') = Len(writeq) - 1
          /\ kernelIn' \o writeq' = kernelIn \o writeq
      BY <1>4, <2>1, <3>1, MoveHead, MoveToEnd, Zenon
    <3>3. (received \o kernelIn') \o writeq' = (received \o kernelIn) \o writeq
      <4>1. received \in Seq(Nat) /\ kernelIn \in Seq(Nat) /\ writeq \in Seq(Nat)
        BY <1>4
      <4>2. kernelIn' \in Seq(Nat) /\ writeq' \in Seq(Nat) /\ kernelIn' \o writeq' = kernelIn \o writeq
        BY <3>2
      <4>3. (received \o kernelIn') \o writeq' = received \o (kernelIn' \o writeq')
        BY <4>1, <4>2, AllAssoc, Zenon
      <4>4. (received \o kernelIn) \o writeq = received \o (kernelIn \o writeq)
        BY <4>1, AllAssoc, Zenon
      <4> QED
        BY <4>2, <4>3, <4>4, Zenon
    <3>4. received \o kernelIn' \in Seq(Nat) /\ (received \o kernelIn') \o writeq' = UpTo(acked)
      BY <1>1, <1>4, <2>1, <3>2, <3>3, ConcatType DEF Input
    <3>5. Initial(received \o kernelIn', acked)
      BY <1>4, <3>2, <3>4, PrefixOfUpTo, Zenon
    <3>6. Input'
      BY <2>1, <3>4, <3>5 DEF Input
    <3>7. Len(kernelIn') <= KernelDepth /\ Len(writeq') <= WriteQueueDepth
      BY <1>4, <3>1, <3>2
    <3> QED
      BY <1>4, <1>5, <2>1, <3>2, <3>6, <3>7
  <2> QED
    BY <2>2, <2>3
<1>9. CASE WriterEnds
  <2>1. writer' = "done" /\ UNCHANGED <<kernelIn, acked, writeq, received>>
    BY <1>9 DEF WriterEnds
  <2>2. Input'
    BY <1>1, <2>1 DEF Input
  <2> QED
    BY <1>4, <1>5, <2>1, <2>2
<1> QED
  BY <1>6, <1>7, <1>8, <1>9

-----------------------------------------------------------------------------
(* The child, the session and the gate.                                     *)

\* by the child and its background processes,
LEMMA ChildStep ==
    ASSUME IInv, ChildWrites \/ ChildExits \/ BackgroundEnds
    PROVE  IInv'
<1>1. TypeOK /\ Shapes /\ Output /\ Input /\ Ends
  BY DEF IInv
<1>2. UNCHANGED <<inputSide, outputSide, others>>
  BY DEF ChildWrites, ChildExits, BackgroundEnds
<1>3. UNCHANGED <<reader, outq, pump, tail, shown, tailUp, exit, exited, acked, writeq, kernelIn, received>>
  BY <1>2 DEF outputSide, inputSide, others
<1>4. Input'
  BY <1>2, InputKept
<1>5. ToReader' = ToReader
  BY <1>3 DEF ToReader, ToQueue, ToPump, ToTail
<1>6. CASE ChildWrites
  <2>1. /\ holders # {} /\ produced < MaxOutput /\ Len(kernelOut) < KernelDepth
        /\ kernelOut' = Append(kernelOut, produced + 1) /\ produced' = produced + 1
        /\ UNCHANGED <<child, holders>>
    BY <1>6 DEF ChildWrites
  <2>2. /\ kernelOut \in Seq(Nat) /\ produced \in Nat /\ MaxOutput \in Nat /\ KernelDepth \in Nat
        /\ Len(kernelOut) \in Nat
    BY <1>1, PtyConstants, LenProperties DEF TypeOK, Shapes
  <2>3. kernelOut' \in Seq(Nat) /\ Len(kernelOut') = Len(kernelOut) + 1
    BY <2>1, <2>2, AppendProperties
  <2>4. produced' \in 0 .. MaxOutput /\ Len(kernelOut') <= KernelDepth
    BY <2>1, <2>2, <2>3
  <2>5. TypeOK'
    BY <1>1, <1>3, <2>1, <2>4 DEF TypeOK
  <2>6. Shapes'
    BY <1>1, <1>3, <2>3 DEF Shapes
  <2>7. tailUp => ToReader \o Append(kernelOut, produced + 1) = UpTo(produced + 1)
    BY <1>1, <2>2, StageTypes, Produce DEF Output, ToKernel
  <2>8. tailUp => ToKernel' = UpTo(produced')
    BY <1>5, <2>1, <2>7, Zenon DEF ToKernel
  <2>9. Initial(shown, produced + 1)
    BY <1>1, <2>2, InitialIsPrefix DEF Output, Shapes
  <2>10. Output'
    BY <1>3, <2>1, <2>8, <2>9 DEF Output
  <2>11. Ends'
    BY <1>1, <1>3, <2>1 DEF Ends
  <2> QED
    BY <1>4, <2>5, <2>6, <2>10, <2>11 DEF IInv
<1>7. CASE ChildExits \/ BackgroundEnds
  <2>1. UNCHANGED <<kernelOut, produced>>
    BY <1>7 DEF ChildExits, BackgroundEnds
  <2>2. ToKernel' = ToKernel
    BY <1>5, <2>1 DEF ToKernel
  <2>3. Output'
    BY <1>1, <1>3, <2>1, <2>2 DEF Output
  <2>4. Shapes'
    BY <1>1, <1>3, <2>1 DEF Shapes
  <2>5. TypeOK'
    <3>1. child' \in {"running", "exited"} /\ holders' \subseteq {"child", "background", "parent"}
      BY <1>1, <1>7 DEF ChildExits, BackgroundEnds, TypeOK
    <3> QED
      BY <1>1, <1>3, <2>1, <3>1 DEF TypeOK
  <2>6. Ends'
    <3>1. CASE ChildExits
      <4>1. child = "running" /\ child' = "exited" /\ "child" \in holders
        BY <1>1, <3>1 DEF ChildExits, Ends
      <4> QED
        BY <1>1, <1>3, <2>1, <4>1 DEF Ends
    <3>2. CASE BackgroundEnds
      <4>1. child' = child /\ holders' = holders \ {"background"}
        BY <3>2 DEF BackgroundEnds
      <4> QED
        BY <1>1, <1>3, <2>1, <4>1 DEF Ends
    <3> QED
      BY <1>7, <3>1, <3>2
  <2> QED
    BY <1>4, <2>3, <2>4, <2>5, <2>6 DEF IInv
<1> QED
  BY <1>6, <1>7

\* by the reaper, the gate and the commands,
LEMMA SessionStep ==
    ASSUME IInv, Reap \/ GateEnds \/ PauseSession \/ ResumeSession \/ CloseSession
    PROVE  IInv'
<1>1. TypeOK /\ Shapes /\ Output /\ Input /\ Ends
  BY DEF IInv
<1>2. UNCHANGED <<childSide, inputSide, reader, outq, pump, tail, shown>>
  BY DEF Reap, GateEnds, PauseSession, ResumeSession, CloseSession, outputSide
<1>3. UNCHANGED <<child, holders, kernelOut, produced, acked, writeq, kernelIn, received>>
  BY <1>2 DEF childSide, inputSide
<1>4. ToKernel' = ToKernel
  BY <1>2, <1>3 DEF ToKernel, ToReader, ToQueue, ToPump, ToTail
<1>5. (tailUp' => tailUp) /\ (exited' => exited) /\ (exit' => exit \/ child = "exited") /\ (exit => exit')
  BY DEF Reap, GateEnds, PauseSession, ResumeSession, CloseSession, outputSide, others
<1>6. TypeOK' /\ Shapes'
  BY <1>1, <1>2, <1>3 DEF TypeOK, Shapes
<1>7. Output'
  BY <1>1, <1>2, <1>3, <1>4, <1>5 DEF Output
<1>8. Ends'
  BY <1>1, <1>2, <1>3, <1>5 DEF Ends
<1>9. Input'
  BY <1>2, InputKept
<1> QED
  BY <1>6, <1>7, <1>8, <1>9 DEF IInv

-----------------------------------------------------------------------------
(* The output stream.                                                       *)

\* and by the reader thread.
LEMMA ReaderStep ==
    ASSUME IInv, ReaderThread
    PROVE  IInv'
<1>1. TypeOK /\ Shapes /\ Output /\ Input /\ Ends
  BY DEF IInv
<1>2. UNCHANGED <<child, holders, produced, inputSide, pump, tail, shown, tailUp, others>>
  BY DEF ReaderThread, ReaderReads, ReaderEof, ReaderSends, childSide
<1>3. UNCHANGED <<exit, exited, acked, writeq, kernelIn, received>> /\ Input'
  BY <1>2, InputKept DEF others, inputSide
<1>4. ToPump' = ToPump
  BY <1>2 DEF ToPump, ToTail
<1>5. /\ ToPump \in Seq(Nat) /\ ToQueue \in Seq(Nat) /\ reader.held \in Seq(Nat)
      /\ kernelOut \in Seq(Nat) /\ outq \in Seq(Nat) /\ Len(kernelOut) \in Nat /\ Len(outq) \in Nat
      /\ KernelDepth \in Nat /\ OutputQueueDepth \in Nat /\ <<>> \in Seq(Nat) /\ Len(reader.held) <= 1
      /\ Len(kernelOut) <= KernelDepth /\ Len(outq) <= OutputQueueDepth
  BY <1>1, StageTypes, LenProperties, PtyConstants DEF Shapes, TypeOK
<1>6. ASSUME NEW st \in {"read", "send", "done"}, NEW h \in Seq(Nat), reader' = Task(st, h),
             Len(h) <= 1, st # "send" => h = <<>>, kernelOut' \in Seq(Nat), outq' \in Seq(Nat),
             Len(kernelOut') <= KernelDepth, Len(outq') <= OutputQueueDepth,
             tailUp => ToKernel' = ToKernel, Ends'
      PROVE  IInv'
  <2>1. reader'.state = st /\ reader'.held = h
    BY <1>6, TaskLemma
  <2>2. TypeOK'
    BY <1>1, <1>2, <1>3, <1>6, <2>1 DEF TypeOK
  <2>3. reader' \in [state : {"read", "send", "done"}, held : Seq(Nat)]
    BY <1>6 DEF Task
  <2>4. Shapes'
    BY <1>1, <1>2, <1>3, <1>6, <2>1, <2>3 DEF Shapes
  <2>5. Output'
    BY <1>1, <1>2, <1>6 DEF Output
  <2> QED
    BY <1>3, <1>6, <2>2, <2>4, <2>5 DEF IInv
<1>7. CASE ReaderReads
  <2>1. /\ reader.state = "read" /\ kernelOut # <<>> /\ reader' = Task("send", <<Head(kernelOut)>>)
        /\ kernelOut' = Tail(kernelOut) /\ outq' = outq
    BY <1>7 DEF ReaderReads
  <2>2. reader.held = <<>> /\ reader'.state = "send" /\ reader'.held = <<Head(kernelOut)>>
    <3>1. reader.held = <<>>
      BY <1>1, <2>1 DEF Shapes
    <3>2. PICK h : h = <<Head(kernelOut)>>
      OBVIOUS
    <3>3. reader' = Task("send", h)
      BY <2>1, <3>2, Zenon
    <3>4. reader'.state = "send" /\ reader'.held = h
      BY <3>3, TaskLemma, Zenon
    <3> QED
      BY <3>1, <3>2, <3>4, Zenon
  <2>3. /\ <<Head(kernelOut)>> \in Seq(Nat) /\ Len(<<Head(kernelOut)>>) = 1
        /\ kernelOut' \in Seq(Nat) /\ Len(kernelOut') = Len(kernelOut) - 1
        /\ <<Head(kernelOut)>> \o kernelOut' = kernelOut
    BY <1>5, <2>1, MoveHead, Zenon
  <2>4. ToKernel' = ToKernel
    <3>1. ToKernel' = (ToQueue \o <<Head(kernelOut)>>) \o kernelOut'
      BY <1>4, <2>1, <2>2, Zenon DEF ToKernel, ToReader, ToQueue
    <3>2. (ToQueue \o <<Head(kernelOut)>>) \o kernelOut' = ToQueue \o kernelOut
      <4>1. ToQueue \in Seq(Nat)
        BY <1>5
      <4>2. <<Head(kernelOut)>> \in Seq(Nat) /\ kernelOut' \in Seq(Nat)
        BY <2>3
      <4>3. (ToQueue \o <<Head(kernelOut)>>) \o kernelOut' = ToQueue \o (<<Head(kernelOut)>> \o kernelOut')
        BY <4>1, <4>2, AllAssoc, Zenon
      <4> QED
        BY <2>3, <4>3, Zenon
    <3>3. ToKernel = ToQueue \o kernelOut
      BY <1>5, <2>2, EmptyConcat DEF ToKernel, ToReader
    <3> QED
      BY <3>1, <3>2, <3>3, Zenon
  <2>5. Ends'
    BY <1>1, <1>2, <1>3, <2>1, <2>2 DEF Ends
  <2>6. Len(kernelOut') <= KernelDepth /\ Len(<<Head(kernelOut)>>) <= 1
    BY <1>5, <2>3
  <2>7. outq' \in Seq(Nat) /\ Len(outq') <= OutputQueueDepth /\ "send" \in {"read", "send", "done"}
    BY <1>5, <2>1
  <2> QED
    BY <1>6, <2>1, <2>3, <2>4, <2>5, <2>6, <2>7, Zenon
<1>8. CASE ReaderEof
  <2>1. /\ reader.state = "read" /\ kernelOut = <<>> /\ holders = {} /\ reader' = Task("done", <<>>)
        /\ UNCHANGED <<kernelOut, outq>>
    BY <1>8 DEF ReaderEof, childSide
  <2>2. reader.held = <<>> /\ reader'.state = "done" /\ reader'.held = <<>>
    BY <1>1, <2>1, TaskLemma DEF Shapes
  <2>3. ToKernel' = ToKernel
    BY <1>4, <2>1, <2>2 DEF ToKernel, ToReader, ToQueue
  <2>4. Ends'
    BY <1>1, <1>2, <1>3, <2>1, <2>2 DEF Ends
  <2>5. Len(<<>>) <= 1
    OBVIOUS
  <2> QED
    BY <1>5, <1>6, <2>1, <2>3, <2>4, <2>5
<1>9. CASE ReaderSends
  <2>1. reader.state = "send" /\ kernelOut' = kernelOut
    BY <1>9 DEF ReaderSends, childSide
  <2>5. Len(<<>>) <= 1
    OBVIOUS
  <2>2. CASE pump.state = "done"
    <3>1. reader' = Task("done", <<>>) /\ outq' = outq
      BY <1>9, <2>2 DEF ReaderSends
    <3>2. ~tailUp
      BY <1>1, <2>1, <2>2 DEF Ends
    <3>3. Ends'
      BY <1>1, <1>2, <1>3, <3>2 DEF Ends
    <3> QED
      BY <1>5, <1>6, <2>1, <2>5, <3>1, <3>2, <3>3
  <2>3. CASE pump.state # "done"
    <3>1. Len(outq) < OutputQueueDepth /\ reader' = Task("read", <<>>) /\ outq' = outq \o reader.held
      BY <1>9, <2>3 DEF ReaderSends
    <3>2. reader'.state = "read" /\ reader'.held = <<>>
      BY <3>1, TaskLemma
    <3>3. outq' \in Seq(Nat) /\ Len(outq') = Len(outq) + Len(reader.held)
      BY <1>5, <3>1, ConcatProperties
    <3>4. Len(outq') <= OutputQueueDepth
      BY <1>5, <3>1, <3>3, LenProperties
    <3>5. ToKernel' = ToKernel
      <4>1. ToKernel' = ((ToPump \o outq') \o <<>>) \o kernelOut
        BY <1>4, <2>1, <3>2 DEF ToKernel, ToReader, ToQueue
      <4>2. ToPump \o outq' \in Seq(Nat)
        BY <1>5, <3>3, ConcatType
      <4>3. (ToPump \o outq') \o <<>> = ToPump \o outq'
        BY <4>2, EmptyConcat
      <4>4. ToPump \o (outq \o reader.held) = (ToPump \o outq) \o reader.held
        <5>1. ToPump \in Seq(Nat) /\ outq \in Seq(Nat) /\ reader.held \in Seq(Nat)
          BY <1>5
        <5>2. (ToPump \o outq) \o reader.held = ToPump \o (outq \o reader.held)
          BY <5>1, AllAssoc
        <5> QED
          BY <5>2
      <4> QED
        BY <3>1, <4>1, <4>3, <4>4, Zenon DEF ToKernel, ToReader, ToQueue
    <3>6. Ends'
      BY <1>1, <1>2, <1>3, <2>1, <2>3, <3>2 DEF Ends
    <3> QED
      BY <1>5, <1>6, <2>1, <2>5, <3>1, <3>3, <3>4, <3>5, <3>6
  <2> QED
    BY <2>2, <2>3
<1> QED
  BY <1>7, <1>8, <1>9 DEF ReaderThread

\* The pump takes a chunk from the reader's queue and hands it to the data path.
LEMMA PumpStep ==
    ASSUME IInv, PumpTask
    PROVE  IInv'
<1>1. TypeOK /\ Shapes /\ Output /\ Input /\ Ends
  BY DEF IInv
<1>2. UNCHANGED <<childSide, inputSide, reader, shown, tailUp, paused, pauses, session, exit>>
  BY DEF PumpTask, PumpReceives, PumpSends, PumpEnds, others
<1>3. UNCHANGED <<child, holders, kernelOut, produced, acked, writeq, kernelIn, received>> /\ Input'
  BY <1>2, InputKept DEF childSide, inputSide
<1>4. /\ shown \in Seq(Nat) /\ ToTail \in Seq(Nat) /\ pump.held \in Seq(Nat) /\ tail \in Seq(Nat)
      /\ outq \in Seq(Nat) /\ <<>> \in Seq(Nat)
  BY <1>1, StageTypes DEF Shapes
<1>5. /\ Len(tail) \in Nat /\ Len(outq) \in Nat /\ TailDepth \in Nat /\ OutputQueueDepth \in Nat
      /\ Len(tail) <= TailDepth /\ Len(outq) <= OutputQueueDepth /\ Len(pump.held) <= 1
      /\ Len(pump.held) \in Nat /\ Len(<<>>) <= 1
  BY <1>1, <1>4, LenProperties, PtyConstants DEF TypeOK
<1>6. ASSUME NEW st \in {"recv", "send", "exit", "done"}, NEW h \in Seq(Nat), pump' = Task(st, h),
             Len(h) <= 1, st # "send" => h = <<>>, tail' \in Seq(Nat), outq' \in Seq(Nat),
             Len(tail') <= TailDepth, Len(outq') <= OutputQueueDepth,
             tailUp => ToQueue' = ToQueue, Ends'
      PROVE  IInv'
  <2>1. pump'.state = st /\ pump'.held = h
    BY <1>6, TaskLemma
  <2>2. TypeOK'
    BY <1>1, <1>2, <1>3, <1>6, <2>1 DEF TypeOK
  <2>3. pump' \in [state : {"recv", "send", "exit", "done"}, held : Seq(Nat)]
    BY <1>6 DEF Task
  <2>4. Shapes'
    BY <1>1, <1>2, <1>3, <1>6, <2>1, <2>3 DEF Shapes
  <2>5. tailUp => ToKernel' = ToKernel
    BY <1>2, <1>3, <1>6 DEF ToKernel, ToReader
  <2>6. Output'
    BY <1>1, <1>2, <1>3, <2>5 DEF Output
  <2> QED
    BY <1>3, <1>6, <2>2, <2>4, <2>6 DEF IInv
<1>7. "recv" \in {"recv", "send", "exit", "done"} /\ "send" \in {"recv", "send", "exit", "done"}
      /\ "exit" \in {"recv", "send", "exit", "done"} /\ "done" \in {"recv", "send", "exit", "done"}
  OBVIOUS
<1>8. CASE PumpReceives
  <2>1. pump.state = "recv" /\ pump.held = <<>> /\ ~exited /\ exited' = exited /\ tail' = tail
    BY <1>1, <1>8 DEF PumpReceives, Shapes, Ends, others
  <2>2. CASE outq # <<>> /\ pump' = Task("send", <<Head(outq)>>) /\ outq' = Tail(outq)
    <3>1. /\ <<Head(outq)>> \in Seq(Nat) /\ Len(<<Head(outq)>>) = 1
          /\ outq' \in Seq(Nat) /\ Len(outq') = Len(outq) - 1
          /\ <<Head(outq)>> \o outq' = outq
      BY <1>4, <2>2, MoveHead, Zenon
    <3>2. pump'.state = "send" /\ pump'.held = <<Head(outq)>>
      BY <2>2, TaskLemma
    <3>3. ToQueue' = ToQueue
      <4>1. ToTail' = ToTail
        BY <1>2, <2>1 DEF ToTail
      <4>2. ToQueue' = (ToTail \o <<Head(outq)>>) \o outq'
        BY <3>2, <4>1, Zenon DEF ToQueue, ToPump
      <4>3. ToTail \in Seq(Nat) /\ <<Head(outq)>> \in Seq(Nat) /\ outq' \in Seq(Nat)
        BY <1>4, <3>1, Zenon
      <4>4. (ToTail \o <<Head(outq)>>) \o outq' = ToTail \o (<<Head(outq)>> \o outq')
        BY <4>3, AllAssoc, Zenon
      <4>5. ToQueue = ToTail \o outq
        BY <1>4, <2>1, EmptyConcat DEF ToQueue, ToPump
      <4> QED
        BY <3>1, <4>2, <4>4, <4>5, Zenon
    <3>4. Ends'
      BY <1>1, <1>2, <1>3, <2>1, <3>2 DEF Ends
    <3>5. Len(outq') <= OutputQueueDepth /\ Len(<<Head(outq)>>) <= 1
      BY <1>5, <3>1
    <3>6. tail' \in Seq(Nat) /\ Len(tail') <= TailDepth
      BY <1>4, <1>5, <2>1
    <3> QED
      BY <1>6, <1>7, <2>2, <3>1, <3>3, <3>4, <3>5, <3>6, Zenon
  <2>3. CASE outq = <<>> /\ reader.state = "done" /\ pump' = Task("exit", <<>>) /\ UNCHANGED outq
    <3>1. pump'.state = "exit" /\ pump'.held = <<>>
      BY <2>3, TaskLemma
    <3>2. ToQueue' = ToQueue
      BY <1>2, <2>1, <2>3, <3>1 DEF ToQueue, ToPump, ToTail
    <3>3. Ends'
      BY <1>1, <1>2, <1>3, <2>1, <2>3, <3>1 DEF Ends
    <3>4. outq' \in Seq(Nat) /\ Len(outq') <= OutputQueueDepth /\ tail' \in Seq(Nat) /\ Len(tail') <= TailDepth
      BY <1>4, <1>5, <2>1, <2>3
    <3> QED
      BY <1>4, <1>5, <1>6, <1>7, <2>3, <3>2, <3>3, <3>4, Zenon
  <2> QED
    BY <1>8, <2>2, <2>3 DEF PumpReceives
<1>9. CASE PumpSends
  <2>1. pump.state = "send" /\ ~exited /\ exited' = exited /\ outq' = outq
    BY <1>1, <1>9 DEF PumpSends, Ends, others
  <2>2. outq' \in Seq(Nat) /\ Len(outq') <= OutputQueueDepth
    BY <1>4, <1>5, <2>1
  <2>3. CASE tailUp
    <3>1. Len(tail) < TailDepth /\ pump' = Task("recv", <<>>) /\ tail' = tail \o pump.held
      BY <1>9, <2>3 DEF PumpSends
    <3>2. pump'.state = "recv" /\ pump'.held = <<>>
      BY <3>1, TaskLemma
    <3>3. tail' \in Seq(Nat) /\ Len(tail') = Len(tail) + Len(pump.held)
      BY <1>4, <3>1, ConcatProperties
    <3>4. Len(tail') <= TailDepth
      BY <1>5, <3>1, <3>3
    <3>5. ToQueue' = ToQueue
      <4>1. shown \in Seq(Nat) /\ tail \in Seq(Nat) /\ pump.held \in Seq(Nat)
        BY <1>4
      <4>2. shown \o (tail \o pump.held) = ToPump
        BY <4>1, AllAssoc, Zenon DEF ToPump, ToTail
      <4>3. shown \o tail' \in Seq(Nat)
        BY <1>4, <3>3, ConcatType
      <4>4. (shown \o tail') \o <<>> = shown \o tail'
        BY <4>3, EmptyConcat
      <4>5. ToPump' = (shown \o tail') \o <<>>
        BY <1>2, <3>2, Zenon DEF ToPump, ToTail
      <4>6. ToPump' = ToPump
        BY <3>1, <4>2, <4>4, <4>5, Zenon
      <4> QED
        BY <2>1, <4>6 DEF ToQueue
    <3>6. Ends'
      BY <1>1, <1>2, <1>3, <2>1, <3>2 DEF Ends
    <3> QED
      BY <1>4, <1>5, <1>6, <1>7, <2>2, <3>1, <3>3, <3>4, <3>5, <3>6, Zenon
  <2>4. CASE ~tailUp
    <3>1. pump' = Task("exit", <<>>) /\ tail' = tail
      BY <1>9, <2>4 DEF PumpSends
    <3>2. tail' \in Seq(Nat) /\ Len(tail') <= TailDepth
      BY <1>4, <1>5, <3>1
    <3>3. Ends'
      BY <1>1, <1>2, <1>3, <2>1, <2>4 DEF Ends
    <3> QED
      BY <1>4, <1>5, <1>6, <1>7, <2>2, <2>4, <3>1, <3>2, <3>3, Zenon
  <2> QED
    BY <2>3, <2>4
<1>10. CASE PumpEnds
  <2>1. pump.state = "exit" /\ exit /\ pump' = Task("done", <<>>) /\ UNCHANGED <<outq, tail>>
    BY <1>10 DEF PumpEnds
  <2>2. pump.held = <<>> /\ pump'.state = "done" /\ pump'.held = <<>>
    BY <1>1, <2>1, TaskLemma DEF Shapes
  <2>3. ToQueue' = ToQueue
    BY <1>2, <2>1, <2>2 DEF ToQueue, ToPump, ToTail
  <2>4. Ends'
    BY <1>1, <1>2, <1>3, <2>1, <2>2 DEF Ends
  <2>5. outq' \in Seq(Nat) /\ Len(outq') <= OutputQueueDepth /\ tail' \in Seq(Nat) /\ Len(tail') <= TailDepth
    BY <1>4, <1>5, <2>1
  <2> QED
    BY <1>4, <1>5, <1>6, <1>7, <2>1, <2>3, <2>4, <2>5, Zenon
<1> QED
  BY <1>8, <1>9, <1>10 DEF PumpTask

\* The gate hands the oldest chunk of the data path to the webview.
LEMMA DeliverStep ==
    ASSUME IInv, Deliver
    PROVE  IInv'
<1>1. TypeOK /\ Shapes /\ Output /\ Input /\ Ends
  BY DEF IInv
<1>2. /\ tailUp /\ tail # <<>> /\ shown' = Append(shown, Head(tail)) /\ tail' = Tail(tail)
      /\ UNCHANGED <<childSide, inputSide, reader, outq, pump, tailUp, others>>
  BY DEF Deliver
<1>3. /\ UNCHANGED <<child, holders, kernelOut, produced, acked, writeq, kernelIn, received, exit, exited>>
      /\ Input'
  BY <1>2, InputKept DEF childSide, inputSide, others
<1>4. /\ shown \in Seq(Nat) /\ tail \in Seq(Nat) /\ Len(tail) \in Nat /\ Len(tail) <= TailDepth
      /\ TailDepth \in Nat /\ produced \in Nat
  BY <1>1, LenProperties, PtyConstants DEF Shapes, TypeOK
<1>5. /\ shown' \in Seq(Nat) /\ tail' \in Seq(Nat) /\ Len(tail') = Len(tail) - 1
      /\ shown' \o tail' = shown \o tail
  BY <1>2, <1>4, MoveHead, MoveToEnd, Zenon
<1>6. ToKernel' = ToKernel
  BY <1>2, <1>3, <1>5 DEF ToKernel, ToReader, ToQueue, ToPump, ToTail
<1>7. Initial(shown', produced)
  <2>1. ToReader \o kernelOut = UpTo(produced)
    BY <1>1, <1>2 DEF Output, ToKernel
  <2>2. /\ ToTail \in Seq(Nat) /\ ToPump \in Seq(Nat) /\ ToQueue \in Seq(Nat) /\ ToReader \in Seq(Nat)
        /\ kernelOut \in Seq(Nat) /\ outq \in Seq(Nat) /\ reader.held \in Seq(Nat) /\ pump.held \in Seq(Nat)
    BY <1>1, StageTypes DEF Shapes
  <2>3. Initial(ToReader, produced)
    BY <1>4, <2>1, <2>2, PrefixOfUpTo, Zenon
  <2>4. Initial(ToQueue, produced)
    BY <1>4, <2>2, <2>3, InitialLeft, Zenon DEF ToReader
  <2>5. Initial(ToPump, produced)
    BY <1>4, <2>2, <2>4, InitialLeft, Zenon DEF ToQueue
  <2>6. Initial(ToTail, produced)
    BY <1>4, <2>2, <2>5, InitialLeft, Zenon DEF ToPump
  <2>7. Initial(shown' \o tail', produced)
    BY <1>5, <2>6, Zenon DEF ToTail
  <2> QED
    BY <1>4, <1>5, <2>7, InitialLeft, Zenon
<1>8. Output'
  BY <1>1, <1>2, <1>3, <1>6, <1>7 DEF Output
<1>9. Len(tail') <= TailDepth
  BY <1>4, <1>5
<1>10. TypeOK'
  BY <1>1, <1>2, <1>3, <1>9 DEF TypeOK
<1>11. Shapes'
  BY <1>1, <1>2, <1>3, <1>5 DEF Shapes
<1>12. Ends'
  BY <1>1, <1>2, <1>3 DEF Ends
<1> QED
  BY <1>3, <1>8, <1>10, <1>11, <1>12 DEF IInv

-----------------------------------------------------------------------------
(* The theorems.                                                            *)

\* A fresh tab: nothing written, nothing read, the child alone at the terminal.
LEMMA InitIInv == Init => IInv
<1> SUFFICES ASSUME Init PROVE IInv
  OBVIOUS
<1>1. /\ child = "running" /\ holders = {"child"} /\ kernelOut = <<>> /\ kernelIn = <<>> /\ produced = 0
      /\ outq = <<>> /\ tail = <<>> /\ shown = <<>> /\ tailUp = TRUE /\ exit = FALSE /\ exited = FALSE
      /\ acked = 0 /\ writeq = <<>> /\ received = <<>>
  BY DEF Init, Spawned
<1>2. /\ reader = Task("read", <<>>) /\ reader.state = "read" /\ reader.held = <<>>
      /\ pump = Task("recv", <<>>) /\ pump.state = "recv" /\ pump.held = <<>>
  BY TaskLemma DEF Init
<1>3. <<>> \in Seq(Nat) /\ Len(<<>>) = 0 /\ UpTo(0) = <<>> /\ Initial(<<>>, 0) /\ <<>> \o <<>> = <<>>
  BY EmptyConcat DEF UpTo, Initial
<1>4. TypeOK
  BY <1>1, <1>2, <1>3, PtyConstants DEF TypeOK
<1>5. Shapes
  BY <1>1, <1>2, <1>3 DEF Shapes, Task
<1>6. Output
  BY <1>1, <1>2, <1>3 DEF Output, ToKernel, ToReader, ToQueue, ToPump, ToTail
<1>7. Input
  BY <1>1, <1>3 DEF Input
<1>8. Ends
  BY <1>1, <1>2 DEF Ends
<1> QED
  BY <1>4, <1>5, <1>6, <1>7, <1>8 DEF IInv

\* Every step of every thread, task and command keeps the invariant.
LEMMA StepIInv == IInv /\ [Next]_vars => IInv'
<1> SUFFICES ASSUME IInv, [Next]_vars PROVE IInv'
  OBVIOUS
<1>1. CASE UNCHANGED vars
  <2>1. UNCHANGED <<child, holders, kernelOut, kernelIn, produced, reader, outq, pump, tail, shown, tailUp,
                    exit, exited, acked, writeq, writer, received>>
    BY <1>1 DEF vars
  <2>2. TypeOK' /\ Shapes'
    BY <2>1 DEF IInv, TypeOK, Shapes
  <2>3. ToKernel' = ToKernel
    BY <2>1 DEF ToKernel, ToReader, ToQueue, ToPump, ToTail
  <2>4. Output'
    BY <2>1, <2>3 DEF IInv, Output
  <2>5. Input'
    BY <2>1 DEF IInv, Input
  <2>6. Ends'
    BY <2>1 DEF IInv, Ends
  <2> QED
    BY <2>2, <2>4, <2>5, <2>6 DEF IInv
<1>2. CASE Next
  BY <1>2, InputStep, ChildStep, SessionStep, ReaderStep, PumpStep, DeliverStep DEF Next
<1> QED
  BY <1>1, <1>2

\* The inductive invariant holds in every behaviour of a local shell tab.
THEOREM Inductive == Spec => []IInv
BY InitIInv, StepIInv, PTL DEF Spec

\* No chunk of output or input is lost, doubled or overtaken between the child
\* and the webview, and every stage keeps to its depth, so that a consumer that
\* pauses stalls the child (reader and writer threads, pump, bounded queues).
THEOREM StreamsAreIntact == Spec => []StreamsIntact
<1>1. IInv => StreamsIntact
  <2> SUFFICES ASSUME IInv PROVE StreamsIntact
    OBVIOUS
  <2>1. TypeOK /\ Shapes /\ Output /\ Input
    BY DEF IInv
  <2>2. tailUp => shown \o tail \o pump.held \o outq \o reader.held \o kernelOut = UpTo(produced)
    BY <2>1 DEF Output, ToKernel, ToReader, ToQueue, ToPump, ToTail
  <2>3. /\ shown \in Seq(Nat) /\ received \in Seq(Nat) /\ kernelIn \in Seq(Nat)
        /\ produced \in Nat /\ acked \in Nat
    BY <2>1, PtyConstants DEF Shapes, TypeOK
  <2>4. IsPrefix(shown, UpTo(produced))
    BY <2>1, <2>3, InitialIsPrefix DEF Output
  <2>5. Initial(received, acked)
    BY <2>1, <2>3, InitialLeft DEF Input
  <2>6. IsPrefix(received, UpTo(acked))
    BY <2>3, <2>5, InitialIsPrefix
  <2> QED
    BY <2>1, <2>2, <2>4, <2>6 DEF StreamsIntact, Input
<1> QED
  BY <1>1, Inductive, PTL

\* SessionEvent::Exited follows the child's exit and, while the gate is up, the
\* last chunk of its output: the pump waits for the end of the output first.
THEOREM ExitComesLast == Spec => []ExitIsLast
<1>1. IInv => ExitIsLast
  <2> SUFFICES ASSUME IInv, exited PROVE child = "exited" /\ (tailUp => shown \o tail = UpTo(produced))
    BY DEF ExitIsLast
  <2>1. Shapes /\ Output /\ Ends
    BY DEF IInv
  <2>2. child = "exited" /\ pump.state = "done" /\ pump.held = <<>>
    BY <2>1 DEF Ends, Shapes
  <2>3. ASSUME tailUp PROVE shown \o tail = UpTo(produced)
    <3>1. outq = <<>> /\ reader.held = <<>> /\ kernelOut = <<>>
      BY <2>1, <2>2, <2>3 DEF Ends, Shapes
    <3>2. ToPump = ToTail
      BY <2>1, <2>2, StageTypes, EmptyConcat DEF ToPump
    <3>3. ToQueue = ToPump
      BY <2>1, <3>1, StageTypes, EmptyConcat DEF ToQueue
    <3>4. ToReader = ToQueue
      BY <2>1, <3>1, StageTypes, EmptyConcat DEF ToReader
    <3>5. ToKernel = ToReader
      BY <2>1, <3>1, StageTypes, EmptyConcat DEF ToKernel
    <3> QED
      BY <2>1, <2>3, <3>2, <3>3, <3>4, <3>5 DEF Output, ToTail
  <2> QED
    BY <2>2, <2>3
<1> QED
  BY <1>1, Inductive, PTL

=============================================================================
