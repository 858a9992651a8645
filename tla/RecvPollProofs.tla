--------------------------- MODULE RecvPollProofs ---------------------------
(***************************************************************************)
(* The recvfrom() loop implements the lossy FIFO, never blocks in          *)
(* recvfrom(), processes the frames in order, prints a total that accounts *)
(* for every accepted frame, and is a CaptureLoop, for every size of the   *)
(* receive buffer.                                                         *)
(***************************************************************************)
EXTENDS RecvPoll, TLAPS

\* Every accepted frame was taken out or is queued; recvfrom() is called
\* only for a frame that poll() reported; nothing is accepted after close().
RecvInv ==
    /\ enq = Len(Taken) + Len(rcvQueue)
    /\ Len(rcvQueue) <= RcvBuf
    /\ RecvNeverBlocks
    /\ packets_processed = Len(handled)
    /\ report = <<>> \/ (pc = "done" /\ hook = "closed")
    /\ report # <<>> => report = <<Len(handled)>>

LEMMA TypeStep ==
    ASSUME TypeOK, [Next]_vars
    PROVE  TypeOK'
<1> USE DEF TypeOK, kernelVars, threadVars
<1>1. CASE KernelQueue
  <2>1. rcvQueue' \in Seq(Nat) /\ enq' \in Nat
    BY <1>1 DEF KernelQueue
  <2> QED
    BY <1>1, <2>1 DEF KernelQueue
<1>2. CASE KernelDrop
  BY <1>2 DEF KernelDrop
<1>3. CASE LinkDown \/ LinkUp
  BY <1>3 DEF LinkDown, LinkUp
<1>4. CASE TestRunning \/ PollReturnsReady \/ PollTimesOut
  BY <1>4 DEF TestRunning, PollReturnsReady, PollTimesOut
<1>5. CASE Receive
  BY <1>5 DEF Receive
<1>6. CASE ReceiveFails
  BY <1>6 DEF ReceiveFails
<1>7. CASE Process
  BY <1>7 DEF Process
<1>8. CASE Exit
  <2>1. report' \in Seq(Nat)
    BY <1>8 DEF Exit
  <2> QED
    BY <1>8, <2>1 DEF Exit
<1>9. CASE Signal
  BY <1>9 DEF Signal
<1>10. CASE UNCHANGED vars
  BY <1>10 DEF vars
<1> QED
  BY <1>1, <1>2, <1>3, <1>4, <1>5, <1>6, <1>7, <1>8, <1>9, <1>10 DEF Next, Thread

LEMMA RecvInvStep ==
    ASSUME TypeOK, RecvInv, [Next]_vars
    PROVE  RecvInv'
<1> USE RecvAssumption DEF TypeOK
<1>1. CASE KernelQueue
  <2>1. Len(rcvQueue') = Len(rcvQueue) + 1 /\ rcvQueue' # <<>>
    BY <1>1 DEF KernelQueue
  <2>2. Taken' = Taken
    BY <1>1 DEF KernelQueue, threadVars, Taken
  <2>3. Len(rcvQueue) \in Nat /\ Len(Taken) \in Nat
    BY DEF Taken
  <2>4. enq' = Len(Taken') + Len(rcvQueue') /\ Len(rcvQueue') <= RcvBuf
    BY <1>1, <2>1, <2>2, <2>3 DEF KernelQueue, RecvInv
  <2> QED
    BY <1>1, <2>1, <2>4 DEF KernelQueue, threadVars, RecvInv, RecvNeverBlocks
<1>2. CASE KernelDrop \/ LinkDown \/ LinkUp
  BY <1>2 DEF KernelDrop, LinkDown, LinkUp, threadVars, RecvInv, Taken, RecvNeverBlocks
<1>3. CASE TestRunning \/ PollReturnsReady \/ PollTimesOut
  BY <1>3 DEF TestRunning, PollReturnsReady, PollTimesOut, PollEvents, kernelVars,
              RecvInv, Taken, RecvNeverBlocks
<1>4. CASE Receive
  <2>1. /\ Len(rcvQueue') = Len(rcvQueue) - 1
        /\ Len(rcvQueue') \in Nat
    BY <1>4 DEF Receive
  <2>2. Len(Taken') = Len(handled) + 1 /\ Taken = handled
    BY <1>4 DEF Receive, Taken
  <2> QED
    BY <1>4, <2>1, <2>2 DEF Receive, RecvInv, RecvNeverBlocks
<1>5. CASE ReceiveFails
  BY <1>5 DEF ReceiveFails, RecvInv, Taken, RecvNeverBlocks
<1>6. CASE Process
  <2>1. Taken' = Taken /\ Len(handled') = Len(handled) + 1
    BY <1>6 DEF Process, Taken
  <2> QED
    BY <1>6, <2>1 DEF Process, kernelVars, RecvInv, RecvNeverBlocks
<1>7. CASE Exit
  BY <1>7 DEF Exit, RecvInv, Taken, RecvNeverBlocks
<1>8. CASE Signal
  BY <1>8 DEF Signal, kernelVars, RecvInv, Taken, RecvNeverBlocks
<1>9. CASE UNCHANGED vars
  BY <1>9 DEF vars, RecvInv, Taken, RecvNeverBlocks
<1> QED
  BY <1>1, <1>2, <1>3, <1>4, <1>5, <1>6, <1>7, <1>8, <1>9 DEF Next, Thread

\* The socket's counts hold for every size of its buffer, whatever fails
\* (source-af-packet.c:706-732).
THEOREM RecvInvariant == Spec => [](TypeOK /\ RecvInv)
<1>1. Init => TypeOK /\ RecvInv
  <2> SUFFICES ASSUME Init
               PROVE  TypeOK /\ RecvInv
    OBVIOUS
  <2>1. TypeOK
    <3>1. <<>> \in Seq(Nat) /\ 0 \in Nat
      OBVIOUS
    <3> QED
      BY <3>1, Zenon DEF Init, TypeOK
  <2>2. RecvInv
    BY RecvAssumption DEF Init, RecvInv, Taken, RecvNeverBlocks
  <2> QED
    BY <2>1, <2>2
<1>2. TypeOK /\ RecvInv /\ [Next]_vars => (TypeOK /\ RecvInv)'
  BY TypeStep, RecvInvStep
<1> QED
  BY <1>1, <1>2, PTL DEF Spec

\* recvfrom() is never called on an empty queue, so no signal waits for the
\* next frame (source-af-packet.c:708-717).
THEOREM RecvNeverWaits == Spec => []RecvNeverBlocks
<1>1. RecvInv => RecvNeverBlocks
  BY DEF RecvInv
<1> QED
  BY <1>1, RecvInvariant, PTL

\* The printed total and the frames still queued add up to the frames
\* accepted (source-af-packet.c:706, 724-730).
THEOREM RecvReportAccounts == Spec => []ReportAccounts
<1>1. TypeOK /\ RecvInv => ReportAccounts
  BY DEF TypeOK, RecvInv, Taken, ReportAccounts
<1> QED
  BY <1>1, RecvInvariant, PTL

LEMMA RecvQueueStep ==
    ASSUME TypeOK, RecvInv, [Next]_vars
    PROVE  [Queue!Next]_(Queue!vars)
<1> USE DEF TypeOK
<1>1. CASE KernelQueue
  <2>1. rcvQueue' = Append(rcvQueue, Len(Taken) + Len(rcvQueue) + 1)
    BY <1>1 DEF KernelQueue, RecvInv
  <2>2. Queue!Accept
    BY <1>1, <2>1 DEF KernelQueue, threadVars, Taken, Queue!Accept, Queue!Taken
  <2> QED
    BY <2>2 DEF Queue!Next
<1>2. CASE KernelDrop
  <2>1. Queue!Lose
    BY <1>2 DEF KernelDrop, threadVars, Taken, Queue!Lose, Queue!Taken
  <2> QED
    BY <2>1 DEF Queue!Next
<1>3. CASE Receive
  <2>1. Taken' = Append(Taken, Head(rcvQueue))
    BY <1>3 DEF Receive, Taken
  <2>2. Queue!Handle(FALSE)
    BY <1>3, <2>1 DEF Receive, Queue!Handle
  <2> QED
    BY <2>2 DEF Queue!Next
<1>4. CASE Process
  BY <1>4 DEF Process, kernelVars, Taken, Queue!vars
<1>5. CASE LinkDown \/ LinkUp
  BY <1>5 DEF LinkDown, LinkUp, threadVars, Taken, Queue!vars
<1>6. CASE TestRunning \/ PollReturnsReady \/ PollTimesOut \/ Signal
  BY <1>6 DEF TestRunning, PollReturnsReady, PollTimesOut, Signal, kernelVars,
              Taken, Queue!vars
<1>7. CASE ReceiveFails \/ Exit
  BY <1>7 DEF ReceiveFails, Exit, Taken, Queue!vars
<1>8. CASE UNCHANGED vars
  BY <1>8 DEF vars, Taken, Queue!vars
<1> QED
  BY <1>1, <1>2, <1>3, <1>4, <1>5, <1>6, <1>7, <1>8 DEF Next, Thread

\* The loop is a FIFO of RcvBuf places that loses frames only when it is
\* full, each place given back when recvfrom() has copied the frame
\* (source-af-packet.c:706-728).
THEOREM RecvImplementsQueue == Spec => ImplementsQueue
<1>1. Init => Queue!Init
  BY DEF Init, Taken, Queue!Init
<1>2. TypeOK /\ RecvInv /\ [Next]_vars => [Queue!Next]_(Queue!vars)
  BY RecvQueueStep
<1> QED
  BY <1>1, <1>2, RecvInvariant, PTL DEF Spec, ImplementsQueue, Queue!Spec
-----------------------------------------------------------------------------
(* The order of the frames.                                                *)

\* The frames of a sequence follow the n-th in the order of acceptance.
Numbered(frames, n) == \A k \in DOMAIN frames : frames[k] = n + k

\* Those taken out and those queued are one sequence.
OrderInv == Numbered(Taken, 0) /\ Numbered(rcvQueue, Len(Taken))

LEMMA AppendNumbered ==
    ASSUME NEW frames \in Seq(Nat), NEW n \in Nat, Numbered(frames, n)
    PROVE  Numbered(Append(frames, n + Len(frames) + 1), n)
<1> DEFINE longer == Append(frames, n + Len(frames) + 1)
<1>1. Len(frames) \in Nat /\ DOMAIN longer = 1 .. Len(frames) + 1
  OBVIOUS
<1>2. ASSUME NEW k \in DOMAIN longer
      PROVE  longer[k] = n + k
  <2>1. CASE k = Len(frames) + 1
    <3>1. longer[k] = n + Len(frames) + 1
      BY <2>1
    <3> HIDE DEF longer
    <3> QED
      BY <1>1, <2>1, <3>1
  <2>2. CASE k # Len(frames) + 1
    <3>1. k \in DOMAIN frames
      BY <1>1, <1>2, <2>2
    <3>2. longer[k] = frames[k]
      BY <1>1, <3>1
    <3> QED
      BY <3>1, <3>2, Zenon DEF Numbered
  <2> QED
    BY <2>1, <2>2
<1> QED
  BY <1>2, Zenon DEF Numbered

LEMMA TailNumbered ==
    ASSUME NEW frames \in Seq(Nat), NEW n \in Nat, Numbered(frames, n), frames # <<>>
    PROVE  Head(frames) = n + 1 /\ Numbered(Tail(frames), n + 1)
<1>1. 1 \in DOMAIN frames /\ Head(frames) = frames[1]
  OBVIOUS
<1>2. ASSUME NEW k \in DOMAIN Tail(frames)
      PROVE  Tail(frames)[k] = n + 1 + k
  <2>1. k \in Nat /\ k + 1 \in DOMAIN frames /\ Tail(frames)[k] = frames[k + 1]
    BY <1>2
  <2>2. frames[k + 1] = n + (k + 1)
    BY <2>1, Zenon DEF Numbered
  <2>3. n + (k + 1) = n + 1 + k
    BY <2>1
  <2> QED
    BY <2>1, <2>2, <2>3, Zenon
<1>3. Numbered(Tail(frames), n + 1)
  BY <1>2, Zenon DEF Numbered
<1> QED
  BY <1>1, <1>3 DEF Numbered

LEMMA OrderStep ==
    ASSUME TypeOK, RecvInv, OrderInv, [Next]_vars
    PROVE  OrderInv'
<1>1. /\ Taken \in Seq(Nat) /\ Len(Taken) \in Nat /\ rcvQueue \in Seq(Nat)
      /\ Numbered(Taken, 0) /\ Numbered(rcvQueue, Len(Taken))
  BY DEF TypeOK, Taken, OrderInv
<1>2. CASE KernelQueue
  <2>1. rcvQueue' = Append(rcvQueue, Len(Taken) + Len(rcvQueue) + 1) /\ Taken' = Taken
    BY <1>2 DEF KernelQueue, RecvInv, threadVars, Taken
  <2>2. Numbered(rcvQueue', Len(Taken))
    BY <1>1, <2>1, AppendNumbered
  <2> QED
    BY <1>1, <2>1, <2>2 DEF OrderInv
<1>3. CASE Receive
  <2>1. /\ Taken' = Append(Taken, Head(rcvQueue)) /\ rcvQueue' = Tail(rcvQueue)
        /\ rcvQueue # <<>>
    BY <1>3 DEF Receive, Taken
  <2>2. Head(rcvQueue) = Len(Taken) + 1 /\ Numbered(rcvQueue', Len(Taken) + 1)
    BY <1>1, <2>1, TailNumbered
  <2>3. Head(rcvQueue) = 0 + Len(Taken) + 1 /\ Len(Taken') = Len(Taken) + 1
    BY <1>1, <2>1, <2>2
  <2>4. Numbered(Taken', 0)
    BY <1>1, <2>1, <2>3, AppendNumbered
  <2> QED
    BY <2>2, <2>3, <2>4 DEF OrderInv
<1>4. CASE ~KernelQueue /\ ~Receive
  <2>1. rcvQueue' = rcvQueue /\ Taken' = Taken
    <3>1. CASE KernelDrop \/ LinkDown \/ LinkUp
      BY <3>1 DEF KernelDrop, LinkDown, LinkUp, threadVars, Taken
    <3>2. CASE TestRunning \/ PollReturnsReady \/ PollTimesOut \/ Signal
      BY <3>2 DEF TestRunning, PollReturnsReady, PollTimesOut, Signal, kernelVars, Taken
    <3>3. CASE Process
      BY <3>3 DEF Process, kernelVars, Taken
    <3>4. CASE ReceiveFails \/ Exit
      BY <3>4 DEF ReceiveFails, Exit, Taken
    <3>5. CASE UNCHANGED vars
      BY <3>5 DEF vars, Taken
    <3> QED
      BY <1>4, <3>1, <3>2, <3>3, <3>4, <3>5 DEF Next, Thread
  <2> QED
    BY <1>1, <2>1, Zenon DEF OrderInv
<1> QED
  BY <1>2, <1>3, <1>4

\* The frames are processed in the order in which the kernel accepted them,
\* each once and none skipped, whatever errors, timeouts and signals come in
\* between (source-af-packet.c:706-728).
THEOREM RecvFifo == Spec => [](\A k \in DOMAIN handled : handled[k] = k)
<1>1. Init => OrderInv
  BY DEF Init, OrderInv, Numbered, Taken
<1>2. TypeOK /\ RecvInv /\ OrderInv /\ [Next]_vars => OrderInv'
  BY OrderStep
<1>3. TypeOK /\ OrderInv => \A k \in DOMAIN handled : handled[k] = k
  <2> SUFFICES ASSUME TypeOK, OrderInv, NEW k \in DOMAIN handled
               PROVE  handled[k] = k
    OBVIOUS
  <2>1. k \in Nat /\ k \in DOMAIN Taken /\ Taken[k] = handled[k]
    BY DEF TypeOK, Taken
  <2> QED
    BY <2>1 DEF OrderInv, Numbered
<1> QED
  BY <1>1, <1>2, <1>3, RecvInvariant, PTL DEF Spec
-----------------------------------------------------------------------------
(* Seen from main().                                                       *)

LEMMA RecvLoopStep ==
    ASSUME TypeOK, RecvInv, [Next]_vars
    PROVE  [Loop!LoopNext]_(Loop!loopVars)
<1> USE DEF TypeOK
<1>1. CASE KernelQueue
  <2>1. enq + 1 \in 1 .. MaxArrivals
    BY <1>1, RecvAssumption DEF KernelQueue
  <2>2. Loop!Arrive(enq + 1)
    BY <1>1 DEF KernelQueue, threadVars, Taken, Loop!Arrive
  <2> QED
    BY <2>1, <2>2 DEF Loop!LoopNext
<1>2. CASE KernelDrop \/ LinkUp
  BY <1>2 DEF KernelDrop, LinkUp, threadVars, Taken, Loop!loopVars
<1>3. CASE LinkDown
  <2>1. Loop!Fault
    BY <1>3 DEF LinkDown, threadVars, Taken, Loop!Fault
  <2> QED
    BY <2>1 DEF Loop!LoopNext
<1>4. CASE TestRunning
  <2>1. Loop!TestRunning
    BY <1>4 DEF TestRunning, kernelVars, Taken, Loop!TestRunning
  <2> QED
    BY <2>1 DEF Loop!LoopNext, Loop!LoopThread
<1>5. CASE PollReturnsReady /\ pc' = "recv"
  BY <1>5 DEF PollReturnsReady, kernelVars, Taken, Loop!loopVars
<1>6. CASE (PollReturnsReady \/ PollTimesOut) /\ pc' = "while"
  <2>1. Loop!TurnEnds
    BY <1>6 DEF PollReturnsReady, PollTimesOut, kernelVars, Taken, Loop!TurnEnds
  <2> QED
    BY <2>1 DEF Loop!LoopNext, Loop!LoopThread
<1>7. CASE Receive
  <2>1. Taken' = Append(Taken, Head(rcvQueue))
    BY <1>7 DEF Receive, Taken
  <2>2. Loop!TakeFrame
    BY <1>7, <2>1 DEF Receive, Loop!TakeFrame
  <2> QED
    BY <2>2 DEF Loop!LoopNext, Loop!LoopThread
<1>8. CASE ReceiveFails
  <2>1. rcvQueue # <<>> /\ report = <<>> /\ report' = <<>>
    BY <1>8 DEF ReceiveFails, RecvInv, RecvNeverBlocks
  <2>2. Loop!ReceiveFails
    BY <1>8, <2>1 DEF ReceiveFails, Taken, Loop!ReceiveFails, Loop!Polling
  <2> QED
    BY <2>2 DEF Loop!LoopNext, Loop!LoopThread
<1>9. CASE Process
  BY <1>9 DEF Process, kernelVars, Taken, Loop!loopVars
<1>10. CASE Exit
  <2>1. report' = Append(report, Len(Taken)) /\ report' # <<>>
    BY <1>10 DEF Exit, RecvInv, Taken
  <2>2. Loop!PrintStats
    BY <1>10, <2>1 DEF Exit, Taken, Loop!PrintStats
  <2> QED
    BY <2>2 DEF Loop!LoopNext, Loop!LoopThread
<1>11. CASE Signal
  <2>1. Loop!Signal
    BY <1>11 DEF Signal, kernelVars, Taken, Loop!Signal, Loop!Polling
  <2> QED
    BY <2>1 DEF Loop!LoopNext
<1>12. CASE UNCHANGED vars
  BY <1>12 DEF vars, Taken, Loop!loopVars
<1>13. CASE PollReturnsReady \/ PollTimesOut
  <2>1. \/ PollReturnsReady /\ pc' = "recv"
        \/ (PollReturnsReady \/ PollTimesOut) /\ pc' = "while"
    BY <1>13 DEF PollReturnsReady, PollTimesOut
  <2> QED
    BY <2>1, <1>5, <1>6, Zenon
<1> QED
  BY <1>1, <1>2, <1>3, <1>4, <1>7, <1>8, <1>9, <1>10, <1>11, <1>12, <1>13, Zenon
     DEF Next, Thread

\* What the benchmark relies on holds of this loop for every size of the
\* receive buffer: turns of at most one frame, left through the test of
\* `running` or a failed recvfrom() (source-af-packet.c:706-733).
THEOREM RecvImplementsLoop == Spec => ImplementsLoop
<1>1. Init => Loop!LoopInit
  BY DEF Init, Taken, Loop!LoopInit
<1>2. TypeOK /\ RecvInv /\ [Next]_vars => [Loop!LoopNext]_(Loop!loopVars)
  BY RecvLoopStep
<1> QED
  BY <1>1, <1>2, RecvInvariant, PTL DEF Spec, ImplementsLoop, Loop!LoopSpec
=============================================================================
