-------------------------- MODULE RingPollingProofs --------------------------
(***************************************************************************)
(* The polling loop keeps to the ring protocol, so that what RxRingProofs  *)
(* proves of the ring holds of the loop; what its printed total accounts   *)
(* for; that with one CPU it ends only because of a signal or a link       *)
(* failure; and that it is a CaptureLoop.                                  *)
(***************************************************************************)
EXTENDS RingPolling, RxRingProofs

LEMMA PollingInit == Init => TypeOK /\ ThreadInv
<1> SUFFICES ASSUME Init
             PROVE  TypeOK /\ ThreadInv
  OBVIOUS
<1>1. RingTypeOK
  BY RingTypingInit DEF Init
<1>2. ThreadTypeOK /\ ThreadInv
  BY DEF Init, RingInit, ThreadTypeOK, ThreadInv
<1> QED
  BY <1>1, <1>2 DEF TypeOK

\* What a step of the loop, or of a signal, is in the ring protocol.
LEMMA PollingStepIsRingStep ==
    ASSUME TypeOK, ThreadInv, [Next]_vars
    PROVE  [RingNext]_ringVars
<1>1. CASE Kernel /\ UNCHANGED threadVars
  BY <1>1 DEF RingNext
<1>2. CASE Process
  BY <1>2 DEF Process, ThreadInv, RingNext, RingReader
<1>3. CASE Release
  BY <1>3 DEF Release, ThreadInv, RingNext, RingReader
<1>4. CASE Exit
  BY <1>4 DEF Exit, ThreadInv, RingNext, RingReader
<1>5. CASE TestRunning \/ PollReturnsReady \/ PollTimesOut \/ TestStatus \/ Signal
  BY <1>5 DEF TestRunning, PollReturnsReady, PollTimesOut, TestStatus, Signal
<1>6. CASE UNCHANGED vars
  BY <1>6 DEF vars, ringVars
<1> QED
  BY <1>1, <1>2, <1>3, <1>4, <1>5, <1>6 DEF Next, Thread

LEMMA PollingStep ==
    ASSUME TypeOK, ThreadInv, [Next]_vars
    PROVE  TypeOK' /\ ThreadInv'
<1>1. RingTypeOK'
  BY PollingStepIsRingStep, RingTypingStep DEF TypeOK
<1>2. ThreadTypeOK'
  <2>1. CASE UNCHANGED threadVars
    BY <2>1 DEF threadVars, TypeOK, ThreadTypeOK
  <2>2. CASE TestRunning \/ PollTimesOut \/ TestStatus
    BY <2>2 DEF TestRunning, PollTimesOut, TestStatus, TypeOK, ThreadTypeOK
  <2>3. CASE PollReturnsReady
    <3>1. revents' \subseteq {"POLLIN", "POLLERR"}
      BY <2>3 DEF PollReturnsReady, PollEvents
    <3> QED
      BY <2>3, <3>1 DEF PollReturnsReady, TypeOK, ThreadTypeOK
  <2>4. CASE Process
    BY <2>4 DEF Process, TypeOK, ThreadTypeOK
  <2>5. CASE Release
    BY <2>5 DEF Release, TypeOK, ThreadTypeOK
  <2>6. CASE Exit
    <3>1. report' \in Seq(Nat)
      BY <2>6 DEF Exit, TypeOK, ThreadTypeOK
    <3> QED
      BY <2>6, <3>1 DEF Exit, TypeOK, ThreadTypeOK
  <2>7. CASE Signal
    BY <2>7 DEF Signal, TypeOK, ThreadTypeOK
  <2>8. CASE UNCHANGED vars
    BY <2>8 DEF vars, TypeOK, ThreadTypeOK
  <2> QED
    BY <2>1, <2>2, <2>3, <2>4, <2>5, <2>6, <2>7, <2>8 DEF Next, Thread
<1>3. ThreadInv'
  <2>1. CASE Kernel /\ UNCHANGED threadVars
    <3>1. /\ UNCHANGED userVars
          /\ hook' = "closed" <=> hook = "closed"
          /\ FrameReady => FrameReady'
      BY <2>1 DEF Kernel, KernelReserve, KernelFill, KernelDrop, LinkDown,
                  LinkUp, FrameReady, userVars, TypeOK, RingTypeOK
    <3> QED
      BY <2>1, <3>1 DEF ThreadInv, threadVars, userVars
  <2>2. CASE TestRunning \/ PollReturnsReady \/ PollTimesOut \/ TestStatus \/ Signal
    BY <2>2 DEF TestRunning, PollReturnsReady, PollTimesOut, TestStatus, Signal,
                ThreadInv, FrameReady, ringVars
  <2>3. CASE Process
    BY <2>3 DEF Process, ProcessFrame, kernelVars, ThreadInv, TypeOK, RingTypeOK
  <2>4. CASE Release
    BY <2>4 DEF Release, ReleaseFrame, ThreadInv
  <2>5. CASE Exit
    BY <2>5 DEF Exit, CloseRing, userVars, ThreadInv
  <2>6. CASE UNCHANGED vars
    BY <2>6 DEF vars, ThreadInv, FrameReady
  <2> QED
    BY <2>1, <2>2, <2>3, <2>4, <2>5, <2>6 DEF Next, Thread
<1> QED
  BY <1>1, <1>2, <1>3 DEF TypeOK

\* The thread holds exactly the slot its step says, and its total is what
\* it has handed to ProcessPacket (source-af-packet.c:604-648).
THEOREM PollingInvariant == Spec => [](TypeOK /\ ThreadInv)
<1>1. TypeOK /\ ThreadInv /\ [Next]_vars => (TypeOK /\ ThreadInv)'
  BY PollingStep
<1> QED
  BY <1>1, PollingInit, PTL DEF Spec

\* The polling loop keeps to the ring protocol, whatever comes between its
\* test of tp_status and its use of the frame (source-af-packet.c:617-634).
THEOREM PollingImplementsRing == Spec => ImplementsRing
<1>1. Init => RingInit
  BY DEF Init
<1>2. TypeOK /\ ThreadInv /\ [Next]_vars => [RingNext]_ringVars
  BY PollingStepIsRingStep
<1> QED
  BY <1>1, <1>2, PollingInvariant, PTL DEF Spec, RingSpec, ImplementsRing

\* The loop hands the frames to ProcessPacket in order, each once and whole
\* (source-af-packet.c:626-634).
COROLLARY PollingFifo == Spec => []FifoExactlyOnce
  BY PollingImplementsRing, RingFifo, PTL DEF ImplementsRing

\* When the loop is left, the printed total and the frames still in the ring
\* add up to the frames accepted (source-af-packet.c:604, 629, 645).
THEOREM PollingReportAccounts == Spec => []ReportAccounts
<1>1. TypeOK /\ ThreadInv /\ NoFrameLeaked => ReportAccounts
  <2> SUFFICES ASSUME TypeOK, ThreadInv, NoFrameLeaked, pc = "done"
               PROVE  ~holding /\ enq - report[1] = Cardinality(SlotsInUse)
    BY DEF ReportAccounts
  <2>1. ~holding /\ report[1] = Len(handled)
    BY DEF ThreadInv
  <2> QED
    BY <2>1 DEF NoFrameLeaked, InRing, Released, TypeOK, RingTypeOK
<1> QED
  BY <1>1, PollingInvariant, PollingImplementsRing, RingLeaksNoFrame, PTL
     DEF ImplementsRing
-----------------------------------------------------------------------------
(* Any number of CPUs: why the loop ends.                                  *)

\* When tp_status is tested, the ring holds a frame: the one poll() saw.
HeaderInv == pc = "header" => InRing > 0 \/ skErr

LEMMA HeaderInvStep ==
    ASSUME TypeOK, ThreadInv, RingInv, HeaderInv, [Next]_vars
    PROVE  HeaderInv'
<1> SUFFICES ASSUME pc' = "header"
             PROVE  (InRing > 0 \/ skErr)'
  BY DEF HeaderInv
<1>1. ASSUME NEW c \in Cpus, KernelReserve(c), UNCHANGED threadVars
      PROVE  (InRing > 0 \/ skErr)'
  <2>1. /\ enq' = enq + 1 /\ handled' = handled /\ holding' = holding
        /\ skErr' = skErr /\ pc = "header"
    BY <1>1 DEF KernelReserve, userVars, threadVars
  <2>2. Released \in Int /\ Released' = Released /\ enq \in Nat
    BY <2>1 DEF TypeOK, RingTypeOK, Released
  <2>3. InRing' = InRing + 1 /\ InRing \in Int
    BY <2>1, <2>2 DEF InRing
  <2> QED
    BY <2>1, <2>3 DEF HeaderInv
<1>2. CASE PollReturnsReady
  <2>1. UNCHANGED <<enq, handled, holding, skErr>>
    BY <1>2 DEF PollReturnsReady, ringVars
  <2>2. SlotBefore(head) \in Slots /\ InRing \in Int /\ Ahead(SlotBefore(head)) \in Nat
    BY RingAssumption DEF TypeOK, RingTypeOK, Slots, SlotBefore, RingInv, WindowOK, Ahead
  <2>3. CASE status[SlotBefore(head)] # "kernel"
    <3>1. Ahead(SlotBefore(head)) < InRing
      BY <2>2, <2>3 DEF RingInv, SlotOK
    <3>2. InRing > 0
      BY <2>2, <3>1
    <3> QED
      BY <2>1, <3>2 DEF InRing, Released
  <2>4. CASE status[SlotBefore(head)] = "kernel"
    BY <1>2, <2>1, <2>4 DEF PollReturnsReady, PollEvents
  <2> QED
    BY <2>3, <2>4
<1>3. CASE TestRunning \/ PollTimesOut \/ TestStatus \/ Process \/ Release \/ Exit
  BY <1>3 DEF TestRunning, PollTimesOut, TestStatus, Process, Release, Exit
<1>4. CASE \/ (\E c \in Cpus, s \in Slots : KernelFill(c, s)) /\ UNCHANGED threadVars
           \/ KernelDrop /\ UNCHANGED threadVars
           \/ UNCHANGED vars
  BY <1>4 DEF KernelFill, KernelDrop, userVars, threadVars, vars, HeaderInv,
              InRing, Released
<1>5. CASE (LinkDown \/ LinkUp) /\ UNCHANGED threadVars
  BY <1>5 DEF LinkDown, LinkUp, userVars, threadVars, HeaderInv, InRing, Released
<1>6. CASE Signal
  BY <1>6 DEF Signal, ringVars, HeaderInv, InRing, Released
<1> QED
  BY <1>1, <1>2, <1>3, <1>4, <1>5, <1>6 DEF Next, Kernel, Thread

\* A slot that is tested and not ready is being filled, unless the link
\* failed: it is in the window of the ring.
LEMMA NotReadyIsFilling ==
    ASSUME TypeOK, RingInv, InRing > 0, ~FrameReady
    PROVE  owner[frame_num] # NoCpu
<1>1. frame_num \in Slots /\ InRing \in Nat
  BY DEF TypeOK, RingTypeOK, RingInv, WindowOK
<1>2. Ahead(frame_num) = 0
  BY <1>1, RingAssumption DEF Ahead, Slots
<1> QED
  BY <1>1, <1>2 DEF RingInv, SlotOK, FrameReady

\* When tp_status is tested, the slot whose frame made poll() return is still
\* ready: only the loop gives slots back.
ReadyInv == pc = "header" => skErr \/ \E s \in Slots : status[s] = "user"

LEMMA ReadyInvStep ==
    ASSUME TypeOK, ThreadInv, ReadyInv, [Next]_vars
    PROVE  ReadyInv'
<1> SUFFICES ASSUME pc' = "header"
             PROVE  (skErr \/ \E s \in Slots : status[s] = "user")'
  BY DEF ReadyInv
<1>1. CASE Kernel /\ UNCHANGED threadVars
  <2>1. /\ pc = "header" /\ (skErr => skErr')
        /\ \A s \in Slots : status[s] = "user" => status'[s] = "user"
    BY <1>1 DEF Kernel, KernelReserve, KernelFill, KernelDrop, LinkDown, LinkUp,
                threadVars, userVars, TypeOK, RingTypeOK
  <2> QED
    BY <2>1 DEF ReadyInv
<1>2. CASE PollReturnsReady
  <2>1. SlotBefore(head) \in Slots
    BY RingAssumption DEF TypeOK, RingTypeOK, Slots, SlotBefore
  <2>2. skErr \/ status[SlotBefore(head)] = "user"
    BY <1>2, <2>1 DEF PollReturnsReady, PollEvents, TypeOK, RingTypeOK
  <2> QED
    BY <1>2, <2>1, <2>2 DEF PollReturnsReady, ringVars
<1>3. CASE TestRunning \/ PollTimesOut \/ TestStatus \/ Process \/ Release \/ Exit
  BY <1>3 DEF TestRunning, PollTimesOut, TestStatus, Process, Release, Exit
<1>4. CASE Signal
  BY <1>4 DEF Signal, ringVars, ReadyInv
<1>5. CASE UNCHANGED vars
  BY <1>5 DEF vars, ReadyInv
<1> QED
  BY <1>1, <1>2, <1>3, <1>4, <1>5 DEF Next, Thread

\* For every number of slots and CPUs the loop is left only after a signal,
\* after a link failure, or at a slot that is being filled while another one
\* is ready: no timeout and no wrap of the ring ends it
\* (source-af-packet.c:604-643).
THEOREM PollingEndsOnlyWhileFilling == Spec => EndsOnlyWhileFilling
<1>1. Init => HeaderInv
  BY DEF Init, HeaderInv
<1>2. TypeOK /\ ThreadInv /\ RingInv /\ HeaderInv /\ [Next]_vars => HeaderInv'
  BY HeaderInvStep
<1>3. TypeOK /\ ThreadInv /\ ReadyInv /\ [Next]_vars => ReadyInv'
  BY ReadyInvStep
<1>4. Init => ReadyInv
  BY DEF Init, ReadyInv
<1>5. ASSUME TypeOK, RingInv, HeaderInv, ReadyInv, [Next]_vars
      PROVE  [pc' = "exit" /\ pc # "exit" =>
                \/ ~running'
                \/ skErr
                \/ owner[frame_num] # NoCpu /\ \E s \in Slots : status[s] = "user"]_vars
  <2> SUFFICES ASSUME pc' = "exit", pc # "exit"
               PROVE  \/ ~running'
                      \/ skErr
                      \/ owner[frame_num] # NoCpu /\ \E s \in Slots : status[s] = "user"
    OBVIOUS
  <2>1. CASE Kernel /\ UNCHANGED threadVars
    BY <2>1 DEF threadVars
  <2>2. CASE TestRunning
    BY <2>2 DEF TestRunning
  <2>3. CASE TestStatus
    <3>1. pc = "header" /\ ~FrameReady
      BY <2>3 DEF TestStatus
    <3> QED
      BY <1>5, <3>1, NotReadyIsFilling DEF HeaderInv, ReadyInv
  <2>4. CASE PollReturnsReady \/ PollTimesOut \/ Process \/ Release \/ Exit
    BY <2>4 DEF PollReturnsReady, PollTimesOut, Process, Release, Exit
  <2>5. CASE Signal
    BY <2>5 DEF Signal
  <2>6. CASE UNCHANGED vars
    BY <2>6 DEF vars
  <2> QED
    BY <1>5, <2>1, <2>2, <2>3, <2>4, <2>5, <2>6 DEF Next, Thread
<1> QED
  BY <1>1, <1>2, <1>3, <1>4, <1>5, PollingInvariant, PollingImplementsRing, RingInvariant, PTL
     DEF Spec, ImplementsRing, EndsOnlyWhileFilling
-----------------------------------------------------------------------------
(* One CPU: slots become ready in the order of the ring.                   *)

OneCpu == \A c, d \in Cpus : c = d

\* Only the slot reserved last can still be being filled.
LastSlotOnly == \A s \in Slots : owner[s] # NoCpu => s = SlotBefore(head)

\* What poll() promised is still so when tp_status is tested.
OneCpuInv ==
    /\ LastSlotOnly
    /\ pc = "header" => FrameReady \/ skErr
    /\ EndsOnlyBySignal

LEMMA BeforeAfter == \A s \in Slots : SlotBefore(SlotAfter(s)) = s
  BY RingAssumption DEF Slots, SlotBefore, SlotAfter

\* If only the last slot can be unfilled and it is filled, the first is.
LEMMA LastReadyFirstReady ==
    ASSUME RingTypeOK, RingInv, LastSlotOnly, status[SlotBefore(head)] # "kernel"
    PROVE  FrameReady
<1>1. SlotBefore(head) \in Slots /\ frame_num \in Slots
  BY RingAssumption DEF RingTypeOK, Slots, SlotBefore
<1>2. /\ Ahead(SlotBefore(head)) < InRing
      /\ owner[SlotBefore(head)] = NoCpu
  BY <1>1 DEF RingInv, SlotOK
<1>3. Ahead(frame_num) < InRing
  BY <1>1, <1>2, AheadFacts, WindowCounts
<1>4. owner[frame_num] = NoCpu
  BY <1>1, <1>2 DEF LastSlotOnly
<1> QED
  BY <1>1, <1>3, <1>4 DEF RingInv, SlotOK, FrameReady

LEMMA OneCpuStep ==
    ASSUME OneCpu, TypeOK, ThreadInv, RingInv, OneCpuInv, [Next]_vars
    PROVE  OneCpuInv'
<1>1. ASSUME NEW c \in Cpus, KernelReserve(c), UNCHANGED threadVars
      PROVE  OneCpuInv'
  <2>1. \A s \in Slots : owner[s] = NoCpu
    BY <1>1 DEF KernelReserve, Idle, OneCpu, TypeOK, RingTypeOK
  <2>2. SlotBefore(head') = head
    BY <1>1, BeforeAfter DEF KernelReserve, TypeOK, RingTypeOK
  <2>3. LastSlotOnly'
    BY <1>1, <2>1, <2>2 DEF KernelReserve, LastSlotOnly, TypeOK, RingTypeOK, SlotBefore
  <2> QED
    BY <1>1, <2>3 DEF KernelReserve, userVars, threadVars, OneCpuInv, FrameReady,
                      EndsOnlyBySignal
<1>2. ASSUME NEW c \in Cpus, NEW s \in Slots, KernelFill(c, s), UNCHANGED threadVars
      PROVE  OneCpuInv'
  BY <1>2 DEF KernelFill, userVars, threadVars, OneCpuInv, LastSlotOnly,
              SlotBefore, FrameReady, EndsOnlyBySignal, TypeOK, RingTypeOK
<1>3. CASE (KernelDrop \/ LinkDown \/ LinkUp) /\ UNCHANGED threadVars
  BY <1>3 DEF KernelDrop, LinkDown, LinkUp, userVars, threadVars, OneCpuInv,
              LastSlotOnly, SlotBefore, FrameReady, EndsOnlyBySignal
<1>4. CASE PollReturnsReady
  <2>1. skErr \/ status[SlotBefore(head)] # "kernel"
    BY <1>4 DEF PollReturnsReady, PollEvents
  <2>2. skErr \/ FrameReady
    BY <2>1, LastReadyFirstReady DEF TypeOK, OneCpuInv
  <2> QED
    BY <1>4, <2>2 DEF PollReturnsReady, ringVars, OneCpuInv, LastSlotOnly,
                      SlotBefore, FrameReady, EndsOnlyBySignal
<1>5. CASE TestRunning \/ PollTimesOut \/ TestStatus \/ Signal
  BY <1>5 DEF TestRunning, PollTimesOut, TestStatus, Signal, ringVars, OneCpuInv,
              LastSlotOnly, SlotBefore, FrameReady, EndsOnlyBySignal
<1>6. CASE Process \/ Release \/ Exit
  BY <1>6 DEF Process, ProcessFrame, Release, ReleaseFrame, Exit, CloseRing,
              kernelVars, userVars, OneCpuInv, LastSlotOnly, SlotBefore,
              EndsOnlyBySignal
<1>7. CASE UNCHANGED vars
  BY <1>7 DEF vars, OneCpuInv, LastSlotOnly, SlotBefore, FrameReady,
              EndsOnlyBySignal
<1> QED
  BY <1>1, <1>2, <1>3, <1>4, <1>5, <1>6, <1>7 DEF Next, Kernel, Thread

\* With one CPU, POLLIN means that the slot at frame_num is ready, for every
\* ring size: the loop ends only because of a signal or a link failure
\* (source-af-packet.c:607-623).
THEOREM OneCpuEndsOnlyBySignal ==
    ASSUME OneCpu
    PROVE  Spec => []EndsOnlyBySignal
<1>1. Init => OneCpuInv
  BY DEF Init, RingInit, OneCpuInv, LastSlotOnly, EndsOnlyBySignal
<1>2. TypeOK /\ ThreadInv /\ RingInv /\ OneCpuInv /\ [Next]_vars => OneCpuInv'
  BY OneCpu, OneCpuStep
<1>3. OneCpuInv => EndsOnlyBySignal
  BY DEF OneCpuInv
<1> QED
  BY <1>1, <1>2, <1>3, PollingInvariant, PollingImplementsRing, RingInvariant, PTL
     DEF Spec, ImplementsRing
-----------------------------------------------------------------------------
(* Seen from main().                                                       *)

\* So a slot that is not ready has another frame behind it in the ring.
LEMMA NotReadyMeansTwo ==
    ASSUME TypeOK, ThreadInv, RingInv, ReadyInv, pc = "header", ~FrameReady, ~skErr
    PROVE  enq - Len(handled) >= 2
<1>1. PICK s \in Slots : status[s] = "user"
  BY DEF ReadyInv
<1>2. /\ frame_num \in Slots /\ s # frame_num
      /\ InRing = enq - Len(handled) /\ InRing \in Nat
  BY <1>1 DEF FrameReady, TypeOK, RingTypeOK, ThreadInv, InRing, Released, RingInv, WindowOK
<1>3. Ahead(s) < InRing
  BY <1>1 DEF RingInv, SlotOK
<1>4. Ahead(s) \in Nat /\ Ahead(s) # 0
  BY <1>2, RingAssumption DEF Ahead, Slots
<1> QED
  BY <1>2, <1>3, <1>4

\* The queue of frames that CaptureLoop sees, as in RingImplementsQueue.
LoopBuffer == Frames(Len(handled), enq - Len(handled))

LEMMA LoopBufferStep ==
    ASSUME TypeOK, ThreadInv, RingInv, FifoExactlyOnce
    PROVE  /\ Len(LoopBuffer) = enq - Len(handled)
           /\ \A c \in Cpus : KernelReserve(c) =>
                /\ LoopBuffer' = Append(LoopBuffer, enq + 1)
                /\ handled' = handled
           /\ Process => /\ LoopBuffer # <<>>
                         /\ handled' = Append(handled, Head(LoopBuffer))
                         /\ LoopBuffer' = Tail(LoopBuffer)
<1> DEFINE k == Len(handled)
           n == enq - k
<1>1. k \in Nat /\ n \in Nat /\ enq \in Nat /\ k + n + 1 = enq + 1
  BY DEF FifoExactlyOnce, TypeOK, RingTypeOK
<1>2. Len(LoopBuffer) = n
  BY <1>1, FramesLen DEF LoopBuffer
<1>3. ASSUME NEW c \in Cpus, KernelReserve(c)
      PROVE  LoopBuffer' = Append(LoopBuffer, enq + 1) /\ handled' = handled
  <2>1. handled' = handled /\ enq' = enq + 1
    BY <1>3 DEF KernelReserve, userVars
  <2>2. LoopBuffer' = Frames(k, n + 1)
    <3>1. Len(handled') = k /\ enq' - Len(handled') = n + 1
      BY <1>1, <2>1
    <3> QED
      BY <3>1 DEF LoopBuffer, Frames
  <2>3. Frames(k, n + 1) = Append(Frames(k, n), k + n + 1)
    BY <1>1, FramesAppend
  <2> QED
    BY <1>1, <2>1, <2>2, <2>3 DEF LoopBuffer
<1>4. ASSUME Process
      PROVE  /\ LoopBuffer # <<>>
             /\ handled' = Append(handled, Head(LoopBuffer))
             /\ LoopBuffer' = Tail(LoopBuffer)
  <2>1. /\ ~holding /\ FrameReady /\ frame_num \in Slots
        /\ handled' = Append(handled, data[frame_num]) /\ enq' = enq
    BY <1>4 DEF Process, ProcessFrame, kernelVars, ThreadInv, TypeOK, RingTypeOK
  <2>2. Ahead(frame_num) = 0 /\ Released = k /\ InRing = n
    BY <1>1, <2>1, RingAssumption DEF Ahead, Slots, Released, InRing
  <2>3. n > 0 /\ data[frame_num] = k + 1
    BY <1>1, <2>1, <2>2 DEF RingInv, SlotOK, FrameReady
  <2>4. Len(handled') = k + 1 /\ enq' - Len(handled') = n - 1
    BY <1>1, <2>1, <2>3 DEF TypeOK, RingTypeOK
  <2>5. LoopBuffer' = Frames(k + 1, n - 1)
    BY <2>4 DEF LoopBuffer, Frames
  <2> QED
    BY <1>1, <2>1, <2>3, <2>5, FramesTail DEF LoopBuffer
<1> QED
  BY <1>2, <1>3, <1>4

LEMMA PollingLoopStep ==
    ASSUME TypeOK, ThreadInv, RingInv, FifoExactlyOnce, ReadyInv, [Next]_vars
    PROVE  [Loop!LoopNext]_(Loop!loopVars)
<1>1. ASSUME NEW c \in Cpus, KernelReserve(c), UNCHANGED threadVars
      PROVE  Loop!LoopNext
  <2>1. enq + 1 \in 1 .. MaxArrivals
    BY <1>1, RingAssumption DEF KernelReserve, TypeOK, RingTypeOK
  <2>2. /\ LoopBuffer' = Append(LoopBuffer, enq + 1)
        /\ UNCHANGED <<handled, skErr, running, pc, report>>
    BY <1>1, LoopBufferStep DEF KernelReserve, threadVars
  <2>3. \E f \in 1 .. MaxArrivals : Loop!Arrive(f)
    BY <2>1, <2>2 DEF Loop!Arrive, LoopBuffer, Frames
  <2> QED
    BY <2>3, Zenon DEF Loop!LoopNext
<1>2. ASSUME UNCHANGED <<enq, handled, skErr, running, report>>,
             \/ UNCHANGED pc
             \/ pc = "poll" /\ pc' = "header"
             \/ pc = "header" /\ pc' = "process"
             \/ pc = "release" /\ pc' = "while"
      PROVE  UNCHANGED Loop!loopVars
  BY <1>2 DEF Loop!loopVars
<1>3. CASE (\E c \in Cpus, s \in Slots : KernelFill(c, s)) /\ UNCHANGED threadVars
  BY <1>2, <1>3 DEF KernelFill, userVars, threadVars
<1>4. CASE (KernelDrop \/ LinkUp) /\ UNCHANGED threadVars
  BY <1>2, <1>4 DEF KernelDrop, LinkUp, userVars, threadVars
<1>5. CASE LinkDown /\ UNCHANGED threadVars
  <2>1. Loop!Fault
    BY <1>5 DEF LinkDown, userVars, threadVars, Loop!Fault
  <2> QED
    BY <2>1 DEF Loop!LoopNext
<1>6. CASE TestRunning
  <2>1. Loop!TestRunning
    BY <1>6 DEF TestRunning, ringVars, Loop!TestRunning
  <2> QED
    BY <2>1 DEF Loop!LoopNext, Loop!LoopThread
<1>7. CASE PollReturnsReady
  BY <1>2, <1>7 DEF PollReturnsReady, ringVars, events, PollFaults
<1>8. CASE PollTimesOut
  <2>1. Loop!TurnEnds
    BY <1>8 DEF PollTimesOut, ringVars, Loop!TurnEnds
  <2> QED
    BY <2>1 DEF Loop!LoopNext, Loop!LoopThread
<1>9. CASE TestStatus /\ FrameReady
  BY <1>2, <1>9 DEF TestStatus, ringVars
<1>10. CASE TestStatus /\ ~FrameReady
  <2>1. skErr \/ Len(LoopBuffer) >= 2
    BY <1>10, NotReadyMeansTwo, LoopBufferStep DEF TestStatus
  <2>2. Loop!BreakOff
    BY <1>10, <2>1 DEF TestStatus, ringVars, Loop!BreakOff, Loop!Polling, LoopBuffer, Frames
  <2> QED
    BY <2>2 DEF Loop!LoopNext, Loop!LoopThread
<1>11. CASE Process
  <2>1. /\ pc = "process" /\ pc' = "release"
        /\ UNCHANGED <<skErr, running, report>>
    BY <1>11 DEF Process, ProcessFrame, kernelVars
  <2>2. Loop!TakeFrame
    BY <1>11, <2>1, LoopBufferStep DEF Loop!TakeFrame, Loop!Polling, LoopBuffer, Frames
  <2> QED
    BY <2>2 DEF Loop!LoopNext, Loop!LoopThread
<1>12. CASE Release
  BY <1>2, <1>12 DEF Release, ReleaseFrame
<1>13. CASE Exit
  <2>1. Loop!PrintStats
    BY <1>13 DEF Exit, CloseRing, userVars, ThreadInv, Loop!PrintStats
  <2> QED
    BY <2>1 DEF Loop!LoopNext, Loop!LoopThread
<1>14. CASE Signal
  <2>1. Loop!Signal
    BY <1>14 DEF Signal, ringVars, Loop!Signal, Loop!Polling
  <2> QED
    BY <2>1 DEF Loop!LoopNext
<1>15. CASE UNCHANGED vars
  BY <1>2, <1>15 DEF vars
<1>16. CASE Thread
  BY <1>6, <1>7, <1>8, <1>9, <1>10, <1>11, <1>12, <1>13, <1>16, Zenon DEF Thread
<1>17. CASE Kernel /\ UNCHANGED threadVars
  BY <1>1, <1>3, <1>4, <1>5, <1>17, Zenon DEF Kernel
<1> QED
  BY <1>14, <1>15, <1>16, <1>17, Zenon DEF Next

\* What the benchmark relies on holds of this loop for every number of slots
\* and CPUs: turns of at most one frame, left through the test of `running`,
\* an interrupted poll(), or with two frames or more in the ring
\* (source-af-packet.c:604-649).
THEOREM PollingImplementsLoop == Spec => ImplementsLoop
<1>1. Init => Loop!LoopInit /\ ReadyInv
  BY DEF Init, RingInit, Loop!LoopInit, ReadyInv
<1>2. TypeOK /\ ThreadInv /\ ReadyInv /\ [Next]_vars => ReadyInv'
  BY ReadyInvStep
<1>3. TypeOK /\ ThreadInv /\ RingInv /\ FifoExactlyOnce /\ ReadyInv /\ [Next]_vars
        => [Loop!LoopNext]_(Loop!loopVars)
  BY PollingLoopStep
<1> QED
  BY <1>1, <1>2, <1>3, PollingInvariant, PollingImplementsRing, RingInvariant,
     PollingFifo, PTL DEF Spec, ImplementsRing, ImplementsLoop, Loop!LoopSpec
=============================================================================
