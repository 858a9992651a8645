------------------------- MODULE RingNoPollingProofs -------------------------
(***************************************************************************)
(* The ring loop without poll() keeps to the ring protocol, so that what   *)
(* RxRingProofs proves of the ring holds of it too.                        *)
(***************************************************************************)
EXTENDS RingNoPolling, RxRingProofs

LEMMA NoPollingStepIsRingStep ==
    ASSUME TypeOK, ThreadInv, [Next]_vars
    PROVE  [RingNext]_ringVars
<1>1. CASE Kernel /\ UNCHANGED threadVars
  BY <1>1 DEF RingNext
<1>2. CASE Process
  BY <1>2 DEF Process, ThreadInv, RingNext, RingReader
<1>3. CASE Release
  BY <1>3 DEF Release, ThreadInv, RingNext, RingReader
<1>4. CASE Exit
  BY <1>4 DEF Exit, ThreadInv, RingNext, RingReader
<1>5. CASE TestRunning \/ TestStatus \/ Signal
  BY <1>5 DEF TestRunning, TestStatus, Signal
<1>6. CASE UNCHANGED vars
  BY <1>6 DEF vars, ringVars
<1> QED
  BY <1>1, <1>2, <1>3, <1>4, <1>5, <1>6 DEF Next, Thread

LEMMA NoPollingStep ==
    ASSUME TypeOK, ThreadInv, [Next]_vars
    PROVE  TypeOK' /\ ThreadInv'
<1>1. RingTypeOK'
  BY NoPollingStepIsRingStep, RingTypingStep DEF TypeOK
<1>2. CASE Kernel /\ UNCHANGED threadVars
  <2>1. /\ UNCHANGED userVars
        /\ hook' = "closed" <=> hook = "closed"
        /\ FrameReady => FrameReady'
    BY <1>2 DEF Kernel, KernelReserve, KernelFill, KernelDrop, LinkDown,
                LinkUp, FrameReady, userVars, TypeOK, RingTypeOK
  <2> QED
    BY <1>1, <1>2, <2>1 DEF TypeOK, ThreadTypeOK, ThreadInv, threadVars, userVars
<1>3. CASE TestRunning \/ TestStatus \/ Signal
  <2>1. ThreadTypeOK'
    BY <1>3 DEF TestRunning, TestStatus, Signal, TypeOK, ThreadTypeOK
  <2>2. ThreadInv'
    BY <1>3 DEF TestRunning, TestStatus, Signal, ThreadInv, FrameReady, ringVars
  <2> QED
    BY <1>1, <2>1, <2>2 DEF TypeOK
<1>4. CASE Process
  <2>1. ThreadTypeOK'
    BY <1>4 DEF Process, TypeOK, ThreadTypeOK
  <2>2. ThreadInv'
    BY <1>4 DEF Process, ProcessFrame, kernelVars, ThreadInv, TypeOK, RingTypeOK
  <2> QED
    BY <1>1, <2>1, <2>2 DEF TypeOK
<1>5. CASE Release
  <2>1. ThreadTypeOK'
    BY <1>5 DEF Release, TypeOK, ThreadTypeOK
  <2>2. ThreadInv'
    BY <1>5 DEF Release, ReleaseFrame, ThreadInv
  <2> QED
    BY <1>1, <2>1, <2>2 DEF TypeOK
<1>6. CASE Exit
  <2>1. report' \in Seq(Nat)
    BY <1>6 DEF Exit, TypeOK, ThreadTypeOK
  <2>2. ThreadTypeOK'
    BY <1>6, <2>1 DEF Exit, TypeOK, ThreadTypeOK
  <2>3. ThreadInv'
    BY <1>6 DEF Exit, CloseRing, userVars, ThreadInv
  <2> QED
    BY <1>1, <2>2, <2>3 DEF TypeOK
<1>7. CASE UNCHANGED vars
  BY <1>1, <1>7 DEF vars, TypeOK, ThreadTypeOK, ThreadInv, FrameReady
<1> QED
  BY <1>2, <1>3, <1>4, <1>5, <1>6, <1>7 DEF Next, Thread

\* The thread holds exactly the slot its step says, and its total is what
\* it has handed to ProcessPacket (source-af-packet.c:489-518).
THEOREM NoPollingInvariant == Spec => [](TypeOK /\ ThreadInv)
<1>1. Init => TypeOK /\ ThreadInv
  <2> SUFFICES ASSUME Init
               PROVE  TypeOK /\ ThreadInv
    OBVIOUS
  <2>1. RingTypeOK
    BY RingTypingInit DEF Init
  <2>2. ThreadTypeOK /\ ThreadInv
    BY DEF Init, RingInit, ThreadTypeOK, ThreadInv
  <2> QED
    BY <2>1, <2>2 DEF TypeOK
<1>2. TypeOK /\ ThreadInv /\ [Next]_vars => (TypeOK /\ ThreadInv)'
  BY NoPollingStep
<1> QED
  BY <1>1, <1>2, PTL DEF Spec

\* The loop keeps to the ring protocol, whatever comes between its test of
\* tp_status and its use of the frame (source-af-packet.c:492-511).
THEOREM NoPollingImplementsRing == Spec => ImplementsRing
<1>1. Init => RingInit
  BY DEF Init
<1>2. TypeOK /\ ThreadInv /\ [Next]_vars => [RingNext]_ringVars
  BY NoPollingStepIsRingStep
<1> QED
  BY <1>1, <1>2, NoPollingInvariant, PTL DEF Spec, RingSpec, ImplementsRing

\* The loop hands the frames to ProcessPacket in order, each once and whole
\* (source-af-packet.c:503-511).
COROLLARY NoPollingFifo == Spec => []FifoExactlyOnce
  BY NoPollingImplementsRing, RingFifo, PTL DEF ImplementsRing
=============================================================================
