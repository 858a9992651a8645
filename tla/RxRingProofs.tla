---------------------------- MODULE RxRingProofs ----------------------------
(***************************************************************************)
(* The ring protocol keeps RingInv for every number of slots, CPUs and     *)
(* frames.                                                                 *)
(***************************************************************************)
EXTENDS RxRing, FiniteSetTheorems, FunctionTheorems, TLAPS

\* frame_num = (frame_num + 1) % NUM_FRAMES walks the slots in the order in
\* which the kernel's head does (source-af-packet.c:511, 634).
LEMMA NextSlotWraps ==
    ASSUME NEW s \in Slots
    PROVE  (s + 1) % NumFrames = SlotAfter(s)
<1>1. CASE s = NumFrames - 1
  BY <1>1, RingAssumption, SMTT(30) DEF Slots, SlotAfter
<1>2. CASE s < NumFrames - 1
  BY <1>2, RingAssumption, SMTT(30) DEF Slots, SlotAfter
<1> QED
  BY <1>1, <1>2, RingAssumption DEF Slots

LEMMA RingTypingStep == RingTypeOK /\ [RingNext]_ringVars => RingTypeOK'
<1> USE RingAssumption DEF RingTypeOK, Slots
<1> SUFFICES ASSUME RingTypeOK, [RingNext]_ringVars
             PROVE  RingTypeOK'
  OBVIOUS
<1> USE DEF userVars, kernelVars
<1>1. ASSUME NEW c \in Cpus, KernelReserve(c)
      PROVE  RingTypeOK'
  BY <1>1 DEF KernelReserve, SlotAfter
<1>2. ASSUME NEW c \in Cpus, NEW s \in Slots, KernelFill(c, s)
      PROVE  RingTypeOK'
  BY <1>2 DEF KernelFill
<1>3. CASE KernelDrop
  BY <1>3 DEF KernelDrop
<1>4. CASE LinkDown
  BY <1>4 DEF LinkDown
<1>5. CASE LinkUp
  BY <1>5 DEF LinkUp
<1>6. CASE ProcessFrame
  BY <1>6 DEF ProcessFrame
<1>7. CASE ReleaseFrame
  <2>1. frame_num' \in Slots
    BY <1>7, NextSlotWraps DEF ReleaseFrame, SlotAfter
  <2> QED
    BY <1>7, <2>1 DEF ReleaseFrame
<1>8. CASE CloseRing
  BY <1>8 DEF CloseRing
<1>9. CASE UNCHANGED ringVars
  BY <1>9 DEF ringVars
<1> QED
  BY <1>1, <1>2, <1>3, <1>4, <1>5, <1>6, <1>7, <1>8, <1>9
     DEF RingNext, Kernel, RingReader

LEMMA RingTypingInit == RingInit => RingTypeOK
<1> SUFFICES ASSUME RingInit
             PROVE  RingTypeOK
  OBVIOUS
<1>1. 0 \in Slots /\ handled \in Seq(Nat)
  BY RingAssumption DEF RingInit, Slots
<1> QED
  BY <1>1 DEF RingInit, RingTypeOK

\* Every variable of the ring keeps its type.
LEMMA RingTyping == RingSpec => []RingTypeOK
  BY RingTypingInit, RingTypingStep, PTL DEF RingSpec
-----------------------------------------------------------------------------
\* The scalar part of typing, all that the arithmetic of the window needs.
LEMMA ScalarTypes ==
    ASSUME RingTypeOK
    PROVE  /\ enq \in Nat /\ Len(handled) \in Nat
           /\ frame_num \in 0 .. NumFrames - 1
           /\ head \in 0 .. NumFrames - 1
           /\ NumFrames \in Nat /\ NumFrames >= 1
  BY RingAssumption DEF RingTypeOK, Slots

\* Where slots are relative to the window, and where the head is in it.
LEMMA AheadFacts ==
    ASSUME RingTypeOK
    PROVE  /\ \A s \in Slots : Ahead(s) \in 0 .. NumFrames - 1
           /\ Ahead(frame_num) = 0
           /\ \A s, t \in Slots : Ahead(s) = Ahead(t) => s = t
  BY ScalarTypes DEF Slots, Ahead

LEMMA HeadIsWindowEnd ==
    ASSUME RingTypeOK, WindowOK
    PROVE  /\ InRing < NumFrames => Ahead(head) = InRing
           /\ InRing = NumFrames => Ahead(head) = 0
  BY ScalarTypes DEF WindowOK, Ahead

\* The counts of the window are integers, and add up to the frames accepted.
LEMMA WindowCounts ==
    ASSUME RingTypeOK
    PROVE  InRing \in Int /\ Released \in Int /\ enq = Released + InRing
  BY ScalarTypes DEF InRing, Released

\* The kernel's own test of the slot at the head finds it free exactly when
\* the ring is not full.
LEMMA FreeHeadIffNotFull ==
    ASSUME RingTypeOK, RingInv
    PROVE  HeadIsFree <=> InRing < NumFrames
<1>1. head \in Slots /\ SlotOK(head)
  BY DEF RingInv, RingTypeOK
<1>2. InRing \in 0 .. NumFrames
  BY DEF RingInv, WindowOK
<1>3. CASE InRing < NumFrames
  BY <1>1, <1>2, <1>3, HeadIsWindowEnd DEF RingInv, SlotOK, HeadIsFree
<1>4. CASE InRing = NumFrames
  BY <1>1, <1>2, <1>4, HeadIsWindowEnd, RingAssumption
     DEF RingInv, SlotOK, HeadIsFree
<1> QED
  BY <1>2, <1>3, <1>4, RingAssumption

LEMMA RingInvInit == RingInit => RingInv
  BY RingAssumption
     DEF RingInit, RingInv, WindowOK, SlotOK, OneSlotPerCpu, Slots, Ahead,
         InRing, Released

LEMMA RingInvStep == RingTypeOK /\ RingTypeOK' /\ RingInv /\ [RingNext]_ringVars => RingInv'
<1> SUFFICES ASSUME RingTypeOK, RingTypeOK', RingInv, [RingNext]_ringVars
             PROVE  RingInv'
  OBVIOUS
<1> USE RingAssumption
<1>1. ASSUME NEW c \in Cpus, KernelReserve(c)
      PROVE  RingInv'
  <2>1. InRing < NumFrames /\ Ahead(head) = InRing
    BY <1>1, FreeHeadIffNotFull, HeadIsWindowEnd DEF KernelReserve, RingInv
  <2>2. /\ InRing' = InRing + 1
        /\ Released' = Released
        /\ \A s \in Slots : Ahead(s)' = Ahead(s)
    BY <1>1 DEF KernelReserve, userVars, InRing, Released, Ahead, RingTypeOK
  <2>3. WindowOK'
    BY <1>1, <2>1, <2>2
       DEF KernelReserve, userVars, RingInv, WindowOK, SlotAfter, RingTypeOK, Slots
  <2>4. ASSUME NEW s \in Slots
        PROVE  SlotOK(s)'
    <3>1. CASE s = head
      <4>1. status'[s] = "kernel" /\ owner'[s] = c /\ skb'[c] = enq + 1
        BY <1>1, <3>1 DEF KernelReserve, HeadIsFree, RingTypeOK
      <4>2. Ahead(s)' < InRing' /\ Released' + Ahead(s)' + 1 = enq + 1
        BY <2>1, <2>2, <3>1, WindowCounts
      <4> QED
        BY <4>1, <4>2 DEF SlotOK
    <3>2. CASE s # head
      <4>1. Ahead(s) \in Nat /\ Ahead(s) # InRing
        <5>1. head \in Slots
          BY DEF RingTypeOK
        <5>2. Ahead(s) \in 0 .. NumFrames - 1 /\ Ahead(s) # Ahead(head)
          BY <3>2, <5>1, AheadFacts
        <5> QED
          BY <2>1, <5>2
      <4>2. SlotOK(s) /\ owner[s] # c
        BY <1>1 DEF RingInv, KernelReserve, Idle
      <4> QED
        <5>1. /\ status'[s] = status[s]
              /\ owner'[s] = owner[s]
              /\ data'[s] = data[s]
              /\ owner[s] # NoCpu => skb'[owner[s]] = skb[owner[s]]
          BY <1>1, <3>2, <4>2 DEF KernelReserve, RingTypeOK
        <5>2. Ahead(s)' < InRing' <=> Ahead(s) < InRing
          BY <2>2, <4>1, WindowCounts
        <5> QED
          BY <2>2, <4>2, <5>1, <5>2 DEF SlotOK
    <3> QED
      BY <3>1, <3>2
  <2>5. OneSlotPerCpu'
    BY <1>1 DEF KernelReserve, Idle, RingInv, OneSlotPerCpu, RingTypeOK
  <2> QED
    BY <2>3, <2>4, <2>5 DEF RingInv
<1>2. ASSUME NEW c \in Cpus, NEW t \in Slots, KernelFill(c, t)
      PROVE  RingInv'
  <2>1. /\ InRing' = InRing
        /\ Released' = Released
        /\ \A s \in Slots : Ahead(s)' = Ahead(s)
    BY <1>2 DEF KernelFill, userVars, InRing, Released, Ahead
  <2>2. WindowOK'
    BY <1>2, <2>1 DEF KernelFill, userVars, RingInv, WindowOK, RingTypeOK
  <2>3. ASSUME NEW s \in Slots
        PROVE  SlotOK(s)'
    BY <1>2, <2>1 DEF KernelFill, RingInv, SlotOK, RingTypeOK
  <2>4. OneSlotPerCpu'
    BY <1>2 DEF KernelFill, RingInv, OneSlotPerCpu, RingTypeOK
  <2> QED
    BY <2>2, <2>3, <2>4 DEF RingInv
<1>3. ASSUME UNCHANGED <<status, data, owner, skb, head, enq, userVars>>
      PROVE  RingInv'
  BY <1>3 DEF userVars, RingInv, WindowOK, SlotOK, OneSlotPerCpu, InRing,
              Released, Ahead
<1>4. ASSUME ~holding, FrameReady, ProcessFrame
      PROVE  RingInv'
  <2>1. /\ InRing' = InRing
        /\ Released' = Released
        /\ \A s \in Slots : Ahead(s)' = Ahead(s)
    BY <1>4 DEF ProcessFrame, kernelVars, InRing, Released, Ahead, RingTypeOK
  <2>2. InRing > 0
    <3>1. SlotOK(frame_num) /\ Ahead(frame_num) = 0 /\ InRing \in Nat
      BY AheadFacts DEF RingInv, WindowOK, RingTypeOK
    <3> QED
      BY <1>4, <3>1 DEF FrameReady, SlotOK
  <2> QED
    BY <1>4, <2>1, <2>2
       DEF ProcessFrame, FrameReady, kernelVars, RingInv, WindowOK, SlotOK,
           OneSlotPerCpu
<1>5. ASSUME holding, ReleaseFrame
      PROVE  RingInv'
  <2>1. frame_num' = SlotAfter(frame_num)
    BY <1>5, NextSlotWraps DEF ReleaseFrame, RingTypeOK
  <2>2. InRing' = InRing - 1 /\ Released' = Released + 1
    BY <1>5 DEF ReleaseFrame, InRing, Released, RingTypeOK
  <2>3. ASSUME NEW s \in Slots
        PROVE  Ahead(s)' = IF s = frame_num THEN NumFrames - 1 ELSE Ahead(s) - 1
    <3>1. CASE frame_num = NumFrames - 1
      BY <2>1, <3>1, ScalarTypes DEF Ahead, SlotAfter, Slots
    <3>2. CASE frame_num < NumFrames - 1
      BY <2>1, <3>2, ScalarTypes DEF Ahead, SlotAfter, Slots
    <3> QED
      BY <3>1, <3>2, ScalarTypes
  <2>4. InRing \in 1 .. NumFrames
    BY <1>5 DEF RingInv, WindowOK
  <2>5. WindowOK'
    <3>1. /\ ~holding' /\ head' = head
          /\ InRing' \in 0 .. NumFrames
          /\ Released' >= 0
      BY <1>5, <2>2, <2>4, WindowCounts DEF ReleaseFrame, RingInv, WindowOK
    <3>2. head = (IF frame_num' + InRing' < NumFrames
                  THEN frame_num' + InRing' ELSE frame_num' + InRing' - NumFrames)
      BY <2>1, <2>2, <2>4 DEF RingInv, WindowOK, SlotAfter, RingTypeOK, Slots
    <3> QED
      BY <3>1, <3>2 DEF WindowOK
  <2>6. ASSUME NEW s \in Slots
        PROVE  SlotOK(s)'
    <3>1. CASE s = frame_num
      <4>1. owner[frame_num] = NoCpu
        BY <1>5 DEF RingInv, WindowOK, SlotOK, RingTypeOK
      <4>2. ~(Ahead(s)' < InRing')
        BY <2>2, <2>3, <2>4, <3>1, WindowCounts
      <4> QED
        BY <1>5, <3>1, <4>1, <4>2 DEF ReleaseFrame, SlotOK, RingTypeOK
    <3>2. CASE s # frame_num
      <4>1. Ahead(s) \in Nat /\ SlotOK(s) /\ Released \in Int
        BY AheadFacts DEF RingInv, Released, RingTypeOK
      <4> QED
        <5>1. /\ status'[s] = status[s]
              /\ UNCHANGED <<owner, data, skb>>
          BY <1>5, <3>2 DEF ReleaseFrame, RingTypeOK
        <5>2. /\ Ahead(s)' < InRing' <=> Ahead(s) < InRing
              /\ Released' + Ahead(s)' + 1 = Released + Ahead(s) + 1
          BY <2>2, <2>3, <2>4, <3>2, <4>1
        <5> QED
          BY <4>1, <5>1, <5>2 DEF SlotOK
    <3> QED
      BY <3>1, <3>2
  <2>7. OneSlotPerCpu'
    BY <1>5 DEF ReleaseFrame, RingInv, OneSlotPerCpu
  <2> QED
    BY <2>5, <2>6, <2>7 DEF RingInv
<1> QED
  BY <1>1, <1>2, <1>3, <1>4, <1>5
     DEF RingNext, Kernel, RingReader, KernelDrop, LinkDown, LinkUp, CloseRing,
         ringVars, userVars

\* The ownership protocol holds for every number of slots, CPUs and frames:
\* each slot is the kernel's, a CPU's or the sniffer's as the window says,
\* and holds or will hold the frame that is due in it
\* (source-af-packet.c:492-511, 617-634).
THEOREM RingInvariant == RingSpec => []RingInv
<1>1. RingInit => RingInv
  BY RingInvInit
<1>2. RingTypeOK /\ RingTypeOK' /\ RingInv /\ [RingNext]_ringVars => RingInv'
  BY RingInvStep
<1> QED
  BY <1>1, <1>2, RingTyping, PTL DEF RingSpec
-----------------------------------------------------------------------------
LEMMA FifoStep ==
    ASSUME RingTypeOK, RingTypeOK', RingInv, RingInv', FifoExactlyOnce,
           [RingNext]_ringVars
    PROVE  FifoExactlyOnce'
<1>1. CASE ~holding /\ FrameReady /\ ProcessFrame
  <2>1. data[frame_num] = Len(handled) + 1
    <3>1. SlotOK(frame_num) /\ Ahead(frame_num) = 0 /\ InRing > 0
      BY AheadFacts, WindowCounts, <1>1
         DEF RingInv, WindowOK, RingTypeOK, SlotOK, FrameReady
    <3>2. status[frame_num] = "user" /\ Released = Len(handled)
      BY <1>1, ScalarTypes DEF FrameReady, Released
    <3> QED
      BY <3>1, <3>2, ScalarTypes DEF SlotOK
  <2>2. Len(handled)' <= enq'
    BY <1>1 DEF RingInv, WindowOK, InRing, Released, ProcessFrame, kernelVars,
                RingTypeOK
  <2> QED
    BY <1>1, <2>1, <2>2 DEF ProcessFrame, FifoExactlyOnce, RingTypeOK
<1>2. ASSUME UNCHANGED handled, enq' >= enq
      PROVE  FifoExactlyOnce'
  <2>1. Len(handled) \in Nat /\ enq \in Nat /\ enq' \in Nat
    BY DEF RingTypeOK
  <2> QED
    BY <1>2, <2>1 DEF FifoExactlyOnce
<1> QED
  BY <1>1, <1>2
     DEF RingNext, Kernel, RingReader, KernelReserve, KernelFill, KernelDrop,
         LinkDown, LinkUp, ReleaseFrame, CloseRing, ringVars, userVars, RingTypeOK

\* Frames reach ProcessPacket in the order of acceptance, each once and
\* whole, for every ring size and every number of CPUs that fill it
\* (source-af-packet.c:504-511, 627-634).
THEOREM RingFifo == RingSpec => []FifoExactlyOnce
<1>1. RingInit => FifoExactlyOnce
  BY DEF RingInit, FifoExactlyOnce
<1>2. RingTypeOK /\ RingTypeOK' /\ RingInv /\ RingInv' /\ FifoExactlyOnce
        /\ [RingNext]_ringVars
        => FifoExactlyOnce'
  BY FifoStep
<1> QED
  BY <1>1, <1>2, RingTyping, RingInvariant, PTL DEF RingSpec

\* The frame being processed is never overwritten by the kernel
\* (source-af-packet.c:503-510, 626-633).
THEOREM RingFrameStable == RingSpec => []FrameStableInUse
<1>1. RingTypeOK /\ RingInv /\ FifoExactlyOnce => FrameStableInUse
  <2> SUFFICES ASSUME RingTypeOK, RingInv, FifoExactlyOnce, holding
               PROVE  owner[frame_num] = NoCpu /\ data[frame_num] = handled[Len(handled)]
    BY DEF FrameStableInUse
  <2>1. /\ SlotOK(frame_num)
        /\ Ahead(frame_num) = 0
        /\ InRing > 0
        /\ status[frame_num] = "user"
    BY AheadFacts DEF RingInv, WindowOK, RingTypeOK
  <2>2. owner[frame_num] = NoCpu /\ data[frame_num] = Len(handled)
    BY <2>1 DEF SlotOK, Released, RingTypeOK
  <2>3. Len(handled) > 0
    BY DEF RingInv, WindowOK, Released, RingTypeOK
  <2> QED
    BY <2>2, <2>3 DEF FifoExactlyOnce, RingTypeOK
<1> QED
  BY <1>1, RingTyping, RingInvariant, RingFifo, PTL

\* The kernel drops a frame only while all slots are in use: however the
\* sniffer and the CPUs interleave, the head never meets a busy slot while
\* another one is free (source-af-packet.c:510-511, 633-634).
THEOREM RingLosesOnlyWhenFull == RingSpec => LostOnlyWhenFull
<1>1. RingTypeOK /\ RingInv /\ [RingNext]_ringVars
        => [lost' # lost => InRing = NumFrames]_ringVars
  <2> SUFFICES ASSUME RingTypeOK, RingInv, RingNext, lost' # lost
               PROVE  InRing = NumFrames
    OBVIOUS
  <2>1. KernelDrop
    BY DEF RingNext, Kernel, RingReader, KernelReserve, KernelFill, LinkDown,
           LinkUp, ProcessFrame, ReleaseFrame, CloseRing, kernelVars
  <2>2. ~(InRing < NumFrames) /\ InRing \in 0 .. NumFrames
    BY <2>1, FreeHeadIffNotFull DEF KernelDrop, RingInv, WindowOK
  <2> QED
    BY <2>2, RingAssumption
<1> QED
  BY <1>1, RingTyping, RingInvariant, PTL DEF RingSpec, LostOnlyWhenFull

\* Counting the slots in use counts the window: the slot `a` places ahead of
\* frame_num, for a below InRing, is a bijection onto them.
LEMMA SlotsInUseCount ==
    ASSUME RingTypeOK, RingInv
    PROVE  Cardinality(SlotsInUse) = InRing
<1> DEFINE at(a) == IF frame_num + a < NumFrames THEN frame_num + a
                    ELSE frame_num + a - NumFrames
           window == 0 .. InRing - 1
           f == [a \in window |-> at(a)]
<1>1. InRing \in Nat /\ InRing <= NumFrames
  BY ScalarTypes DEF RingInv, WindowOK
<1>2. \A s \in Slots : s \in SlotsInUse <=> Ahead(s) < InRing
  BY DEF RingInv, SlotOK, SlotsInUse
<1>3. \A a \in window : at(a) \in Slots /\ Ahead(at(a)) = a
  BY <1>1, ScalarTypes DEF Slots, Ahead
<1>4. \A s \in SlotsInUse : Ahead(s) \in window /\ at(Ahead(s)) = s
  <2> SUFFICES ASSUME NEW s \in SlotsInUse
               PROVE  Ahead(s) \in window /\ at(Ahead(s)) = s
    OBVIOUS
  <2>1. s \in Slots /\ Ahead(s) < InRing
    BY <1>2 DEF SlotsInUse
  <2>2. Ahead(s) \in 0 .. NumFrames - 1
    BY <2>1, AheadFacts
  <2>3. at(Ahead(s)) = s
    BY <2>1, ScalarTypes DEF Slots, Ahead
  <2> QED
    BY <1>1, <2>1, <2>2, <2>3
<1>5. f \in [window -> SlotsInUse]
  BY <1>1, <1>2, <1>3
<1>6. \A a, b \in window : f[a] = f[b] => a = b
  BY <1>3
<1>7. \A s \in SlotsInUse : \E a \in window : f[a] = s
  BY <1>4
<1>8. f \in Bijection(window, SlotsInUse)
  BY <1>5, <1>6, <1>7, Fun_IsBij
<1>9. ExistsBijection(window, SlotsInUse)
  BY <1>8 DEF ExistsBijection
<1>10. IsFiniteSet(window) /\ Cardinality(window) = InRing
  BY <1>1, FS_Interval
<1> QED
  BY <1>9, <1>10, FS_Bijection

\* Every accepted and unreleased frame is in a slot of its own, for every
\* ring size (source-af-packet.c:510-511, 633-634).
THEOREM RingLeaksNoFrame == RingSpec => []NoFrameLeaked
<1>1. RingTypeOK /\ RingInv => NoFrameLeaked
  BY SlotsInUseCount DEF NoFrameLeaked
<1> QED
  BY <1>1, RingTyping, RingInvariant, PTL
-----------------------------------------------------------------------------
(* The ring implements the lossy FIFO.                                     *)

\* The frames k+1 .. k+n as a sequence, and what Append, Head and Tail make
\* of it.
Frames(k, n) == [i \in 1 .. n |-> k + i]

LEMMA FramesAppend ==
    ASSUME NEW k \in Nat, NEW n \in Nat
    PROVE  Frames(k, n + 1) = Append(Frames(k, n), k + n + 1)
  BY SMTT(30) DEF Frames

LEMMA FramesTail ==
    ASSUME NEW k \in Nat, NEW n \in Nat, n > 0
    PROVE  /\ Frames(k, n) # <<>>
           /\ Head(Frames(k, n)) = k + 1
           /\ Tail(Frames(k, n)) = Frames(k + 1, n - 1)
  BY SMTT(30) DEF Frames

LEMMA FramesLen ==
    ASSUME NEW k \in Nat, NEW n \in Nat
    PROVE  Len(Frames(k, n)) = n
  BY DEF Frames

\* Every step of the ring is a step of the FIFO or leaves it unchanged.
LEMMA QueueStep ==
    ASSUME RingTypeOK, RingTypeOK', RingInv, RingInv', FifoExactlyOnce,
           FifoExactlyOnce', [RingNext]_ringVars
    PROVE  [Queue!Next]_(Queue!vars)
<1> DEFINE n == enq - Len(handled)
           k == Len(handled)
           queue == Frames(k, n)
<1>1. /\ n \in Nat /\ k \in Nat /\ n' \in Nat /\ enq \in Nat /\ enq' \in Nat
      /\ Len(queue) = n
      /\ Queue!Taken = InRing
  <2>1. enq \in Nat /\ enq' \in Nat /\ k \in Nat /\ k' \in Nat /\ k <= enq /\ k' <= enq'
    BY DEF RingTypeOK, FifoExactlyOnce
  <2>2. n \in Nat /\ n' \in Nat
    BY <2>1
  <2>3. Len(queue) = n
    BY <2>1, <2>2, FramesLen
  <2>4. Queue!Taken = n + (IF holding THEN 1 ELSE 0)
    BY <2>3 DEF Queue!Taken, Frames
  <2> QED
    BY <2>1, <2>2, <2>3, <2>4 DEF InRing, Released
<1>2. ASSUME NEW c \in Cpus, KernelReserve(c)
      PROVE  Queue!Accept
  <2>1. InRing < NumFrames
    BY <1>2, FreeHeadIffNotFull DEF KernelReserve
  <2>2. queue' = Append(queue, k + n + 1)
    <3>1. n' = n + 1 /\ k' = k
      BY <1>1, <1>2 DEF KernelReserve, userVars
    <3>2. queue' = Frames(k, n + 1)
      BY <3>1
    <3> QED
      BY <1>1, <3>2, FramesAppend
  <2> QED
    BY <1>1, <1>2, <2>1, <2>2 DEF KernelReserve, userVars, Queue!Accept, Frames
<1>3. ASSUME KernelDrop
      PROVE  Queue!Lose
  <2>1. InRing = NumFrames
    BY <1>3, FreeHeadIffNotFull, RingAssumption DEF KernelDrop, RingInv, WindowOK
  <2> QED
    BY <1>1, <1>3, <2>1 DEF KernelDrop, userVars, Queue!Lose
<1>4. ASSUME ~holding, FrameReady, ProcessFrame
      PROVE  Queue!Handle(TRUE)
  <2>1. handled' = Append(handled, k + 1) /\ k' = k + 1 /\ enq' = enq
    BY <1>1, <1>4 DEF ProcessFrame, kernelVars, FifoExactlyOnce, RingTypeOK
  <2>2. n > 0 /\ n' = n - 1
    BY <1>1, <2>1
  <2>3. queue # <<>> /\ Head(queue) = k + 1 /\ queue' = Tail(queue)
    BY <1>1, <2>1, <2>2, FramesTail
  <2> QED
    BY <1>4, <2>1, <2>3 DEF ProcessFrame, kernelVars, Queue!Handle, Frames
<1>5. ASSUME holding, ReleaseFrame
      PROVE  Queue!FreePlace
  BY <1>5 DEF ReleaseFrame, Queue!FreePlace
<1>6. ASSUME UNCHANGED <<enq, lost, userVars>>
      PROVE  UNCHANGED Queue!vars
  BY <1>6 DEF userVars, Queue!vars
<1> QED
  BY <1>2, <1>3, <1>4, <1>5, <1>6
     DEF RingNext, Kernel, RingReader, KernelFill, LinkDown, LinkUp, CloseRing,
         ringVars, userVars, Queue!Next

\* The ring is a FIFO of NumFrames places that loses frames only when it is
\* full and in which the frame in hand keeps its place until it is released
\* (source-af-packet.c:492-511, 617-634).
THEOREM RingImplementsQueue == RingSpec => ImplementsQueue
<1>1. RingInit => Queue!Init
  BY DEF RingInit, Queue!Init
<1>2. RingTypeOK /\ RingTypeOK' /\ RingInv /\ RingInv' /\ FifoExactlyOnce
        /\ FifoExactlyOnce' /\ [RingNext]_ringVars
        => [Queue!Next]_(Queue!vars)
  BY QueueStep
<1> QED
  BY <1>1, <1>2, RingTyping, RingInvariant, RingFifo, PTL
     DEF RingSpec, ImplementsQueue, Queue!Spec
=============================================================================
