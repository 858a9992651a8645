------------------------------- MODULE RxRing -------------------------------
(***************************************************************************)
(* The PACKET_RX_RING shared by the kernel and the sniffer: NumFrames      *)
(* frame slots in a mapping that both write, with the ownership of each    *)
(* slot carried by its tp_status word and nothing else.                    *)
(*                                                                         *)
(* The kernel side is the packet socket as source-af-packet.c uses it: a   *)
(* CPU reserves the slot at the kernel's head if that slot is the kernel's *)
(* and no other CPU is filling it, copies the frame, and only then sets    *)
(* TP_STATUS_USER.  Several CPUs copy at once, so slots can become ready   *)
(* out of order.  The user side is what the two ring loops of              *)
(* source-af-packet.c do to the ring: process the frame at frame_num,      *)
(* store TP_STATUS_KERNEL, advance frame_num; when a loop looks at a slot, *)
(* and when it stops, is in RingPolling and RingNoPolling.                 *)
(*                                                                         *)
(* Frames are numbered in the order in which the kernel accepts them.  A   *)
(* slot holds a frame number; 0 stands for bytes no frame was copied to.   *)
(***************************************************************************)
EXTENDS Integers, Sequences, FiniteSets

CONSTANTS
    NumFrames,      \* NUM_FRAMES, the number of slots
    Cpus,           \* the CPUs that run the kernel's receive path
    NoCpu,          \* "no CPU is filling this slot"
    MaxArrivals     \* bound: frames offered to the socket in a behaviour

ASSUME RingAssumption ==
    /\ NumFrames \in Nat \ {0}
    /\ NoCpu \notin Cpus
    /\ MaxArrivals \in Nat

Slots == 0 .. NumFrames - 1

VARIABLES
    status,     \* tp_status of each slot: "kernel" or "user"
    data,       \* the frame whose bytes each slot holds
    owner,      \* the CPU that reserved each slot and is filling it
    skb,        \* the frame each CPU is copying, or copied last
    head,       \* the slot the kernel reserves next
    enq,        \* frames accepted so far
    lost,       \* frames refused because the ring was full (tp_drops)
    hook,       \* is the socket receiving? "on", "down" or "closed"
    skErr,      \* sk_err of the socket: set when the interface goes down
    frame_num,  \* the slot the sniffer looks at next
    holding,    \* is the sniffer between reading that slot and releasing it?
    handled     \* the frames given to ProcessPacket, in order

kernelVars == <<status, data, owner, skb, head, enq, lost, hook, skErr>>
userVars == <<frame_num, holding, handled>>
ringVars == <<status, data, owner, skb, head, enq, lost, hook, skErr,
              frame_num, holding, handled>>

RingInit ==
    /\ status = [s \in Slots |-> "kernel"]
    /\ data = [s \in Slots |-> 0]
    /\ owner = [s \in Slots |-> NoCpu]
    /\ skb = [c \in Cpus |-> 0]
    /\ head = 0
    /\ enq = 0
    /\ lost = 0
    /\ hook = "on"
    /\ skErr = FALSE
    /\ frame_num = 0
    /\ holding = FALSE
    /\ handled = <<>>
-----------------------------------------------------------------------------
(* The kernel.                                                             *)

SlotAfter(s) == IF s = NumFrames - 1 THEN 0 ELSE s + 1
SlotBefore(s) == IF s = 0 THEN NumFrames - 1 ELSE s - 1

Idle(c) == \A s \in Slots : owner[s] # c
HeadIsFree == status[head] = "kernel" /\ owner[head] = NoCpu

\* A frame arrives on CPU c, which reserves the slot at the head for it.
KernelReserve(c) ==
    /\ enq + lost < MaxArrivals
    /\ hook = "on"
    /\ Idle(c)
    /\ HeadIsFree
    /\ enq' = enq + 1
    /\ owner' = [owner EXCEPT ![head] = c]
    /\ skb' = [skb EXCEPT ![c] = enq + 1]
    /\ head' = SlotAfter(head)
    /\ UNCHANGED <<status, data, lost, hook, skErr, userVars>>

\* A frame arrives and the slot at the head is not free: it is dropped.
KernelDrop ==
    /\ enq + lost < MaxArrivals
    /\ hook = "on"
    /\ ~HeadIsFree
    /\ lost' = lost + 1
    /\ UNCHANGED <<status, data, owner, skb, head, enq, hook, skErr, userVars>>

\* CPU c ends its copy into slot s and gives the slot to the user.
KernelFill(c, s) ==
    /\ owner[s] = c
    /\ data' = [data EXCEPT ![s] = skb[c]]
    /\ status' = [status EXCEPT ![s] = "user"]
    /\ owner' = [owner EXCEPT ![s] = NoCpu]
    /\ UNCHANGED <<skb, head, enq, lost, hook, skErr, userVars>>

\* The bound interface goes down: the socket stops receiving, and every
\* poll from then on reports POLLERR, also after the interface is up again.
LinkDown ==
    /\ hook = "on"
    /\ hook' = "down"
    /\ skErr' = TRUE
    /\ UNCHANGED <<status, data, owner, skb, head, enq, lost, userVars>>

LinkUp ==
    /\ hook = "down"
    /\ hook' = "on"
    /\ UNCHANGED <<status, data, owner, skb, head, enq, lost, skErr, userVars>>

Kernel ==
    \/ \E c \in Cpus : KernelReserve(c)
    \/ \E c \in Cpus, s \in Slots : KernelFill(c, s)
    \/ KernelDrop
    \/ LinkDown
    \/ LinkUp

\* What poll() finds for this socket.  POLLIN: the last slot the kernel
\* reserved is no longer the kernel's.
PollEvents ==
    (IF status[SlotBefore(head)] # "kernel" THEN {"POLLIN"} ELSE {})
        \cup (IF skErr THEN {"POLLERR"} ELSE {})
-----------------------------------------------------------------------------
(* The sniffer.                                                            *)

FrameReady == status[frame_num] = "user"

\* Seeded bug: the slot is given back before the frame is processed.
ProcessFrameTooLate ==
    /\ handled' = Append(handled, data[frame_num])
    /\ holding' = TRUE
    /\ status' = [status EXCEPT ![frame_num] = "kernel"]
    /\ UNCHANGED <<data, owner, skb, head, enq, lost, hook, skErr, frame_num>>

\* ProcessPacket reads the frame where it lies, in the slot.
ProcessFrame ==
    /\ handled' = Append(handled, data[frame_num])
    /\ holding' = TRUE
    /\ UNCHANGED <<kernelVars, frame_num>>

\* Seeded bugs: the store is forgotten, and the advance is forgotten.
ReleaseFrameNoStore ==
    /\ frame_num' = (frame_num + 1) % NumFrames
    /\ holding' = FALSE
    /\ UNCHANGED <<kernelVars, handled>>
ReleaseFrameNoAdvance ==
    /\ status' = [status EXCEPT ![frame_num] = "kernel"]
    /\ holding' = FALSE
    /\ UNCHANGED <<data, owner, skb, head, enq, lost, hook, skErr, frame_num, handled>>

\* tp_status = TP_STATUS_KERNEL, and on to the next slot.  frame_num is a
\* local of the loop, so storing and advancing are one step.
ReleaseFrame ==
    /\ status' = [status EXCEPT ![frame_num] = "kernel"]
    /\ frame_num' = (frame_num + 1) % NumFrames
    /\ holding' = FALSE
    /\ UNCHANGED <<data, owner, skb, head, enq, lost, hook, skErr, handled>>

\* munmap and close: nothing arrives any more.
CloseRing ==
    /\ hook' = "closed"
    /\ UNCHANGED <<status, data, owner, skb, head, enq, lost, skErr, userVars>>

\* A reader that keeps to the protocol takes only a slot that is its own.
RingReader ==
    /\ hook # "closed"
    /\ \/ ~holding /\ FrameReady /\ ProcessFrame
       \/ holding /\ ReleaseFrame
       \/ ~holding /\ CloseRing

RingNext == Kernel \/ RingReader

RingSpec == RingInit /\ [][RingNext]_ringVars
-----------------------------------------------------------------------------
(* Properties.                                                             *)

\* Type correctness: frame_num and the kernel's head always name a slot
\* (source-af-packet.c:492, 511, 617, 634).
RingTypeOK ==
    /\ status \in [Slots -> {"kernel", "user"}]
    /\ data \in [Slots -> Nat]
    /\ owner \in [Slots -> Cpus \cup {NoCpu}]
    /\ skb \in [Cpus -> Nat]
    /\ head \in Slots
    /\ enq \in Nat
    /\ lost \in Nat
    /\ hook \in {"on", "down", "closed"}
    /\ skErr \in BOOLEAN
    /\ frame_num \in Slots
    /\ holding \in BOOLEAN
    /\ handled \in Seq(Nat)

\* The frames still in the ring: accepted and not released.
Released == Len(handled) - (IF holding THEN 1 ELSE 0)
InRing == enq - Released

\* How far slot s is ahead of the sniffer.
Ahead(s) == IF s >= frame_num THEN s - frame_num ELSE s - frame_num + NumFrames

\* The slots that are the sniffer's or being filled by a CPU.
SlotsInUse == {s \in Slots : status[s] = "user" \/ owner[s] # NoCpu}

\* The ring is a window of InRing slots that starts at frame_num and ends
\* before head, and the i-th slot of it is for the i-th unreleased frame.
WindowOK ==
    /\ Released >= 0
    /\ InRing \in 0 .. NumFrames
    /\ head = (IF frame_num + InRing < NumFrames
               THEN frame_num + InRing ELSE frame_num + InRing - NumFrames)
    /\ holding => InRing > 0 /\ status[frame_num] = "user"

SlotOK(s) ==
    LET frame == Released + Ahead(s) + 1
    IN  IF Ahead(s) < InRing
        THEN \/ status[s] = "user" /\ owner[s] = NoCpu /\ data[s] = frame
             \/ status[s] = "kernel" /\ owner[s] # NoCpu /\ skb[owner[s]] = frame
        ELSE status[s] = "kernel" /\ owner[s] = NoCpu

\* No CPU fills two slots at a time.
OneSlotPerCpu ==
    \A s, t \in Slots : owner[s] # NoCpu /\ owner[s] = owner[t] => s = t

\* The inductive invariant of the ring: which slots are whose, and which
\* frame each of them is for (source-af-packet.c:492-511 and 617-634).
RingInv ==
    /\ WindowOK
    /\ \A s \in Slots : SlotOK(s)
    /\ OneSlotPerCpu

\* The sniffer hands the frames to ProcessPacket in the order in which the
\* kernel accepted them, each exactly once, none torn or stale
\* (source-af-packet.c:504-511, 627-634), however the CPUs interleave and
\* however often frame_num and head wrap.
FifoExactlyOnce ==
    /\ Len(handled) <= enq
    /\ \A i \in 1 .. Len(handled) : handled[i] = i

\* While the sniffer reads a slot (between ProcessPacket and the store of
\* TP_STATUS_KERNEL) no CPU has reserved it, and it still holds the frame
\* that is being processed (source-af-packet.c:503-510, 626-633).
FrameStableInUse ==
    holding => /\ owner[frame_num] = NoCpu
               /\ data[frame_num] = handled[Len(handled)]

\* Every accepted frame that was not handled is still in some slot, ready
\* or being copied: no slot is leaked by the wrap of frame_num, and a full
\* ring holds NumFrames frames (source-af-packet.c:510-511, 633-634).
NoFrameLeaked == Cardinality(SlotsInUse) = InRing

\* A step loses a frame only when all NumFrames slots are in use: the
\* sniffer's release order never leaves the kernel's head blocked by a
\* slot while others are free (source-af-packet.c:510-511, 633-634).
LostOnlyWhenFull == [][lost' # lost => InRing = NumFrames]_ringVars

\* The ring implements the lossy FIFO: a frame keeps its place while it is
\* in the sniffer's hand, and gives it back when the slot is released.
Queue == INSTANCE CaptureQueue WITH
            Capacity <- NumFrames,
            queue <- [i \in 1 .. enq - Len(handled) |-> Len(handled) + i],
            inHand <- holding

ImplementsQueue == Queue!Spec
=============================================================================
