---------------------------- MODULE RingNoPolling ----------------------------
(***************************************************************************)
(* AFPPacketProcessUsingRingBufferNoPolling: the ring loop that looks at   *)
(* tp_status and sleeps a millisecond when the slot is not ready.  main.c  *)
(* keeps the call in a comment; the function is the same ring consumer     *)
(* without poll().                                                         *)
(*                                                                         *)
(* pc names the next step of the thread:                                   *)
(*   "while"    the test of `running`               (line 489)             *)
(*   "header"   the test of tp_status               (lines 492-500)        *)
(*   "process"  ProcessPacket and the statistics    (lines 503-507)        *)
(*   "release"  the frame back to the kernel        (lines 510-511)        *)
(*   "exit"     print_stats, munmap, close          (lines 515-518)        *)
(*   "done"     the function has returned                                  *)
(***************************************************************************)
EXTENDS RxRing

VARIABLES
    running,            \* the flag of main.c
    pc,
    packets_processed,  \* stats.packets_processed
    report              \* the totals print_stats printed

threadVars == <<running, pc, packets_processed, report>>
vars == <<status, data, owner, skb, head, enq, lost, hook, skErr, frame_num,
          holding, handled, running, pc, packets_processed, report>>

Init ==
    /\ RingInit
    /\ running = TRUE
    /\ pc = "while"
    /\ packets_processed = 0
    /\ report = <<>>
-----------------------------------------------------------------------------
TestRunning ==
    /\ pc = "while"
    /\ pc' = IF running THEN "header" ELSE "exit"
    /\ UNCHANGED <<ringVars, running, packets_processed, report>>

\* Seeded bugs: no test, a wait that does not test `running`, and a break
\* where the loop should wait.
TestStatusSkipped ==
    /\ pc = "header"
    /\ pc' = "process"
    /\ UNCHANGED <<ringVars, running, packets_processed, report>>
TestStatusSpins ==
    /\ pc = "header"
    /\ pc' = IF FrameReady THEN "process" ELSE "header"
    /\ UNCHANGED <<ringVars, running, packets_processed, report>>
TestStatusBreaks ==
    /\ pc = "header"
    /\ pc' = IF FrameReady THEN "process" ELSE "exit"
    /\ UNCHANGED <<ringVars, running, packets_processed, report>>

\* Not ready: usleep(1000) and continue.
TestStatus ==
    /\ pc = "header"
    /\ pc' = IF FrameReady THEN "process" ELSE "while"
    /\ UNCHANGED <<ringVars, running, packets_processed, report>>

Process ==
    /\ pc = "process"
    /\ ProcessFrame
    /\ packets_processed' = packets_processed + 1
    /\ pc' = "release"
    /\ UNCHANGED <<running, report>>

Release ==
    /\ pc = "release"
    /\ ReleaseFrame
    /\ pc' = "while"
    /\ UNCHANGED <<running, packets_processed, report>>

Exit ==
    /\ pc = "exit"
    /\ report' = Append(report, packets_processed)
    /\ CloseRing
    /\ pc' = "done"
    /\ UNCHANGED <<running, packets_processed>>

Thread ==
    \/ TestRunning
    \/ TestStatus
    \/ Process
    \/ Release
    \/ Exit

\* SIGTERM or SIGINT; usleep() returning early changes nothing else.
Signal ==
    /\ running' = FALSE
    /\ UNCHANGED <<ringVars, pc, packets_processed, report>>

Next ==
    \/ Kernel /\ UNCHANGED threadVars
    \/ Thread
    \/ Signal

\* The scheduler runs the thread and a CPU that reserved a slot ends its copy.
Fairness ==
    /\ WF_vars(Thread)
    /\ \A c \in Cpus : WF_vars(\E s \in Slots : KernelFill(c, s) /\ UNCHANGED threadVars)

Spec == Init /\ [][Next]_vars
FairSpec == Spec /\ Fairness
-----------------------------------------------------------------------------
(* Properties.                                                             *)

ThreadTypeOK ==
    /\ running \in BOOLEAN
    /\ pc \in {"while", "header", "process", "release", "exit", "done"}
    /\ packets_processed \in Nat
    /\ report \in Seq(Nat)

\* Type correctness of the ring and of the thread that reads it
\* (source-af-packet.c:483-519).
TypeOK == RingTypeOK /\ ThreadTypeOK

\* What the steps of the thread may rely on: a slot that tested ready stays
\* ready until this thread releases it, and the statistics count exactly the
\* frames that were processed (source-af-packet.c:492-511).
ThreadInv ==
    /\ holding <=> pc = "release"
    /\ pc = "process" => FrameReady
    /\ hook = "closed" <=> pc = "done"
    /\ packets_processed = Len(handled)
    /\ report = (IF pc = "done" THEN <<packets_processed>> ELSE <<>>)

\* The loop keeps to the ring protocol: it reads and releases only a slot
\* the kernel gave to it (source-af-packet.c:492-511).
ImplementsRing == RingSpec

\* A terminal signal ends the capture with printed statistics
\* (source-af-packet.c:489, 515, main.c:33-38).
SignalEndsCapture == ~running ~> (pc = "done" /\ report # <<>>)

\* Every frame the kernel accepts is processed unless a signal ends the
\* capture first, however many CPUs fill slots out of order and whatever
\* the link does: this loop waits where the polling loop gives up
\* (source-af-packet.c:497-511).
FramesProcessed ==
    \A k \in 1 .. MaxArrivals : (enq >= k) ~> (Len(handled) >= k \/ ~running)
=============================================================================
