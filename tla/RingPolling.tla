----------------------------- MODULE RingPolling -----------------------------
(***************************************************************************)
(* AFPPacketProcessUsingRingBufferPolling: the loop of `sniff_packet ring`.*)
(* One thread waits in poll() for the ring and takes one frame per turn;   *)
(* SIGTERM and SIGINT clear `running` from a handler that can run between  *)
(* any two of its steps or interrupt poll().                               *)
(*                                                                         *)
(* pc names the next step of the thread:                                   *)
(*   "while"    the test of `running`               (line 604)             *)
(*   "poll"     about to call poll(), or in it      (line 607)             *)
(*   "header"   the test of tp_status               (lines 617-623)        *)
(*   "process"  ProcessPacket and the statistics    (lines 626-630)        *)
(*   "release"  the frame back to the kernel        (lines 633-634)        *)
(*   "exit"     print_stats, munmap, close          (lines 645-648)        *)
(*   "done"     the function has returned                                  *)
(***************************************************************************)
EXTENDS RxRing

VARIABLES
    running,            \* the flag of main.c
    pc,
    revents,            \* fds.revents, what poll() reported last
    packets_processed,  \* stats.packets_processed
    report              \* the totals print_stats printed

threadVars == <<running, pc, revents, packets_processed, report>>
vars == <<status, data, owner, skb, head, enq, lost, hook, skErr, frame_num,
          holding, handled, running, pc, revents, packets_processed, report>>

\* fds.events, set once before the loop.
events == {"POLLIN"}
PollFaultsOrInput == {"POLLIN", "POLLERR"}    \* seeded bug: a wrong mask
PollFaults == {"POLLHUP", "POLLRDHUP", "POLLERR", "POLLNVAL"}

Init ==
    /\ RingInit
    /\ running = TRUE
    /\ pc = "while"
    /\ revents = {}
    /\ packets_processed = 0
    /\ report = <<>>
-----------------------------------------------------------------------------
\* while (running)
TestRunning ==
    /\ pc = "while"
    /\ pc' = IF running THEN "poll" ELSE "exit"
    /\ UNCHANGED <<ringVars, running, revents, packets_processed, report>>

\* poll() returns r > 0.  The test that follows is on fds.events, the events
\* that were asked for, not on revents: its `continue` is never taken.
PollReturnsReady ==
    /\ pc = "poll"
    /\ PollEvents # {}
    /\ revents' = PollEvents
    /\ pc' = IF events \cap PollFaults # {} THEN "while" ELSE "header"
    /\ UNCHANGED <<ringVars, running, packets_processed, report>>

\* Seeded bugs: poll() without a timeout, and a timeout that is taken for
\* an event.
PollTimesOutNever == FALSE
PollTimesOutAsReady ==
    /\ pc = "poll"
    /\ PollEvents = {}
    /\ revents' = {}
    /\ pc' = "header"
    /\ UNCHANGED <<ringVars, running, packets_processed, report>>

\* POLL_TIMEOUT milliseconds without an event: r = 0, continue.
PollTimesOut ==
    /\ pc = "poll"
    /\ PollEvents = {}
    /\ revents' = {}
    /\ pc' = "while"
    /\ UNCHANGED <<ringVars, running, packets_processed, report>>

\* Seeded bug: POLLIN is taken to mean that this slot is ready.
TestStatusSkipped ==
    /\ pc = "header"
    /\ pc' = "process"
    /\ UNCHANGED <<ringVars, running, revents, packets_processed, report>>

\* A frame that is not ready ends the capture ("No more packets ready").
TestStatus ==
    /\ pc = "header"
    /\ pc' = IF FrameReady THEN "process" ELSE "exit"
    /\ UNCHANGED <<ringVars, running, revents, packets_processed, report>>

\* Seeded bug: a signal ends the loop with the frame still in hand.
ProcessThenStop ==
    /\ pc = "process"
    /\ ProcessFrame
    /\ packets_processed' = packets_processed + 1
    /\ pc' = IF running THEN "release" ELSE "exit"
    /\ UNCHANGED <<running, revents, report>>

Process ==
    /\ pc = "process"
    /\ ProcessFrame
    /\ packets_processed' = packets_processed + 1
    /\ pc' = "release"
    /\ UNCHANGED <<running, revents, report>>

Release ==
    /\ pc = "release"
    /\ ReleaseFrame
    /\ pc' = "while"
    /\ UNCHANGED <<running, revents, packets_processed, report>>

Exit ==
    /\ pc = "exit"
    /\ report' = Append(report, packets_processed)
    /\ CloseRing
    /\ pc' = "done"
    /\ UNCHANGED <<running, revents, packets_processed>>

Thread ==
    \/ TestRunning
    \/ PollReturnsReady
    \/ PollTimesOut
    \/ TestStatus
    \/ Process
    \/ Release
    \/ Exit

\* SIGTERM or SIGINT.  A signal that finds the thread asleep in poll() makes
\* it return -1 (EINTR), which breaks out of the loop; one that comes just
\* before the call, or when an event is pending, does not.
Signal ==
    /\ running' = FALSE
    /\ \/ pc' = pc
       \/ pc = "poll" /\ PollEvents = {} /\ pc' = "exit"
    /\ UNCHANGED <<ringVars, revents, packets_processed, report>>

Next ==
    \/ Kernel /\ UNCHANGED threadVars
    \/ Thread
    \/ Signal

\* The scheduler runs the thread, poll() returns within POLL_TIMEOUT, and a
\* CPU that reserved a slot ends its copy.  Nothing makes frames, signals or
\* link changes come.
Fairness ==
    /\ WF_vars(Thread)
    /\ \A c \in Cpus : WF_vars(\E s \in Slots : KernelFill(c, s) /\ UNCHANGED threadVars)

Spec == Init /\ [][Next]_vars
FairSpec == Spec /\ Fairness
-----------------------------------------------------------------------------
(* Properties.                                                             *)

ThreadTypeOK ==
    /\ running \in BOOLEAN
    /\ pc \in {"while", "poll", "header", "process", "release", "exit", "done"}
    /\ revents \subseteq {"POLLIN", "POLLERR"}
    /\ packets_processed \in Nat
    /\ report \in Seq(Nat)

\* Type correctness of the ring and of the thread that reads it
\* (source-af-packet.c:594-649).
TypeOK == RingTypeOK /\ ThreadTypeOK

\* What the steps of the thread may rely on: a slot that tested ready stays
\* ready until this thread releases it, and the statistics count exactly the
\* frames that were processed (source-af-packet.c:617-634).
ThreadInv ==
    /\ holding <=> pc = "release"
    /\ pc = "process" => FrameReady
    /\ hook = "closed" <=> pc = "done"
    /\ packets_processed = Len(handled)
    /\ report = (IF pc = "done" THEN <<packets_processed>> ELSE <<>>)

\* The loop keeps to the ring protocol: it reads and releases only a slot
\* the kernel gave to it, although it tests tp_status in one step and uses
\* the frame in the next (source-af-packet.c:617-634).
ImplementsRing == RingSpec

\* Seen from main() and the benchmark this is a loop of turns that take at
\* most one frame each; it is left without a signal or a link failure only
\* while two frames or more are in the ring (source-af-packet.c:604-649).
Loop == INSTANCE CaptureLoop WITH
            Arrivals <- 1 .. MaxArrivals,
            function <- "AFPPacketProcessUsingRingBufferPolling",
            result <- CASE pc \in {"while", "release"} -> "started"
                        [] pc \in {"poll", "header", "process"} -> "turn"
                        [] pc = "exit" -> "stats"
                        [] pc = "done" -> "return 0",
            buffer <- [k \in 1 .. enq - Len(handled) |-> Len(handled) + k],
            taken <- handled,
            fault <- skErr

ImplementsLoop == Loop!LoopSpec

\* When the loop is left, every frame the kernel ever accepted is either in
\* the printed total or still in the ring: none is counted twice, and the
\* frame in hand when a signal comes is counted and released
\* (source-af-packet.c:604, 629, 645).
ReportAccounts ==
    pc = "done" => /\ ~holding
                   /\ enq - report[1] = Cardinality(SlotsInUse)

\* A terminal signal ends the capture with printed statistics, also when it
\* comes between the test of `running` and the call of poll(): the poll
\* timeout bounds the wait (source-af-packet.c:604-607, main.c:33-38).
SignalEndsCapture == ~running ~> (pc = "done" /\ report # <<>>)

\* With one CPU and no link failure the loop is left only because of a
\* signal: POLLIN then means that the slot at frame_num is ready
\* (source-af-packet.c:616-623).
EndsOnlyBySignal == pc \in {"exit", "done"} => ~running \/ skErr

\* The loop is left only after a signal, after a link failure, or at a slot
\* that a CPU is filling at that moment while another one is ready: never at a
\* slot the ring has not reached, never at one that is overdue, and never
\* because of a timeout (source-af-packet.c:607-643).
EndsOnlyWhileFilling ==
    [][pc' = "exit" /\ pc # "exit" =>
          \/ ~running'
          \/ skErr
          \/ owner[frame_num] # NoCpu /\ \E s \in Slots : status[s] = "user"]_vars

\* Every frame the kernel accepts is processed unless the loop ends first:
\* no accepted frame waits in a loop that goes on, whatever the order in
\* which the CPUs complete the slots (source-af-packet.c:604-634).
FramesProcessed ==
    \A k \in 1 .. MaxArrivals :
        (enq >= k) ~> (Len(handled) >= k \/ pc = "done")

\* "No more packets ready": when the loop is left because the slot at
\* frame_num is not ready, no other slot is (source-af-packet.c:620-623).
NoMorePacketsReady ==
    [][TestStatus /\ pc' = "exit" => \A s \in Slots : status[s] # "user"]_vars

\* "POLLERR: error condition on the file descriptor": when poll() reports
\* it, the turn is skipped and the capture goes on
\* (source-af-packet.c:609-615).
PollErrorSkipped ==
    [][pc = "poll" /\ pc' # "poll" /\ running' /\ "POLLERR" \in revents'
        => pc' = "while"]_vars
=============================================================================
