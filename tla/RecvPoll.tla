------------------------------ MODULE RecvPoll ------------------------------
(***************************************************************************)
(* AFPPacketProcessPoll: the loop of `sniff_packet poll`.  There is no     *)
(* ring: the kernel queues the frames on the socket, and the thread waits  *)
(* in poll() and copies one frame per turn out of the queue with           *)
(* recvfrom().  The queue holds RcvBuf frames; the code never changes the  *)
(* socket's receive buffer.                                                *)
(*                                                                         *)
(* pc names the next step of the thread:                                   *)
(*   "while"    the test of `running`               (line 706)             *)
(*   "poll"     about to call poll(), or in it      (line 708)             *)
(*   "recv"     recvfrom()                          (lines 713-722)        *)
(*   "process"  ProcessPacket and the statistics    (lines 724-726)        *)
(*   "exit"     print_stats and close               (lines 730-731)        *)
(*   "done"     the function has returned                                  *)
(***************************************************************************)
EXTENDS Integers, Sequences

CONSTANTS
    RcvBuf,         \* frames the socket's receive buffer holds
    MaxArrivals     \* bound: frames offered to the socket in a behaviour

ASSUME RecvAssumption == RcvBuf \in Nat \ {0} /\ MaxArrivals \in Nat

VARIABLES
    rcvQueue,           \* sk_receive_queue of the socket
    enq,                \* frames accepted so far
    lost,               \* frames dropped because rcvQueue was full
    hook,               \* is the socket receiving? "on", "down" or "closed"
    skErr,              \* sk_err of the socket
    running,            \* the flag of main.c
    pc,
    buffer,             \* the frame recvfrom() copied out last
    handled,            \* the frames given to ProcessPacket, in order
    packets_processed,  \* stats.packets_processed
    report              \* the totals print_stats printed

kernelVars == <<rcvQueue, enq, lost, hook, skErr>>
threadVars == <<running, pc, buffer, handled, packets_processed, report>>
vars == <<rcvQueue, enq, lost, hook, skErr, running, pc, buffer, handled,
          packets_processed, report>>

Init ==
    /\ rcvQueue = <<>>
    /\ enq = 0
    /\ lost = 0
    /\ hook = "on"
    /\ skErr = FALSE
    /\ running = TRUE
    /\ pc = "while"
    /\ buffer = 0
    /\ handled = <<>>
    /\ packets_processed = 0
    /\ report = <<>>
-----------------------------------------------------------------------------
(* The kernel.                                                             *)

KernelQueue ==
    /\ enq + lost < MaxArrivals
    /\ hook = "on"
    /\ Len(rcvQueue) < RcvBuf
    /\ rcvQueue' = Append(rcvQueue, enq + 1)
    /\ enq' = enq + 1
    /\ UNCHANGED <<lost, hook, skErr, threadVars>>

KernelDrop ==
    /\ enq + lost < MaxArrivals
    /\ hook = "on"
    /\ Len(rcvQueue) = RcvBuf
    /\ lost' = lost + 1
    /\ UNCHANGED <<rcvQueue, enq, hook, skErr, threadVars>>

\* The bound interface goes down; queued frames stay queued.
LinkDown ==
    /\ hook = "on"
    /\ hook' = "down"
    /\ skErr' = TRUE
    /\ UNCHANGED <<rcvQueue, enq, lost, threadVars>>

LinkUp ==
    /\ hook = "down"
    /\ hook' = "on"
    /\ UNCHANGED <<rcvQueue, enq, lost, skErr, threadVars>>

PollEvents ==
    (IF rcvQueue # <<>> THEN {"POLLIN"} ELSE {})
        \cup (IF skErr THEN {"POLLERR"} ELSE {})
-----------------------------------------------------------------------------
(* The thread.                                                             *)

TestRunning ==
    /\ pc = "while"
    /\ pc' = IF running THEN "poll" ELSE "exit"
    /\ UNCHANGED <<kernelVars, running, buffer, handled, packets_processed, report>>

\* Seeded bug: any event is taken for a frame.
PollReturnsAnyReady ==
    /\ pc = "poll"
    /\ PollEvents # {}
    /\ pc' = "recv"
    /\ UNCHANGED <<kernelVars, running, buffer, handled, packets_processed, report>>

\* Events other than POLLIN are not looked at: the turn ends.
PollReturnsReady ==
    /\ pc = "poll"
    /\ PollEvents # {}
    /\ pc' = IF "POLLIN" \in PollEvents THEN "recv" ELSE "while"
    /\ UNCHANGED <<kernelVars, running, buffer, handled, packets_processed, report>>

\* Seeded bugs: poll() without a timeout, and a timeout that ends the loop.
PollTimesOutNever == FALSE
PollTimesOutBreaks ==
    /\ pc = "poll"
    /\ PollEvents = {}
    /\ pc' = "exit"
    /\ UNCHANGED <<kernelVars, running, buffer, handled, packets_processed, report>>

\* POLL_TIMEOUT milliseconds without an event.
PollTimesOut ==
    /\ pc = "poll"
    /\ PollEvents = {}
    /\ pc' = "while"
    /\ UNCHANGED <<kernelVars, running, buffer, handled, packets_processed, report>>

\* Seeded bug: a signal ends the loop and forgets the frame just copied.
ReceiveThenStop ==
    /\ pc = "recv"
    /\ ~skErr
    /\ rcvQueue # <<>>
    /\ buffer' = Head(rcvQueue)
    /\ rcvQueue' = Tail(rcvQueue)
    /\ pc' = IF running THEN "process" ELSE "exit"
    /\ UNCHANGED <<enq, lost, hook, skErr, running, handled, packets_processed, report>>

\* recvfrom() on a socket without a pending error; on an empty queue it
\* would block.
Receive ==
    /\ pc = "recv"
    /\ ~skErr
    /\ rcvQueue # <<>>
    /\ buffer' = Head(rcvQueue)
    /\ rcvQueue' = Tail(rcvQueue)
    /\ pc' = "process"
    /\ UNCHANGED <<enq, lost, hook, skErr, running, handled, packets_processed, report>>

\* Seeded bug: the error is ignored.
ReceiveFailsIgnored ==
    /\ pc = "recv"
    /\ skErr
    /\ skErr' = FALSE
    /\ pc' = "while"
    /\ UNCHANGED <<rcvQueue, enq, lost, hook, running, buffer, handled,
                   packets_processed, report>>

\* A pending error is returned, and cleared, before any queued frame: the
\* function returns without the statistics and without closing the socket.
ReceiveFails ==
    /\ pc = "recv"
    /\ skErr
    /\ skErr' = FALSE
    /\ pc' = "done"
    /\ UNCHANGED <<rcvQueue, enq, lost, hook, running, buffer, handled,
                   packets_processed, report>>

Process ==
    /\ pc = "process"
    /\ handled' = Append(handled, buffer)
    /\ packets_processed' = packets_processed + 1
    /\ pc' = "while"
    /\ UNCHANGED <<kernelVars, running, buffer, report>>

Exit ==
    /\ pc = "exit"
    /\ report' = Append(report, packets_processed)
    /\ hook' = "closed"
    /\ pc' = "done"
    /\ UNCHANGED <<rcvQueue, enq, lost, skErr, running, buffer, handled,
                   packets_processed>>

Thread ==
    \/ TestRunning
    \/ PollReturnsReady
    \/ PollTimesOut
    \/ Receive
    \/ ReceiveFails
    \/ Process
    \/ Exit

\* SIGTERM or SIGINT.  poll() returning -1 (EINTR) only ends the turn.
Signal ==
    /\ running' = FALSE
    /\ \/ pc' = pc
       \/ pc = "poll" /\ PollEvents = {} /\ pc' = "while"
    /\ UNCHANGED <<kernelVars, buffer, handled, packets_processed, report>>

Next ==
    \/ KernelQueue
    \/ KernelDrop
    \/ LinkDown
    \/ LinkUp
    \/ Thread
    \/ Signal

\* The scheduler runs the thread; poll() returns within POLL_TIMEOUT.
Spec == Init /\ [][Next]_vars
FairSpec == Spec /\ WF_vars(Thread)
-----------------------------------------------------------------------------
(* Properties.                                                             *)

\* Type correctness: what is processed is always a frame, never the -1 of
\* a failed recvfrom() (source-af-packet.c:717-726).
TypeOK ==
    /\ rcvQueue \in Seq(Nat)
    /\ enq \in Nat
    /\ lost \in Nat
    /\ hook \in {"on", "down", "closed"}
    /\ skErr \in BOOLEAN
    /\ running \in BOOLEAN
    /\ pc \in {"while", "poll", "recv", "process", "exit", "done"}
    /\ buffer \in Nat
    /\ handled \in Seq(Nat)
    /\ packets_processed \in Nat
    /\ report \in Seq(Nat)

\* The frames taken out of the socket, in order: the one in `buffer` counts
\* from recvfrom() on.
Taken == IF pc = "process" THEN Append(handled, buffer) ELSE handled

\* The loop implements the lossy FIFO, with every place given back as soon
\* as recvfrom() has copied the frame: none is handled twice, skipped or out
\* of order (source-af-packet.c:706-728).
Queue == INSTANCE CaptureQueue WITH
            Capacity <- RcvBuf,
            queue <- rcvQueue,
            inHand <- FALSE,
            handled <- Taken

ImplementsQueue == Queue!Spec

\* Seen from main() and the benchmark this is a loop of turns that take at
\* most one frame each and that only a signal or a failed recvfrom() ends
\* (source-af-packet.c:706-733).
Loop == INSTANCE CaptureLoop WITH
            Arrivals <- 1 .. MaxArrivals,
            function <- "AFPPacketProcessPoll",
            result <- CASE pc \in {"while", "process"} -> "started"
                        [] pc \in {"poll", "recv"} -> "turn"
                        [] pc = "exit" -> "stats"
                        [] pc = "done" -> (IF report = <<>> THEN "return 1" ELSE "return 0"),
            buffer <- rcvQueue,
            taken <- Taken,
            fault <- skErr \/ (pc = "done" /\ report = <<>>)

ImplementsLoop == Loop!LoopSpec

\* poll() is level-triggered and this thread is the only reader: recvfrom(),
\* a blocking call that no signal interrupts, never finds the queue empty,
\* so the test of `running` is never put off (source-af-packet.c:708-717).
RecvNeverBlocks == pc = "recv" => rcvQueue # <<>>

\* The printed total is the number of frames the kernel accepted less those
\* still queued: the frame in `buffer` when a signal comes is counted
\* (source-af-packet.c:706, 724-730).
ReportAccounts ==
    /\ packets_processed = Len(handled)
    /\ report # <<>> => pc = "done" /\ report = <<enq - Len(rcvQueue)>>

\* A terminal signal ends the loop, also when it comes between the test of
\* `running` and the call of poll() (source-af-packet.c:706-711).
SignalEndsCapture == ~running ~> pc = "done"

\* Every accepted frame is processed unless a signal or a link failure ends
\* the capture first; without a signal only a failed recvfrom() ends it, and
\* then there is no report (source-af-packet.c:706-728).
FramesProcessed ==
    \A k \in 1 .. MaxArrivals :
        (enq >= k) ~> \/ Len(handled) >= k
                      \/ ~running
                      \/ skErr
                      \/ pc = "done" /\ report = <<>>

\* A link that fails and comes back ends the capture at the next frame: the
\* error the failure left is not cleared by poll(), only by the recvfrom()
\* it makes fail (source-af-packet.c:713-722).
LinkFlapEndsCapture == (skErr /\ rcvQueue # <<>>) ~> pc = "done"
=============================================================================
