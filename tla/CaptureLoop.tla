----------------------------- MODULE CaptureLoop -----------------------------
(***************************************************************************)
(* What main.c and the benchmark see of a capture loop, from the first     *)
(* test of `running` to the return of its function: turns that take at     *)
(* most one frame each, the ways out, and the printed total.  RingPolling  *)
(* and RecvPoll implement it; Sniffer puts it behind the setup.            *)
(*                                                                         *)
(* result is "started" at the test of `running`, "turn" from poll() to the *)
(* end of a turn, "stats" behind the loop, and then how the function       *)
(* returned.                                                               *)
(***************************************************************************)
EXTENDS Naturals, Sequences

CONSTANT Arrivals   \* what can be received, as the user of this module names it

VARIABLES
    function,   \* "AFPPacketProcessUsingRingBufferPolling" or "AFPPacketProcessPoll"
    result,
    running,    \* the flag of main.c
    buffer,     \* the frames received and not yet taken, in order
    taken,      \* the frames taken, in order
    fault,      \* did the interface go down?  The socket's error stays pending
    report      \* the totals print_stats printed

loopVars == <<function, result, running, buffer, taken, fault, report>>

Polling == function = "AFPPacketProcessUsingRingBufferPolling"

LoopInit ==
    /\ result = "started"
    /\ running = TRUE
    /\ buffer = <<>>
    /\ taken = <<>>
    /\ fault = FALSE
    /\ report = <<>>

Arrive(f) ==
    /\ buffer' = Append(buffer, f)
    /\ UNCHANGED <<function, result, running, taken, fault, report>>

\* The interface goes down.
Fault ==
    /\ fault' = TRUE
    /\ UNCHANGED <<function, result, running, buffer, taken, report>>

\* Seeded bug: the flag is tested only when no frame is waiting.
TestRunningWhenIdle ==
    /\ result = "started"
    /\ result' = IF running \/ buffer # <<>> THEN "turn" ELSE "stats"
    /\ UNCHANGED <<function, running, buffer, taken, fault, report>>

TestRunning ==
    /\ result = "started"
    /\ result' = IF running THEN "turn" ELSE "stats"
    /\ UNCHANGED <<function, running, buffer, taken, fault, report>>

\* Seeded bug: poll() has no timeout.
TurnEndsNever == FALSE

\* A turn without a frame: a timeout, an event that is not for it, or a frame
\* that is still being copied.
TurnEnds ==
    /\ result = "turn"
    /\ result' = "started"
    /\ UNCHANGED <<function, running, buffer, taken, fault, report>>

TakeFrame ==
    /\ result = "turn"
    /\ buffer # <<>>
    /\ Polling \/ ~fault
    /\ taken' = Append(taken, Head(buffer))
    /\ buffer' = Tail(buffer)
    /\ result' = "started"
    /\ UNCHANGED <<function, running, fault, report>>

\* The ring loop breaks at a slot that is not ready: another one is, or the
\* interface reports an error.
BreakOff ==
    /\ result = "turn"
    /\ Polling
    /\ Len(buffer) >= 2 \/ fault
    /\ result' = "stats"
    /\ UNCHANGED <<function, running, buffer, taken, fault, report>>

\* The pending error is what recvfrom() returns instead of a frame.
ReceiveFails ==
    /\ result = "turn"
    /\ ~Polling
    /\ fault
    /\ buffer # <<>>
    /\ result' = "return 1"
    /\ UNCHANGED <<function, running, buffer, taken, fault, report>>

PrintStats ==
    /\ result = "stats"
    /\ report' = Append(report, Len(taken))
    /\ result' = "return 0"
    /\ UNCHANGED <<function, running, buffer, taken, fault>>

\* Seeded bug: EINTR is returned as an error.
SignalReturns ==
    /\ running' = FALSE
    /\ \/ result' = result
       \/ result = "turn" /\ result' = IF Polling THEN "return 1" ELSE "started"
    /\ UNCHANGED <<function, buffer, taken, fault, report>>

\* The handler clears the flag; a poll() that it interrupts ends the ring loop
\* and only the turn of the other.
Signal ==
    /\ running' = FALSE
    /\ \/ result' = result
       \/ result = "turn" /\ result' = IF Polling THEN "stats" ELSE "started"
    /\ UNCHANGED <<function, buffer, taken, fault, report>>

LoopThread ==
    \/ TestRunning
    \/ TurnEnds
    \/ TakeFrame
    \/ BreakOff
    \/ ReceiveFails
    \/ PrintStats

LoopNext ==
    \/ \E f \in Arrivals : Arrive(f)
    \/ Fault
    \/ LoopThread
    \/ Signal

LoopSpec == LoopInit /\ [][LoopNext]_loopVars
=============================================================================
