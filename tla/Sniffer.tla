------------------------------- MODULE Sniffer -------------------------------
(***************************************************************************)
(* A process of sniff_packet, from its start to its end: main() installs   *)
(* the signal handlers and calls the capture function argv[1] names, which *)
(* sets up its socket (CaptureSetup) and runs its loop (CaptureLoop).      *)
(* Signals come at any time.                                               *)
(*                                                                         *)
(* result says where the process is: "none" (not started), "main", the     *)
(* values of CaptureSetup and CaptureLoop, "killed" (by a signal without a *)
(* handler) or "crashed".                                                  *)
(***************************************************************************)
EXTENDS CaptureSetup

VARIABLES
    handler,    \* is signal_handler installed?
    running,
    fault,
    report

INSTANCE CaptureLoop WITH Arrivals <- Devices

mainVars == <<handler, running, fault, report>>
setupOnly == <<step, logfile, sock, bound>>

Ended == result \in Failures \cup {"return 0", "killed", "crashed"}

\* A new process runs sniff_packet; method is its argument.
StartProcess(method) ==
    /\ result = "none" \/ Ended
    /\ function' = CASE method = "ring" -> "AFPPacketProcessUsingRingBufferPolling"
                     [] method = "poll" -> "AFPPacketProcessPoll"
    /\ result' = "main"
    /\ step' = 1
    /\ logfile' = FALSE
    /\ sock' = "none"
    /\ bound' = {}
    /\ buffer' = <<>>
    /\ taken' = <<>>
    /\ handler' = FALSE
    /\ running' = TRUE
    /\ fault' = FALSE
    /\ report' = <<>>

InstallHandlers ==
    /\ result = "main"
    /\ ~handler
    /\ handler' = TRUE
    /\ UNCHANGED <<setupVars, running, fault, report>>

CallFunction ==
    /\ result = "main"
    /\ handler
    /\ result' = "setup"
    /\ UNCHANGED <<function, setupOnly, buffer, taken, mainVars>>

SetUp ==
    /\ \/ OpenLog
       \/ GetDevice
       \/ OpenSocket
       \/ SetRing
       \/ MapRing
       \/ QueryDevice
       \/ BindSucceeds
       \/ BindFails
       \/ Start
    /\ UNCHANGED mainVars

\* The loop, and the return from main(), which closes what is open.
Capture ==
    /\ LoopThread
    /\ sock' = IF result' \in {"return 0", "return 1"} THEN "closed" ELSE sock
    /\ UNCHANGED <<step, logfile, bound, handler>>

\* A TCP frame is dumped to a log that could not be opened.
Crash ==
    /\ result = "turn"
    /\ buffer # <<>>
    /\ Polling \/ ~fault
    /\ ~logfile
    /\ result' = "crashed"
    /\ sock' = "closed"
    /\ UNCHANGED <<function, step, logfile, bound, buffer, taken, mainVars>>

SnifferThread ==
    \/ InstallHandlers
    \/ CallFunction
    \/ SetUp
    \/ Capture
    \/ Crash

\* SIGTERM: before main() has installed the handler it ends the process, and
\* a process that has ended does not get it.
Terminate ==
    \/ /\ result = "main"
       /\ ~handler
       /\ result' = "killed"
       /\ UNCHANGED <<function, setupOnly, buffer, taken, mainVars>>
    \/ handler /\ ~Ended /\ Signal /\ UNCHANGED <<setupOnly, handler>>
    \/ Ended /\ UNCHANGED <<setupVars, mainVars>>

\* Frames and failures of the interface reach a socket that is open.
FrameArrives(d) == Receive(d) /\ UNCHANGED mainVars
InterfaceFails ==
    /\ sock = "open"
    /\ bound = {Device}
    /\ Fault
    /\ UNCHANGED <<setupOnly, handler>>
=============================================================================
