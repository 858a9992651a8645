------------------------------ MODULE Benchmark ------------------------------
(***************************************************************************)
(* benchmark.sh: for each method the script starts sniff_packet, replays   *)
(* traffic to its interface, terminates it, waits for it to end and takes  *)
(* the metrics from its output.  Nothing but the process id and the output *)
(* file connects the two.                                                  *)
(*                                                                         *)
(* script is the next line of run_benchmark:                               *)
(*   "start"    the program in the background       (lines 31-32)          *)
(*   "sleep"    two seconds, for it to initialize   (line 35)              *)
(*   "replay"   tcpreplay, then kill                (lines 38-40)          *)
(*   "wait"     wait                                (line 43)              *)
(*   "collect"  the metrics and their row           (lines 46-49)          *)
(*   "done"     all methods were run                                       *)
(***************************************************************************)
EXTENDS Sniffer

CONSTANT Methods    \* the arguments of run_benchmark, in order

ASSUME MethodsAssumption == Methods \in Seq({"ring", "poll"}) /\ Methods # <<>>

VARIABLES
    script,
    round,      \* the index in Methods
    limit       \* frames the process may have taken when it ends (history)

scriptVars == <<script, round, limit>>
benchmarkVars == <<setupVars, mainVars, scriptVars>>

Init ==
    /\ function = "AFPPacketProcessPoll"
    /\ step = 1
    /\ logfile = FALSE
    /\ sock = "none"
    /\ bound = {}
    /\ buffer = <<>>
    /\ taken = <<>>
    /\ result = "none"
    /\ handler = FALSE
    /\ running = TRUE
    /\ fault = FALSE
    /\ report = <<>>
    /\ script = "start"
    /\ round = 1
    /\ limit = 0

StartProgram ==
    /\ script = "start"
    /\ StartProcess(Methods[round])
    /\ script' = "sleep"
    /\ limit' = 0
    /\ UNCHANGED round

\* Two seconds are enough for most starts; nothing makes them enough.
SleepEnds ==
    /\ script = "sleep"
    /\ script' = "replay"
    /\ UNCHANGED <<setupVars, mainVars, round, limit>>

\* tcpreplay has sent its last frame; SIGTERM follows at once.
Kill ==
    /\ script = "replay"
    /\ Terminate
    /\ script' = "wait"
    /\ limit' = Len(taken) + (IF result = "turn" THEN 1 ELSE 0)
    /\ UNCHANGED round

WaitEnds ==
    /\ script = "wait"
    /\ Ended
    /\ script' = "collect"
    /\ UNCHANGED <<setupVars, mainVars, round, limit>>

Collect ==
    /\ script = "collect"
    /\ IF round < Len(Methods)
       THEN script' = "start" /\ round' = round + 1
       ELSE script' = "done" /\ UNCHANGED round
    /\ UNCHANGED <<setupVars, mainVars, limit>>

Script ==
    \/ StartProgram
    \/ SleepEnds
    \/ Kill
    \/ WaitEnds
    \/ Collect

\* The interface of the program gets its frames from tcpreplay, the others
\* get theirs at any time.
Traffic ==
    \/ script = "replay" /\ FrameArrives(Device)
    \/ FrameArrives(OtherDevice)
    \/ InterfaceFails

Next ==
    \/ Script
    \/ SnifferThread /\ UNCHANGED scriptVars
    \/ Traffic /\ UNCHANGED scriptVars

\* Both processes are scheduled, and neither sleep nor tcpreplay lasts
\* forever.  Nothing makes frames come or interfaces fail.
Spec ==
    /\ Init
    /\ [][Next]_benchmarkVars
    /\ WF_benchmarkVars(Script)
    /\ WF_benchmarkVars(SnifferThread /\ UNCHANGED scriptVars)
-----------------------------------------------------------------------------
(* Properties.                                                             *)

\* Why a process ends without its metrics: it was killed before it had its
\* handlers, its setup gave up, a frame was printed to a log that is not open,
\* or recvfrom() returned the failure of the interface.
EndedWithoutMetrics ==
    \/ result = "killed" /\ step = 1
    \/ result \in Failures /\ step # Len(Steps(function))
    \/ result = "crashed" /\ ~logfile
    \/ result = "return 1" /\ ~Polling /\ fault

\* When the script looks for the metrics they are there, once, and count the
\* frames of this process, whenever SIGTERM came, also in the middle of the
\* setup, and also without a log or after the ring loop saw the interface fail;
\* or there are none at all, for one of the four reasons
\* (benchmark.sh:40-47, main.c:33-58).
MetricsCollected ==
    script = "collect" =>
        \/ report = <<Len(taken)>>
        \/ report = <<>> /\ EndedWithoutMetrics

\* SIGTERM stops the capture within one turn: however many frames wait, at
\* most one more is taken (source-af-packet.c:604, 706, main.c:36).
StopsWithinATurn == ~running => Len(taken) <= limit

\* `wait` returns and the benchmark goes through its methods, although the
\* process may be anywhere, also not yet started up, when it is told to end
\* (benchmark.sh:40-43, 59-69).
BenchmarkFinishes == <>(script = "done")

\* "Wait for processing to complete and collect results": when the metrics
\* are read, no replayed frame is left unprocessed (benchmark.sh:42-46).
ProcessingComplete ==
    script = "collect" /\ report # <<>> => \A i \in DOMAIN buffer : buffer[i] # Device
=============================================================================
