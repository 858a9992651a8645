--------------------------- MODULE BenchmarkProofs ---------------------------
(***************************************************************************)
(* What the script finds when it collects the metrics, for every list of   *)
(* methods, any traffic, and wherever SIGTERM meets the process.           *)
(***************************************************************************)
EXTENDS Benchmark, TLAPS

Programs == {"AFPPacketProcessPoll", "AFPPacketProcessUsingRingBufferPolling"}
Running == {"main", "setup", "started", "turn", "stats"}
Ends == Failures \cup {"return 0", "killed", "crashed"}

BenchmarkTypeOK ==
    /\ script \in {"start", "sleep", "replay", "wait", "collect", "done"}
    /\ round \in 1 .. Len(Methods)
    /\ limit \in Nat
    /\ function \in Programs
    /\ result \in {"none"} \cup Running \cup Ends
    /\ running \in BOOLEAN
    /\ buffer \in Seq(Devices)
    /\ taken \in Seq(Devices)

\* A process prints its total once, when it returns 0, and every other end has
\* its reason.
MetricsInv ==
    /\ result = "main" => step = 1
    /\ result \in Running => report = <<>>
    /\ result \in Ends =>
         report = <<Len(taken)>> \/ (report = <<>> /\ EndedWithoutMetrics)
    /\ script = "collect" => Ended

\* What the turn may still take when the flag is cleared is in the limit.
LimitInv ==
    ~running => Len(taken) + (IF result = "turn" THEN 1 ELSE 0) <= limit

BenchmarkInv == BenchmarkTypeOK /\ MetricsInv /\ LimitInv

LEMMA LastStepIsStart ==
    ASSUME function \in Programs
    PROVE  /\ Len(Steps(function)) # 1
           /\ Steps(function)[Len(Steps(function))] = "start"
<1>1. CASE function = "AFPPacketProcessPoll"
  <2>1. Steps(function) = <<"fopen", "getenv", "socket", "ifindex", "bind", "start">>
    BY <1>1 DEF Steps, RingLoops
  <2> QED
    BY <2>1
<1>2. CASE function = "AFPPacketProcessUsingRingBufferPolling"
  <2>1. Steps(function) = <<"fopen", "getenv", "socket", "ring", "mmap", "ifindex",
                            "bind", "start">>
    BY <1>2 DEF Steps, RingLoops
  <2> QED
    BY <2>1
<1> QED
  BY <1>1, <1>2 DEF Programs

\* What the arithmetic of LimitInv needs.
LEMMA Counts ==
    ASSUME BenchmarkTypeOK
    PROVE  Len(taken) \in Nat /\ limit \in Nat /\ round \in Nat /\ running \in BOOLEAN
  BY DEF BenchmarkTypeOK

\* The reason of an end stays, and a pending error of the socket too.
LEMMA MetricsInvKept ==
    ASSUME MetricsInv, UNCHANGED <<function, step, logfile, taken, result, report>>,
           fault => fault',
           script' = "collect" => script = "collect" \/ Ended
    PROVE  MetricsInv'
<1>1. Ended' = Ended /\ (EndedWithoutMetrics => EndedWithoutMetrics')
  BY DEF Ended, EndedWithoutMetrics, Steps, Polling
<1> QED
  BY <1>1 DEF MetricsInv

LEMMA BenchmarkInvInit == Init => BenchmarkInv
<1> SUFFICES ASSUME Init
             PROVE  BenchmarkInv
  OBVIOUS
<1>1. 1 \in 1 .. Len(Methods) /\ taken \in Seq(Devices)
  BY MethodsAssumption DEF Init
<1>2. BenchmarkTypeOK
  BY <1>1 DEF Init, BenchmarkTypeOK, Programs
<1>3. MetricsInv /\ LimitInv
  BY DEF Init, MetricsInv, LimitInv, Running, Ends, Failures
<1> QED
  BY <1>2, <1>3 DEF BenchmarkInv
-----------------------------------------------------------------------------
(* A step of the process.                                                  *)

LEMMA SetUpStep ==
    ASSUME BenchmarkInv, SetUp, UNCHANGED scriptVars
    PROVE  BenchmarkInv'
<1>1. /\ result = "setup" /\ UNCHANGED <<function, taken, running, fault, report, scriptVars>>
      /\ \/ result' \in {"setup", "started"}
         \/ result' \in Failures /\ UNCHANGED step /\ Steps(function)[step] # "start"
  BY DEF SetUp, OpenLog, GetDevice, OpenSocket, SetRing, MapRing, QueryDevice,
         BindSucceeds, BindFails, Start, At, Continue, GiveUp, mainVars, RingLoops,
         BenchmarkInv, BenchmarkTypeOK, Programs, Failures
<1>2. buffer' = buffer \/ buffer' = <<>>
  BY DEF SetUp, OpenLog, GetDevice, OpenSocket, SetRing, MapRing, QueryDevice,
         BindSucceeds, BindFails, Start
<1>3. BenchmarkTypeOK'
  <2>1. buffer' \in Seq(Devices)
    <3>1. buffer \in Seq(Devices) /\ <<>> \in Seq(Devices)
      BY DEF BenchmarkInv, BenchmarkTypeOK
    <3> QED
      BY <1>2, <3>1, Zenon
  <2> QED
    BY <1>1, <2>1 DEF BenchmarkInv, BenchmarkTypeOK, Running, Ends, scriptVars
<1>4. MetricsInv'
  <2>1. report = <<>> /\ report' = <<>> /\ script' # "collect" /\ result' # "main"
    BY <1>1 DEF BenchmarkInv, MetricsInv, Running, Ended, Failures, scriptVars
  <2>2. CASE result' \in {"setup", "started"}
    BY <2>1, <2>2 DEF MetricsInv, Running, Ends, Failures
  <2>3. CASE result' \in Failures /\ UNCHANGED step /\ Steps(function)[step] # "start"
    <3>1. Steps(function') = Steps(function)
      BY <1>1
    <3>2. step' # Len(Steps(function'))
      BY <2>3, <3>1, LastStepIsStart DEF BenchmarkInv, BenchmarkTypeOK
    <3>3. EndedWithoutMetrics'
      BY <2>3, <3>2 DEF EndedWithoutMetrics
    <3> QED
      BY <2>1, <2>3, <3>3 DEF MetricsInv, Running, Failures
  <2> QED
    BY <1>1, <2>2, <2>3
<1>5. LimitInv'
  BY <1>1 DEF BenchmarkInv, LimitInv, scriptVars, Failures
<1> QED
  BY <1>3, <1>4, <1>5 DEF BenchmarkInv

LEMMA CaptureStep ==
    ASSUME BenchmarkInv, Capture, UNCHANGED scriptVars
    PROVE  BenchmarkInv'
<1>1. UNCHANGED <<step, logfile, function, running, fault, script, round, limit>>
  BY DEF Capture, LoopThread, TestRunning, TurnEnds, TakeFrame, BreakOff, ReceiveFails,
         PrintStats, scriptVars
<1>2. BenchmarkTypeOK /\ MetricsInv /\ LimitInv /\ Len(taken) \in Nat /\ limit \in Nat
  BY Counts DEF BenchmarkInv
<1>3. CASE TestRunning \/ TurnEnds \/ BreakOff \/ ReceiveFails
  <2>1. UNCHANGED <<buffer, taken, report>>
    BY <1>3 DEF TestRunning, TurnEnds, BreakOff, ReceiveFails
  <2>2. /\ result \in {"started", "turn"}
        /\ \/ result' \in {"started", "stats"}
           \/ result' = "turn" /\ running
           \/ result' = "return 1" /\ fault /\ ~Polling
    BY <1>2, <1>3 DEF TestRunning, TurnEnds, BreakOff, ReceiveFails, BenchmarkTypeOK
  <2>3. BenchmarkTypeOK'
    BY <1>1, <1>2, <2>1, <2>2 DEF BenchmarkTypeOK, Running, Ends, Failures
  <2>4. MetricsInv'
    <3>1. report' = <<>> /\ script' # "collect"
      BY <1>1, <1>2, <2>1, <2>2 DEF MetricsInv, Running, Ended, Failures
    <3>2. result' \in Ends => EndedWithoutMetrics'
      BY <1>1, <2>2 DEF Ends, Failures, EndedWithoutMetrics, Polling
    <3> QED
      BY <2>2, <3>1, <3>2 DEF MetricsInv
  <2>5. LimitInv'
    <3>1. CASE running
      BY <1>1, <3>1 DEF LimitInv
    <3>2. CASE ~running
      <4>1. result' # "turn"
        BY <2>2, <3>2
      <4>2. Len(taken) <= limit
        BY <1>2, <3>2 DEF LimitInv
      <4> QED
        BY <1>1, <1>2, <2>1, <4>1, <4>2 DEF LimitInv
    <3> QED
      BY <3>1, <3>2
  <2> QED
    BY <2>3, <2>4, <2>5 DEF BenchmarkInv
<1>4. CASE TakeFrame
  <2>1. /\ result = "turn" /\ result' = "started" /\ UNCHANGED report
        /\ taken' = Append(taken, Head(buffer)) /\ buffer' = Tail(buffer) /\ buffer # <<>>
    BY <1>4 DEF TakeFrame
  <2>2. buffer \in Seq(Devices) /\ taken \in Seq(Devices)
    BY <1>2 DEF BenchmarkTypeOK
  <2>3. Head(buffer) \in Devices /\ buffer' \in Seq(Devices)
    BY <2>1, <2>2
  <2>4. taken' \in Seq(Devices) /\ Len(taken') = Len(taken) + 1
    BY <2>1, <2>2, <2>3
  <2>5. BenchmarkTypeOK'
    BY <1>1, <1>2, <2>1, <2>3, <2>4 DEF BenchmarkTypeOK, Running
  <2>6. MetricsInv'
    BY <1>1, <1>2, <2>1 DEF MetricsInv, Running, Ends, Ended, Failures
  <2>7. LimitInv'
    BY <1>1, <1>2, <2>1, <2>4 DEF LimitInv
  <2> QED
    BY <2>5, <2>6, <2>7 DEF BenchmarkInv
<1>5. CASE PrintStats
  <2>1. /\ result = "stats" /\ result' = "return 0" /\ UNCHANGED <<buffer, taken>>
        /\ report' = Append(report, Len(taken))
    BY <1>5 DEF PrintStats
  <2>2. report = <<>>
    BY <1>2, <2>1 DEF MetricsInv, Running
  <2>3. report' = <<Len(taken)>>
    <3>1. Append(<<>>, Len(taken)) = <<Len(taken)>>
      OBVIOUS
    <3> QED
      BY <2>1, <2>2, <3>1, Zenon
  <2>4. BenchmarkTypeOK'
    BY <1>1, <1>2, <2>1 DEF BenchmarkTypeOK, Ends
  <2>5. MetricsInv'
    BY <1>1, <1>2, <2>1, <2>3 DEF MetricsInv, Running, Ended
  <2>6. LimitInv'
    BY <1>1, <1>2, <2>1 DEF LimitInv
  <2> QED
    BY <2>4, <2>5, <2>6 DEF BenchmarkInv
<1> QED
  BY <1>3, <1>4, <1>5 DEF Capture, LoopThread

LEMMA ThreadStep ==
    ASSUME BenchmarkInv, SnifferThread, UNCHANGED scriptVars
    PROVE  BenchmarkInv'
<1>1. CASE InstallHandlers \/ CallFunction
  BY <1>1 DEF InstallHandlers, CallFunction, setupVars, setupOnly, mainVars, BenchmarkInv,
              BenchmarkTypeOK, MetricsInv, LimitInv, Running, Ends, Ended, Failures, scriptVars
<1>2. CASE Crash
  <2>1. MetricsInv'
    <3>1. /\ result = "turn" /\ result' = "crashed" /\ ~logfile'
          /\ UNCHANGED <<report, script>>
      BY <1>2 DEF Crash, mainVars, scriptVars
    <3>2. EndedWithoutMetrics'
      BY <3>1 DEF EndedWithoutMetrics
    <3> QED
      BY <3>1, <3>2 DEF BenchmarkInv, MetricsInv, Running, Ended, Failures
  <2> QED
    BY <1>2, <2>1 DEF Crash, mainVars, BenchmarkInv, BenchmarkTypeOK, LimitInv,
                      Running, Ends, scriptVars
<1> QED
  BY <1>1, <1>2, SetUpStep, CaptureStep DEF SnifferThread
-----------------------------------------------------------------------------
(* A step of the script, or of what surrounds both.                        *)

\* kill, wherever the process is.
LEMMA KillStep ==
    ASSUME BenchmarkInv, Kill
    PROVE  BenchmarkInv'
<1>1. /\ UNCHANGED <<function, step, logfile, buffer, taken, report, fault, round>>
      /\ script' = "wait" /\ limit' = Len(taken) + (IF result = "turn" THEN 1 ELSE 0)
  BY DEF Kill, Terminate, Signal, setupVars, setupOnly, mainVars
<1>2. BenchmarkTypeOK /\ MetricsInv /\ LimitInv /\ Len(taken) \in Nat
  BY Counts DEF BenchmarkInv
<1>3. limit' \in Nat
  BY <1>1, <1>2
<1>4. CASE result = "main" /\ result' = "killed" /\ UNCHANGED running
  <2>1. step = 1
    BY <1>2, <1>4 DEF MetricsInv
  <2>2. BenchmarkTypeOK'
    BY <1>1, <1>2, <1>3, <1>4 DEF BenchmarkTypeOK, Ends
  <2>3. MetricsInv'
    <3>1. EndedWithoutMetrics'
      BY <1>1, <1>4, <2>1 DEF EndedWithoutMetrics
    <3>2. report' = <<>>
      BY <1>1, <1>2, <1>4 DEF MetricsInv, Running
    <3> QED
      BY <1>1, <1>4, <3>1, <3>2 DEF MetricsInv, Running
  <2>4. LimitInv'
    BY <1>1, <1>2, <1>4 DEF LimitInv
  <2> QED
    BY <2>2, <2>3, <2>4 DEF BenchmarkInv
<1>5. CASE ~Ended /\ Signal
  <2>1. /\ running' = FALSE /\ result \in {"none"} \cup Running
        /\ \/ result' = result
           \/ result = "turn" /\ result' \in {"stats", "started"}
    BY <1>2, <1>5 DEF Signal, Ended, BenchmarkTypeOK, Ends
  <2>2. BenchmarkTypeOK'
    BY <1>1, <1>2, <1>3, <2>1 DEF BenchmarkTypeOK, Running
  <2>3. MetricsInv'
    BY <1>1, <1>2, <2>1 DEF MetricsInv, Running, Ends, Failures
  <2>4. LimitInv'
    BY <1>1, <1>2, <2>1 DEF LimitInv
  <2> QED
    BY <2>2, <2>3, <2>4 DEF BenchmarkInv
<1>6. CASE Ended /\ UNCHANGED <<setupVars, mainVars>>
  <2>1. result' = result /\ running' = running
    BY <1>6 DEF setupVars, mainVars
  <2>2. BenchmarkTypeOK'
    BY <1>1, <1>2, <1>3, <2>1 DEF BenchmarkTypeOK
  <2>3. MetricsInv'
    BY <1>1, <1>2, <2>1, MetricsInvKept
  <2>4. LimitInv'
    BY <1>1, <1>2, <2>1 DEF LimitInv
  <2> QED
    BY <2>2, <2>3, <2>4 DEF BenchmarkInv
<1> QED
  BY <1>4, <1>5, <1>6 DEF Kill, Terminate, mainVars

LEMMA ScriptStep ==
    ASSUME BenchmarkInv, Script
    PROVE  BenchmarkInv'
<1>1. CASE StartProgram
  <2>1. /\ result' = "main" /\ step' = 1 /\ buffer' = <<>> /\ taken' = <<>>
        /\ running' = TRUE /\ report' = <<>> /\ script' = "sleep" /\ limit' = 0
        /\ round' = round
    BY <1>1 DEF StartProgram, StartProcess
  <2>2. function' \in Programs
    <3>1. Methods[round] \in {"ring", "poll"}
      BY MethodsAssumption DEF BenchmarkInv, BenchmarkTypeOK
    <3> QED
      BY <1>1, <3>1 DEF StartProgram, StartProcess, Programs
  <2>3. buffer' \in Seq(Devices) /\ taken' \in Seq(Devices)
    BY <2>1
  <2>4. BenchmarkTypeOK'
    BY <2>1, <2>2, <2>3 DEF BenchmarkInv, BenchmarkTypeOK, Running
  <2> QED
    BY <2>1, <2>4 DEF BenchmarkInv, MetricsInv, LimitInv, Ends, Failures
<1>2. CASE SleepEnds \/ WaitEnds
  <2>1. UNCHANGED <<setupVars, mainVars, round, limit>>
    BY <1>2 DEF SleepEnds, WaitEnds
  <2>2. script' = "replay" \/ (script' = "collect" /\ Ended)
    BY <1>2 DEF SleepEnds, WaitEnds
  <2>3. MetricsInv'
    BY <2>1, <2>2, MetricsInvKept DEF setupVars, mainVars, BenchmarkInv
  <2> QED
    BY <2>1, <2>2, <2>3 DEF setupVars, mainVars, BenchmarkInv, BenchmarkTypeOK, LimitInv
<1>3. CASE Collect
  <2>1. script' \in {"start", "done"} /\ UNCHANGED <<setupVars, mainVars, limit>>
    BY <1>3 DEF Collect
  <2>2. round' \in 1 .. Len(Methods)
    BY <1>3, MethodsAssumption DEF Collect, BenchmarkInv, BenchmarkTypeOK
  <2>3. MetricsInv'
    BY <2>1, MetricsInvKept DEF setupVars, mainVars, BenchmarkInv
  <2> QED
    BY <2>1, <2>2, <2>3 DEF setupVars, mainVars, BenchmarkInv, BenchmarkTypeOK, LimitInv
<1> QED
  BY <1>1, <1>2, <1>3, KillStep DEF Script

LEMMA TrafficStep ==
    ASSUME BenchmarkInv, Traffic, UNCHANGED scriptVars
    PROVE  BenchmarkInv'
<1>1. ASSUME NEW d \in Devices, FrameArrives(d)
      PROVE  BenchmarkInv'
  <2>1. /\ buffer' = Append(buffer, d)
        /\ UNCHANGED <<function, step, logfile, taken, result, mainVars, scriptVars>>
    BY <1>1 DEF FrameArrives, Receive
  <2>2. buffer' \in Seq(Devices)
    BY <2>1 DEF BenchmarkInv, BenchmarkTypeOK
  <2>3. MetricsInv'
    BY <2>1, MetricsInvKept DEF mainVars, scriptVars, BenchmarkInv
  <2> QED
    BY <2>1, <2>2, <2>3 DEF mainVars, scriptVars, BenchmarkInv, BenchmarkTypeOK, LimitInv
<1>2. CASE InterfaceFails
  <2>1. MetricsInv'
    BY <1>2, MetricsInvKept DEF InterfaceFails, Fault, setupOnly, scriptVars, BenchmarkInv
  <2> QED
    BY <1>2, <2>1 DEF InterfaceFails, Fault, setupOnly, scriptVars, BenchmarkInv,
                      BenchmarkTypeOK, LimitInv
<1> QED
  BY <1>1, <1>2 DEF Traffic, Devices
-----------------------------------------------------------------------------
(* The theorems.                                                           *)

LEMMA BenchmarkInvariant == Spec => []BenchmarkInv
<1>1. BenchmarkInv /\ [Next]_benchmarkVars => BenchmarkInv'
  <2> SUFFICES ASSUME BenchmarkInv, [Next]_benchmarkVars
               PROVE  BenchmarkInv'
    OBVIOUS
  <2>1. CASE UNCHANGED benchmarkVars
    <3>1. MetricsInv'
      BY <2>1, MetricsInvKept DEF benchmarkVars, setupVars, mainVars, scriptVars, BenchmarkInv
    <3> QED
      BY <2>1, <3>1 DEF benchmarkVars, setupVars, mainVars, scriptVars, BenchmarkInv,
                        BenchmarkTypeOK, LimitInv
  <2> QED
    BY <2>1, ThreadStep, ScriptStep, TrafficStep DEF Next
<1> QED
  BY <1>1, BenchmarkInvInit, PTL DEF Spec

\* Wherever SIGTERM comes, when the script collects the metrics the total was
\* printed once and counts every frame the process took, or nothing was and for
\* one of four reasons (benchmark.sh:40-47, main.c:33-58).
THEOREM MetricsAreCollected == Spec => []MetricsCollected
<1>1. BenchmarkInv => MetricsCollected
  BY DEF BenchmarkInv, BenchmarkTypeOK, MetricsInv, MetricsCollected, Ended, Ends
<1> QED
  BY <1>1, BenchmarkInvariant, PTL

\* However many frames wait when SIGTERM clears the flag, at most the turn
\* under way takes one more (source-af-packet.c:604, 706, main.c:36).
THEOREM CaptureStopsWithinATurn == Spec => []StopsWithinATurn
<1>1. BenchmarkInv => StopsWithinATurn
  BY DEF BenchmarkInv, BenchmarkTypeOK, LimitInv, StopsWithinATurn
<1> QED
  BY <1>1, BenchmarkInvariant, PTL
=============================================================================
