------------------------- MODULE CaptureSetupProofs -------------------------
(***************************************************************************)
(* Every function reaches its loop on a socket that receives what the      *)
(* function says it captures, however its steps fail and frames arrive.    *)
(***************************************************************************)
EXTENDS CaptureSetup, TLAPS

\* Where the steps that change what is received are in the order of f; the
\* functions without a ring have no "ring", and 0 stands for that.
SocketAt(f) == IF f = "AFPCreateSocket" THEN 1 ELSE 3
RingAt(f) == IF f = "AFPPacketProcessPoll" THEN 0 ELSE 4
BindAt(f) ==
    CASE f \in RingLoops -> 7
      [] f = "AFPPacketProcessPoll" -> 5
      [] f = "AFPCreateSocket" -> 3
StartAt(f) == IF f \in RingLoops THEN 8 ELSE 6

\* What a step has behind it: nothing is received before the socket is open;
\* only one function has passed its bind without being bound; the loop, and
\* nothing else, takes frames; and what AFPCreateSocket leaves in its ring
\* came in after the bind.
SetupInv ==
    /\ SetupTypeOK
    /\ result = "started" => step = StartAt(function)
    /\ step <= SocketAt(function) => bound = {} /\ buffer = <<>>
    /\ bound = {Device} => step > BindAt(function)
    /\ step > BindAt(function) /\ function # "AFPPacketProcessPoll" => bound = {Device}
    /\ result # "started" => taken = <<>>
    /\ function = "AFPCreateSocket" /\ step > RingAt(function) => Frames \subseteq {Device}

\* The orders, as the proofs use them.
LEMMA StepPlaces ==
    ASSUME SetupTypeOK
    PROVE  /\ step \in Nat /\ step >= 1 /\ step <= StartAt(function)
           /\ Len(Steps(function)) = StartAt(function)
           /\ Steps(function)[step] = "socket" <=> step = SocketAt(function)
           /\ Steps(function)[step] = "ring" <=> step = RingAt(function)
           /\ Steps(function)[step] = "bind" <=> step = BindAt(function)
           /\ Steps(function)[step] = "start" <=> step = StartAt(function)
<1>1. function \in RingLoops \cup {"AFPPacketProcessPoll", "AFPCreateSocket"}
  BY SetupAssumption DEF SetupTypeOK
<1>2. CASE function \in RingLoops
  <2>1. Steps(function) = <<"fopen", "getenv", "socket", "ring", "mmap", "ifindex",
                            "bind", "start">>
    BY <1>2 DEF Steps, RingLoops
  <2>2. SocketAt(function) = 3 /\ RingAt(function) = 4 /\ BindAt(function) = 7
        /\ StartAt(function) = 8
    BY <1>2 DEF SocketAt, RingAt, BindAt, StartAt, RingLoops
  <2>3. step \in 1 .. 8
    BY <2>1 DEF SetupTypeOK
  <2> QED
    BY <2>1, <2>2, <2>3
<1>3. CASE function = "AFPPacketProcessPoll"
  <2>1. Steps(function) = <<"fopen", "getenv", "socket", "ifindex", "bind", "start">>
    BY <1>3 DEF Steps, RingLoops
  <2>2. SocketAt(function) = 3 /\ RingAt(function) = 0 /\ BindAt(function) = 5
        /\ StartAt(function) = 6
    BY <1>3 DEF SocketAt, RingAt, BindAt, StartAt, RingLoops
  <2>3. step \in 1 .. 6
    BY <2>1 DEF SetupTypeOK
  <2> QED
    BY <2>1, <2>2, <2>3
<1>4. CASE function = "AFPCreateSocket"
  <2>1. Steps(function) = <<"socket", "ifindex", "bind", "ring", "linktype", "start">>
    BY <1>4 DEF Steps, RingLoops
  <2>2. SocketAt(function) = 1 /\ RingAt(function) = 4 /\ BindAt(function) = 3
        /\ StartAt(function) = 6
    BY <1>4 DEF SocketAt, RingAt, BindAt, StartAt, RingLoops
  <2>3. step \in 1 .. 6
    BY <2>1 DEF SetupTypeOK
  <2> QED
    BY <2>1, <2>2, <2>3
<1> QED
  BY <1>1, <1>2, <1>3, <1>4
\* How the places of the steps lie: AFPCreateSocket binds before it sets up
\* its ring, the others do it after that.
LEMMA PlacesAreOrdered ==
    ASSUME SetupTypeOK
    PROVE  /\ SocketAt(function) \in Nat /\ RingAt(function) \in Nat
           /\ BindAt(function) \in Nat /\ StartAt(function) \in Nat
           /\ 1 <= SocketAt(function)
           /\ SocketAt(function) < BindAt(function) /\ BindAt(function) < StartAt(function)
           /\ RingAt(function) < StartAt(function) /\ RingAt(function) # SocketAt(function)
           /\ IF function = "AFPCreateSocket"
              THEN BindAt(function) < RingAt(function)
              ELSE RingAt(function) < BindAt(function)
  BY SetupAssumption DEF SetupTypeOK, SocketAt, RingAt, BindAt, StartAt, RingLoops
-----------------------------------------------------------------------------
(* Frames received and taken.                                              *)

LEMMA FramesOfReceive ==
    ASSUME SetupTypeOK, NEW d \in Devices, Receive(d)
    PROVE  Frames' = Frames \cup {d} /\ Len(buffer') = Len(buffer) + 1
           /\ buffer' \in Seq(Devices)
<1>1. /\ buffer \in Seq(Devices) /\ buffer' = Append(buffer, d) /\ taken' = taken
  BY DEF Receive, SetupTypeOK
<1>2. /\ Len(buffer') = Len(buffer) + 1 /\ Len(buffer) \in Nat
      /\ buffer' \in Seq(Devices)
      /\ \A k \in 1 .. Len(buffer) : buffer'[k] = buffer[k]
      /\ buffer'[Len(buffer) + 1] = d
      /\ DOMAIN buffer = 1 .. Len(buffer) /\ DOMAIN buffer' = 1 .. Len(buffer')
  BY <1>1
<1>3. {buffer'[k] : k \in DOMAIN buffer'} = {buffer[k] : k \in DOMAIN buffer} \cup {d}
  BY <1>2
<1> QED
  BY <1>1, <1>2, <1>3 DEF Frames

LEMMA FramesOfTake ==
    ASSUME SetupTypeOK, Take
    PROVE  /\ Frames' \subseteq Frames
           /\ Len(buffer') + Len(taken') = Len(buffer) + Len(taken)
           /\ buffer' \in Seq(Devices) /\ taken' \in Seq(Devices)
<1>1. /\ buffer \in Seq(Devices) /\ taken \in Seq(Devices) /\ buffer # <<>>
      /\ buffer' = Tail(buffer) /\ taken' = Append(taken, Head(buffer))
  BY DEF Take, SetupTypeOK
<1>2. /\ Len(buffer) \in Nat /\ Len(buffer) >= 1 /\ Head(buffer) = buffer[1]
      /\ buffer[1] \in Devices /\ DOMAIN buffer = 1 .. Len(buffer)
  BY <1>1
<1>3. /\ Len(buffer') = Len(buffer) - 1 /\ buffer' \in Seq(Devices)
      /\ DOMAIN buffer' = 1 .. Len(buffer')
      /\ \A k \in 1 .. Len(buffer') : buffer'[k] = buffer[k + 1]
  BY <1>1, <1>2
<1>4. /\ Len(taken') = Len(taken) + 1 /\ taken' \in Seq(Devices) /\ Len(taken) \in Nat
      /\ DOMAIN taken' = 1 .. Len(taken') /\ DOMAIN taken = 1 .. Len(taken)
      /\ \A k \in 1 .. Len(taken) : taken'[k] = taken[k]
      /\ taken'[Len(taken) + 1] = buffer[1]
  BY <1>1, <1>2
<1>5. \A k \in DOMAIN buffer' : buffer'[k] \in Frames
  BY <1>2, <1>3 DEF Frames
<1>6. \A k \in DOMAIN taken' : taken'[k] \in Frames
  BY <1>2, <1>4 DEF Frames
<1>7. Frames' = {buffer'[k] : k \in DOMAIN buffer'} \cup {taken'[k] : k \in DOMAIN taken'}
  BY DEF Frames
<1>8. Frames' \subseteq Frames
  BY <1>5, <1>6, <1>7
<1> QED
  BY <1>2, <1>3, <1>4, <1>8

LEMMA NothingReceived ==
    ASSUME buffer = <<>>, taken = <<>>
    PROVE  Frames = {}
  BY DEF Frames
-----------------------------------------------------------------------------
(* The steps.                                                              *)

\* A step that opens, maps or asks for something, or fails to.
LEMMA OrdinaryStep ==
    ASSUME SetupInv, result = "setup",
           step # SocketAt(function), step # RingAt(function),
           step # BindAt(function), step # StartAt(function),
           UNCHANGED <<function, bound, buffer, taken>>,
           logfile' \in BOOLEAN, sock' \in {"none", "open", "closed"},
           Continue \/ (UNCHANGED step /\ result' \in Failures)
    PROVE  SetupInv'
<1>1. SetupTypeOK
  BY DEF SetupInv
<1>2. /\ SocketAt(function) \in Nat /\ RingAt(function) \in Nat /\ StartAt(function) \in Nat
      /\ BindAt(function) \in Nat
  BY <1>1, PlacesAreOrdered
<1>3. /\ Len(Steps(function)) = StartAt(function) /\ step \in Nat
      /\ step >= 1 /\ step <= StartAt(function)
  BY <1>1, StepPlaces
<1>4. step' \in {step, step + 1} /\ step' \in 1 .. StartAt(function)
  BY <1>2, <1>3 DEF Continue
<1>5. result' \in {"setup"} \cup Failures /\ result' # "started"
  BY DEF Continue, Failures
<1>6. SetupTypeOK'
  BY <1>1, <1>3, <1>4, <1>5 DEF SetupTypeOK
<1>7. /\ step' <= SocketAt(function) => step <= SocketAt(function)
      /\ step' > BindAt(function) <=> step > BindAt(function)
      /\ step' > RingAt(function) => step > RingAt(function)
  BY <1>2, <1>3, <1>4
<1>8. Frames' = Frames
  BY DEF Frames
<1> QED
  BY <1>5, <1>6, <1>7, <1>8 DEF SetupInv
\* A step that fails and ends the function.
LEMMA FailingStep ==
    ASSUME SetupInv, result = "setup",
           UNCHANGED <<function, step, logfile, bound, buffer, taken>>,
           sock' \in {"none", "open", "closed"}, result' \in Failures
    PROVE  SetupInv'
<1>1. result' # "started" /\ Frames' = Frames
  BY DEF Failures, Frames
<1> QED
  BY <1>1 DEF SetupInv, SetupTypeOK

LEMMA SetupInvInit == SetupInit => SetupInv
<1> SUFFICES ASSUME SetupInit
             PROVE  SetupInv
  OBVIOUS
<1>1. SetupTypeOK
  <2>1. Len(Steps(function)) \in Nat /\ Len(Steps(function)) >= 1
    BY SetupAssumption DEF SetupInit, Steps, RingLoops
  <2>2. buffer \in Seq(Devices) /\ taken \in Seq(Devices)
    BY DEF SetupInit
  <2>3. step \in 1 .. Len(Steps(function))
    BY <2>1 DEF SetupInit
  <2> QED
    BY <2>2, <2>3 DEF SetupInit, SetupTypeOK
<1>2. step <= SocketAt(function) /\ ~(step > BindAt(function)) /\ Frames = {}
  BY <1>1, PlacesAreOrdered, NothingReceived DEF SetupInit
<1> QED
  BY <1>1, <1>2 DEF SetupInit, SetupInv

LEMMA SetupInvStep == SetupInv /\ [SetupNext]_setupVars => SetupInv'
<1> SUFFICES ASSUME SetupInv, [SetupNext]_setupVars
             PROVE  SetupInv'
  OBVIOUS
<1>1. SetupTypeOK
  BY DEF SetupInv
<1>2. /\ step \in Nat /\ step >= 1 /\ step <= StartAt(function)
      /\ Len(Steps(function)) = StartAt(function)
  BY <1>1, StepPlaces
<1>3. result = "setup" => taken = <<>>
  BY DEF SetupInv
<1>4. CASE OpenLog \/ GetDevice \/ MapRing \/ QueryDevice
  <2>1. /\ result = "setup" /\ UNCHANGED <<function, bound, buffer, taken>>
        /\ logfile' \in BOOLEAN /\ sock' \in {"none", "open", "closed"}
        /\ Continue \/ (UNCHANGED step /\ result' \in Failures)
    BY <1>1, <1>4
       DEF OpenLog, GetDevice, MapRing, QueryDevice, At, GiveUp, Failures, SetupTypeOK
  <2>2. /\ Steps(function)[step] # "socket" /\ Steps(function)[step] # "ring"
        /\ Steps(function)[step] # "bind" /\ Steps(function)[step] # "start"
    BY <1>4 DEF OpenLog, GetDevice, MapRing, QueryDevice, At
  <2> QED
    BY <1>1, <2>1, <2>2, StepPlaces, OrdinaryStep
<1>5. CASE OpenSocket
  <2>1. step = SocketAt(function) /\ result = "setup"
    BY <1>1, <1>5, StepPlaces DEF OpenSocket, At
  <2>2. CASE bound' = Devices /\ sock' = "open" /\ Continue
    <3>1. step' = step + 1 /\ result' = "setup" /\ UNCHANGED <<function, logfile, buffer, taken>>
      BY <1>5, <2>1, <2>2 DEF OpenSocket, Continue
    <3>2. /\ step' \in 1 .. StartAt(function) /\ ~(step' <= SocketAt(function))
          /\ ~(step' > BindAt(function))
      BY <1>1, <1>2, <2>1, <3>1, PlacesAreOrdered
    <3>3. ~(function = "AFPCreateSocket" /\ step' > RingAt(function))
      BY <1>1, <3>2, PlacesAreOrdered, <3>1, <2>1
    <3>4. bound' # {Device}
      BY <2>2, SetupAssumption DEF Devices
    <3>5. SetupTypeOK'
      BY <1>1, <1>2, <2>2, <3>1, <3>2 DEF SetupTypeOK
    <3> QED
      BY <1>3, <2>1, <3>1, <3>2, <3>3, <3>4, <3>5 DEF SetupInv
  <2>3. CASE UNCHANGED <<step, bound>> /\ result' \in Failures
                /\ sock' \in {"none", "open", "closed"}
    BY <1>5, <2>1, <2>3, FailingStep DEF OpenSocket
  <2> QED
    BY <1>1, <1>5, <2>2, <2>3, SetupAssumption
       DEF OpenSocket, GiveUp, Failures, SetupTypeOK, RingLoops
<1>6. CASE SetRing
  <2>1. step = RingAt(function) /\ result = "setup"
    BY <1>1, <1>6, StepPlaces DEF SetRing, At
  <2>2. CASE buffer' = <<>> /\ Continue /\ UNCHANGED sock
    <3>1. step' = step + 1 /\ result' = "setup" /\ UNCHANGED <<function, logfile, bound, taken>>
      BY <1>6, <2>1, <2>2 DEF SetRing, Continue
    <3>2. /\ step' \in 1 .. StartAt(function)
          /\ step' <= SocketAt(function) => step <= SocketAt(function)
          /\ step' > BindAt(function) <=> step > BindAt(function)
      BY <1>1, <1>2, <2>1, <3>1, PlacesAreOrdered
    <3>3. Frames' = {}
      BY <1>3, <2>1, <2>2, <3>1 DEF Frames
    <3>4. SetupTypeOK'
      BY <1>1, <1>2, <2>2, <3>1, <3>2 DEF SetupTypeOK
    <3> QED
      BY <1>3, <2>1, <2>2, <3>1, <3>2, <3>3, <3>4 DEF SetupInv
  <2>3. CASE UNCHANGED <<step, buffer>> /\ result' \in Failures
                /\ sock' \in {"none", "open", "closed"}
    BY <1>6, <2>1, <2>3, FailingStep DEF SetRing
  <2> QED
    BY <1>1, <1>6, <2>2, <2>3 DEF SetRing, GiveUp, Failures, SetupTypeOK
<1>7. CASE BindSucceeds
  <2>1. step = BindAt(function) /\ result = "setup"
    BY <1>1, <1>7, StepPlaces DEF BindSucceeds, At
  <2>2. /\ step' = step + 1 /\ result' = "setup" /\ bound' = {Device}
        /\ UNCHANGED <<function, logfile, sock, buffer, taken>>
    BY <1>7, <2>1 DEF BindSucceeds, Continue
  <2>3. /\ step' \in 1 .. StartAt(function) /\ ~(step' <= SocketAt(function))
        /\ step' > BindAt(function)
    BY <1>1, <1>2, <2>1, <2>2, PlacesAreOrdered
  <2>4. ~(function = "AFPCreateSocket" /\ step' > RingAt(function))
    BY <1>1, <2>1, <2>2, PlacesAreOrdered
  <2>5. SetupTypeOK'
    BY <1>1, <1>2, <2>2, <2>3 DEF SetupTypeOK, Devices
  <2> QED
    BY <1>3, <2>1, <2>2, <2>3, <2>4, <2>5 DEF SetupInv
<1>8. CASE BindFails
  <2>1. step = BindAt(function) /\ result = "setup"
    BY <1>1, <1>8, StepPlaces DEF BindFails, At
  <2>2. CASE function = "AFPPacketProcessPoll"
    <3>1. /\ step' = step + 1 /\ result' = "setup"
          /\ UNCHANGED <<function, logfile, sock, bound, buffer, taken>>
      BY <1>8, <2>1, <2>2 DEF BindFails, Continue
    <3>2. /\ step' \in 1 .. StartAt(function) /\ ~(step' <= SocketAt(function))
          /\ step' > BindAt(function)
      BY <1>1, <1>2, <2>1, <3>1, PlacesAreOrdered
    <3>3. SetupTypeOK'
      BY <1>1, <1>2, <3>1, <3>2 DEF SetupTypeOK
    <3> QED
      BY <1>3, <2>1, <2>2, <3>1, <3>2, <3>3 DEF SetupInv
  <2>3. CASE function # "AFPPacketProcessPoll"
    BY <1>1, <1>8, <2>1, <2>3, FailingStep DEF BindFails, GiveUp, Failures, SetupTypeOK
  <2> QED
    BY <2>2, <2>3
<1>9. CASE Start
  <2>1. step = StartAt(function) /\ result = "setup"
    BY <1>1, <1>9, StepPlaces DEF Start, At
  <2>2. Frames' = Frames
    BY <1>9 DEF Start, Frames
  <2>3. SetupTypeOK'
    BY <1>1, <1>9 DEF Start, SetupTypeOK
  <2> QED
    BY <1>9, <2>1, <2>2, <2>3 DEF Start, SetupInv
<1>10. CASE Take
  <2>1. /\ result = "started" /\ result' = "started" /\ step = StartAt(function)
        /\ UNCHANGED <<function, step, logfile, sock, bound>>
    BY <1>10 DEF Take, SetupInv
  <2>2. ~(step <= SocketAt(function))
    BY <1>1, <2>1, PlacesAreOrdered
  <2>3. SetupTypeOK'
    BY <1>1, <1>10, <2>1, FramesOfTake DEF SetupTypeOK
  <2>4. Frames' \subseteq Frames
    BY <1>1, <1>10, FramesOfTake
  <2> QED
    BY <2>1, <2>2, <2>3, <2>4 DEF SetupInv
<1>11. ASSUME NEW d \in Devices, Receive(d)
       PROVE  SetupInv'
  <2>1. d \in bound /\ UNCHANGED <<function, step, logfile, sock, bound, taken, result>>
    BY <1>11 DEF Receive
  <2>2. ~(step <= SocketAt(function))
    BY <2>1 DEF SetupInv
  <2>3. SetupTypeOK'
    BY <1>1, <1>11, <2>1, FramesOfReceive DEF SetupTypeOK
  <2>4. Frames' = Frames \cup {d}
    BY <1>1, <1>11, FramesOfReceive
  <2>5. function = "AFPCreateSocket" /\ step > RingAt(function) => bound = {Device}
    BY <1>1, <1>2, PlacesAreOrdered DEF SetupInv
  <2> QED
    BY <2>1, <2>2, <2>3, <2>4, <2>5 DEF SetupInv
<1>12. CASE UNCHANGED setupVars
  BY <1>12 DEF setupVars, SetupInv, SetupTypeOK, Frames
<1> QED
  BY <1>4, <1>5, <1>6, <1>7, <1>8, <1>9, <1>10, <1>11, <1>12 DEF SetupNext
-----------------------------------------------------------------------------
(* The theorems.                                                           *)

LEMMA SetupInvariant == SetupSpec => []SetupInv
  BY SetupInvInit, SetupInvStep, PTL DEF SetupSpec

\* Only AFPPacketProcessPoll, which ignores a failed bind, can begin its loop
\* on a socket that receives from every interface, whatever fails on the way
\* (source-af-packet.c:129, 474, 585, 695).
THEOREM SetupBinds == SetupSpec => []BoundWhenStarted
<1>1. SetupInv => BoundWhenStarted
  <2> SUFFICES ASSUME SetupInv, result = "started", function # "AFPPacketProcessPoll"
               PROVE  bound = {Device}
    BY DEF BoundWhenStarted
  <2>1. SetupTypeOK /\ step = StartAt(function)
    BY DEF SetupInv
  <2>2. step > BindAt(function)
    BY <2>1, PlacesAreOrdered
  <2> QED
    BY <2>2 DEF SetupInv
<1> QED
  BY <1>1, SetupInvariant, PTL

\* The ring that AFPCreateSocket returns never holds a frame of another
\* interface: what came in before the bind is thrown away with the queue
\* (source-af-packet.c:111-136).
THEOREM CreatedRingStaysClean == SetupSpec => []CreatedRingIsClean
<1>1. SetupInv => CreatedRingIsClean
  <2> SUFFICES ASSUME SetupInv, function = "AFPCreateSocket", result = "started"
               PROVE  Frames \subseteq {Device}
    BY DEF CreatedRingIsClean, OnlyDeviceFrames
  <2>1. SetupTypeOK /\ step = StartAt(function)
    BY DEF SetupInv
  <2>2. step > RingAt(function)
    BY <2>1, PlacesAreOrdered
  <2> QED
    BY <2>2 DEF SetupInv
<1> QED
  BY <1>1, SetupInvariant, PTL

\* No capture function throws away a frame it received after its bind: the
\* only step that empties the queue is behind it (source-af-packet.c:447-474,
\* 563-585, 695).
THEOREM BoundFramesAreKept == SetupSpec => KeepsBoundFrames
<1>1. SetupInv /\ [SetupNext]_setupVars
        => [function # "AFPCreateSocket" /\ bound = {Device} =>
              Len(buffer') + Len(taken') >= Len(buffer) + Len(taken)]_setupVars
  <2> SUFFICES ASSUME SetupInv, SetupNext, function # "AFPCreateSocket", bound = {Device}
               PROVE  Len(buffer') + Len(taken') >= Len(buffer) + Len(taken)
    OBVIOUS
  <2>1. /\ SetupTypeOK /\ step > BindAt(function)
        /\ Len(buffer) \in Nat /\ Len(taken) \in Nat
    BY DEF SetupInv, SetupTypeOK
  <2>2. ~SetRing
    <3>1. step # RingAt(function)
      BY <2>1, PlacesAreOrdered, StepPlaces
    <3> QED
      BY <2>1, <3>1, StepPlaces DEF SetRing, At
  <2>3. CASE Take
    BY <2>1, <2>3, FramesOfTake
  <2>4. ASSUME NEW d \in Devices, Receive(d)
        PROVE  Len(buffer') + Len(taken') >= Len(buffer) + Len(taken)
    <3>1. Len(buffer') = Len(buffer) + 1 /\ taken' = taken
      BY <2>1, <2>4, FramesOfReceive DEF Receive
    <3> QED
      BY <2>1, <3>1
  <2>5. CASE UNCHANGED <<buffer, taken>>
    BY <2>1, <2>5
  <2> QED
    BY <2>2, <2>3, <2>4, <2>5
       DEF SetupNext, OpenLog, GetDevice, OpenSocket, MapRing, QueryDevice,
           BindSucceeds, BindFails, Start
<1> QED
  BY <1>1, SetupInvariant, PTL DEF SetupSpec, KeepsBoundFrames
=============================================================================
