---------------------------- MODULE CaptureSetup ----------------------------
(***************************************************************************)
(* From the start of a capture function to its loop: the log file, the     *)
(* environment, the socket, the ring and the bind, with every early        *)
(* return, while frames already arrive.                                    *)
(*                                                                         *)
(* socket(AF_PACKET, SOCK_RAW, ETH_P_ALL) receives from every interface    *)
(* until bind() names one; PACKET_RX_RING throws away what was queued.     *)
(* The four functions take the same steps in three orders, so an order is  *)
(* a sequence of step names and each step is one action.                   *)
(***************************************************************************)
EXTENDS Naturals, Sequences

CONSTANTS
    Functions,      \* the functions a run looks at
    Device,         \* the interface named by DEVICE_INTERFACE
    OtherDevice,    \* stands for every other interface
    MaxArrivals     \* bound: frames received in a behaviour

RingLoops == {"AFPPacketProcessUsingRingBufferNoPolling",
              "AFPPacketProcessUsingRingBufferPolling"}

ASSUME SetupAssumption ==
    /\ Functions \subseteq RingLoops \cup {"AFPPacketProcessPoll", "AFPCreateSocket"}
    /\ Device # OtherDevice
    /\ MaxArrivals \in Nat

Devices == {Device, OtherDevice}

\* Seeded bugs: the ring functions bind before they set up the ring;
\* AFPCreateSocket binds after it.
StepsBindFirst(f) ==
    <<"fopen", "getenv", "socket", "ifindex", "bind", "ring", "mmap", "start">>
StepsBindLast(f) == <<"socket", "ifindex", "ring", "bind", "linktype", "start">>

\* The order of the steps of each function.
Steps(f) ==
    CASE f \in RingLoops ->
            <<"fopen", "getenv", "socket", "ring", "mmap", "ifindex", "bind", "start">>
      [] f = "AFPPacketProcessPoll" ->
            <<"fopen", "getenv", "socket", "ifindex", "bind", "start">>
      [] f = "AFPCreateSocket" ->
            <<"socket", "ifindex", "bind", "ring", "linktype", "start">>

VARIABLES
    function,   \* the function that runs
    step,       \* the index in Steps(function) of its next step
    logfile,    \* was the log opened?
    sock,       \* "none", "open" or "closed"
    bound,      \* the interfaces the socket receives from
    buffer,     \* the interface of each frame received and not yet taken
    taken,      \* the interface of each frame the loop took
    result      \* "setup", "started", or how the function gave up

setupVars == <<function, step, logfile, sock, bound, buffer, taken, result>>

SetupInit ==
    /\ function \in Functions
    /\ step = 1
    /\ logfile = FALSE
    /\ sock = "none"
    /\ bound = {}
    /\ buffer = <<>>
    /\ taken = <<>>
    /\ result = "setup"

\* How a function gives up.
Failures == {"exit", "return 1", "RESULT_FAILURE"}

At(name) == result = "setup" /\ Steps(function)[step] = name

Continue == step' = step + 1 /\ UNCHANGED result

\* close() if the socket was opened, and return or exit.  exit() and errx()
\* end the process, which closes the socket if the code did not.
GiveUp(how) ==
    /\ result' = how
    /\ sock' = IF sock = "open" THEN "closed" ELSE sock
    /\ UNCHANGED step
-----------------------------------------------------------------------------
\* fopen() failing is reported and otherwise ignored.
OpenLog ==
    /\ At("fopen")
    /\ logfile' \in BOOLEAN
    /\ Continue
    /\ UNCHANGED <<function, sock, bound, buffer, taken>>

\* getenv("DEVICE_INTERFACE"); errx() if it is not set.
GetDevice ==
    /\ At("getenv")
    /\ \/ Continue /\ UNCHANGED sock
       \/ GiveUp("exit")
    /\ UNCHANGED <<function, logfile, bound, buffer, taken>>

OpenSocket ==
    /\ At("socket")
    /\ \/ sock' = "open" /\ bound' = Devices /\ Continue
       \/ /\ GiveUp(CASE function \in RingLoops -> "exit"
                      [] function = "AFPPacketProcessPoll" -> "return 1"
                      [] function = "AFPCreateSocket" -> "RESULT_FAILURE")
          /\ UNCHANGED bound
    /\ UNCHANGED <<function, logfile, buffer, taken>>

\* setsockopt(PACKET_RX_RING): the ring starts empty.
SetRing ==
    /\ At("ring")
    /\ \/ buffer' = <<>> /\ Continue /\ UNCHANGED sock
       \/ /\ GiveUp(IF function = "AFPCreateSocket" THEN "RESULT_FAILURE" ELSE "exit")
          /\ UNCHANGED buffer
    /\ UNCHANGED <<function, logfile, bound, taken>>

MapRing ==
    /\ At("mmap")
    /\ \/ Continue /\ UNCHANGED sock
       \/ GiveUp("exit")
    /\ UNCHANGED <<function, logfile, bound, buffer, taken>>

\* AFPGetIfnumByDev and AFPGetDevLinktype do not return on failure: errx().
QueryDevice ==
    /\ At("ifindex") \/ At("linktype")
    /\ \/ Continue /\ UNCHANGED sock
       \/ GiveUp("exit")
    /\ UNCHANGED <<function, logfile, bound, buffer, taken>>

BindSucceeds ==
    /\ At("bind")
    /\ bound' = {Device}
    /\ Continue
    /\ UNCHANGED <<function, logfile, sock, buffer, taken>>

\* Seeded bug: every function ignores a failed bind.
BindFailsIgnored ==
    /\ At("bind")
    /\ Continue
    /\ UNCHANGED <<function, logfile, sock, bound, buffer, taken>>

\* AFPPacketProcessPoll reports a failed bind and captures all the same.
BindFails ==
    /\ At("bind")
    /\ IF function = "AFPPacketProcessPoll"
       THEN Continue /\ UNCHANGED sock
       ELSE GiveUp(IF function = "AFPCreateSocket" THEN "RESULT_FAILURE" ELSE "exit")
    /\ UNCHANGED <<function, logfile, bound, buffer, taken>>

\* "Capturing on interface", statistics and poll structure set up: the loop
\* begins.  AFPCreateSocket returns RESULT_OK here.
Start ==
    /\ At("start")
    /\ result' = "started"
    /\ UNCHANGED <<function, step, logfile, sock, bound, buffer, taken>>

\* The loop takes a frame.
Take ==
    /\ result = "started"
    /\ buffer # <<>>
    /\ taken' = Append(taken, Head(buffer))
    /\ buffer' = Tail(buffer)
    /\ UNCHANGED <<function, step, logfile, sock, bound, result>>

\* The kernel receives a frame on interface d.
Receive(d) ==
    /\ sock = "open"
    /\ d \in bound
    /\ Len(buffer) + Len(taken) < MaxArrivals
    /\ buffer' = Append(buffer, d)
    /\ UNCHANGED <<function, step, logfile, sock, bound, taken, result>>

SetupNext ==
    \/ OpenLog
    \/ GetDevice
    \/ OpenSocket
    \/ SetRing
    \/ MapRing
    \/ QueryDevice
    \/ BindSucceeds
    \/ BindFails
    \/ Start
    \/ Take
    \/ \E d \in Devices : Receive(d)

SetupSpec == SetupInit /\ [][SetupNext]_setupVars
-----------------------------------------------------------------------------
(* Properties.                                                             *)

\* Type correctness: a function is always at one of its steps, up to the
\* loop (source-af-packet.c:104-146, 408-487, 523-602, 652-704).
SetupTypeOK ==
    /\ function \in Functions
    /\ step \in 1 .. Len(Steps(function))
    /\ logfile \in BOOLEAN
    /\ sock \in {"none", "open", "closed"}
    /\ bound \subseteq Devices
    /\ buffer \in Seq(Devices)
    /\ taken \in Seq(Devices)
    /\ result \in {"setup", "started"} \cup Failures

Frames == {buffer[i] : i \in DOMAIN buffer} \cup {taken[i] : i \in DOMAIN taken}

\* "Capturing on interface %s": once the loop runs, what it takes and will
\* take came in on that interface (source-af-packet.c:447-481, 563-592).
OnlyDeviceFrames == result = "started" => Frames \subseteq {Device}

\* AFPCreateSocket, which binds before it sets up the ring, returns a ring
\* that never holds a frame of another interface, although the socket
\* received from all of them for a while (source-af-packet.c:111-136).
CreatedRingIsClean == function = "AFPCreateSocket" => OnlyDeviceFrames

\* Every function but AFPPacketProcessPoll ends its setup with a socket that
\* receives from one interface, or does not return to the caller or reach
\* its loop (source-af-packet.c:129, 474, 585).
BoundWhenStarted ==
    result = "started" /\ function # "AFPPacketProcessPoll" => bound = {Device}

\* No frame received after the bind is thrown away by a capture function:
\* the ring, whose setup empties the queue, is set up before
\* (source-af-packet.c:447-474, 563-585, 695).
KeepsBoundFrames ==
    [][function # "AFPCreateSocket" /\ bound = {Device} =>
          Len(buffer') + Len(taken') >= Len(buffer) + Len(taken)]_setupVars
=============================================================================
