# networking-c: formal models, checks and proofs

TLA+ modules for the packet capture programs of this repository, the TLC
configurations that check them on small instances, and TLAPS proofs for every
value of the constants. `PROJECT.json` lists the components, the runs, the
source lines each definition stands for, the hazards and the theorems.

## 1. Inventory

| part | source | state | operations | models |
|---|---|---|---|---|
| receive ring | `sniff_afpacket/src/source-af-packet.c` | slots, `tp_status`, `frame_num`; kernel head | kernel reserve / copy / drop, sniffer read / release, close | `RxRing`, `CaptureQueue` |
| `sniff_packet ring` | same, 594-649; `main.c` 31-38 | `running`, `fds`, `stats` | poll, test, process, release, exit, signal | `RingPolling` |
| ring loop without poll | same, 483-519 | as above | test, sleep, process, release, exit, signal | `RingNoPolling` |
| `sniff_packet poll` | same, 699-733 | socket queue, `buffer`, `stats` | poll, recvfrom, process, exit, signal | `RecvPoll` |
| capture setup | same, 36-146, 408-487, 523-602, 652-704 | socket, ring, binding, log | the setup steps and their failures | `CaptureSetup` |
| classification and dump | same, 149-273, 361-406 | protocol counters, log | `ProcessPacket`, `print_tcp_packet`, `PrintData` | `FrameLayout`, `ProcessPacket`, `PrintData` |
| libpcap sniffer | `sniff/src/sniff.c` | locals of `callback` | open, filter, loop, callback, TCP / UDP / DNS dispatch | `FrameLayout`, `PcapCallback` |
| header decoders | `sniff/src/{tcp,udp,dns,utils}.c` | none | the fields of TCP, UDP and DNS headers | `HeaderFields` |
| DNS question | `sniff/src/dns.c` 132-217 | heap buffer, its length and capacity | decode name, type, class | `QueryName` |
| `sniff_packet` | `sniff_afpacket/src/main.c` | signal handlers, `running` | start, choice of the function, end | `Sniffer`, `CaptureLoop` |
| benchmark | `sniff_afpacket/scripts/benchmark.sh` | the line of the script, the method | start, sleep, replay, kill, wait, collect | `Benchmark` |
| statistics | `sniff_afpacket/src/stats.c` | packets, bytes, times | reset, count, print | the packet count only |
| `ethernet.c`, `demo.c`, `list_device.c`, `decryption.c`, `capture_traffic.sh` | | none kept | | not modelled |

How they interact. The kernel and a ring loop share the mapped ring and nothing
else: ownership of a slot is its `tp_status` word. `poll()` tells the loop that
*some* slot is ready. A signal handler in the same thread clears `running`. The
loops hand each frame to `ProcessPacket`, which counts it and, for TCP, writes
three sections with `PrintData`. `sniff()` is separate: libpcap calls
`callback()` for one packet at a time, and a UDP packet to port 53 ends in the
DNS decoders. `benchmark.sh` starts `sniff_packet`, waits two seconds, replays
traffic to its interface, sends SIGTERM and waits; a process id and an output
file are all that connects the two.

What is hard here: CPUs that complete ring slots out of order; the wrap of two
independent indices; a test of `tp_status` that is used some steps later; a
signal at any step; a link that goes down and comes back; `poll()` and
`recvfrom()` seeing different errors; frames that arrive during the setup;
offsets with options, padding and other protocols; a buffer that grows by
doubling. `PROJECT.json` "hazards" has each at its line.

What makes the parts correct:

- ring and loops: frames in order, each once, intact; none lost unless the ring
  or the receive buffer is full; the printed total accounts for every accepted
  frame; a signal ends the capture;
- setup: the loop runs on a socket bound to one interface and takes frames of
  that interface only; nothing received after the bind is thrown away;
- classification and dump: counters, dumps and frames agree; every byte is
  printed once, in both columns;
- libpcap sniffer and its decoders: every packet is decoded at the offsets its
  headers give, bit for bit; no write past the heap buffer;
- process and benchmark: whenever SIGTERM comes, the process ends within a turn,
  and the metrics are there unless the setup, the log or the interface failed.

## 2. Modules

```
CaptureQueue        a lossy FIFO: what a capture path promises the decoders
   ^ implements
RxRing              kernel + any reader that keeps to the protocol
   ^ implements
RingPolling   RingNoPolling          (EXTEND RxRing with a thread)

CaptureQueue  <- implements -  RecvPoll

CaptureLoop  <- implements -  RingPolling, RecvPoll   what main() sees of a loop
CaptureSetup                                          the way to the loop
   both in
Sniffer             a process of sniff_packet        (EXTENDS CaptureSetup, INSTANCE CaptureLoop)
   in
Benchmark           the script and the process       (EXTENDS Sniffer)

FrameLayout  <- ProcessPacket, PcapCallback      (EXTEND it)
PrintData    <- ProcessPacket                    (calls it three times a TCP frame)
HeaderFields <- QueryName <- PcapCallback        (the decoders callback() ends in)
```

**CaptureQueue** has four actions: a frame is accepted, lost (only when every
place is taken), handled, and its place freed.

**RxRing.** `status`, `data`, `owner` are per slot; `owner` is the CPU between
its reservation and the store of `TP_STATUS_USER`. `KernelReserve`, `KernelFill`,
`KernelDrop`, `LinkDown`, `LinkUp` and `PollEvents` are the kernel as the code
uses it and are marked external. POLLIN follows the kernel's rule for a
TPACKET_V1 ring, the version the code gets although its comments say V2 (it
sets no version and uses `struct tpacket_hdr`): the slot before the head is
not the kernel's. `ProcessFrame`, `ReleaseFrame` and `CloseRing` are what both
loops do. `frame_num` is a local, so storing `tp_status` and advancing are one
step; processing and releasing are two, and the kernel can run in between.
`RingReader` allows every reader that takes only slots that are its own.

**RingPolling**, **RingNoPolling**, **RecvPoll.** `pc` names the next step of
the loop (the modules list the lines). `PollReturnsReady` and `PollTimesOut` are
the two returns of `poll()`; `Signal` is the handler, which can interrupt a
`poll()` that waits, or run at any other step without interrupting anything.
The totals `print_stats` prints are `report`; the times and rates are left out.
In `RecvPoll` a pending socket error makes `recvfrom()` fail before any queued
frame is returned, and clears the error.

**CaptureSetup.** The four functions take the same steps in different orders, so
`Steps(f)` is the order and each kind of step is one action with its failure.
Each received or taken frame is represented by its interface. `exit()` is
taken to close the socket.

**CaptureLoop.** What remains of a loop when the ring or the socket queue is one
sequence of frames: a turn that takes at most one of them, the ways out, and the
printed total. `result` is "turn" from `poll()` on. The ring loop may break only
with two frames in the ring or after a link failure: that is what is left, at
this level, of a slot that is still being filled. `RingPolling!ImplementsLoop`
and `RecvPoll!ImplementsLoop` are the refinements, so what `Benchmark` shows of
this loop it shows of the two real ones.

**Sniffer.** `main()` installs the handlers, calls the function its argument
names, and returns. `result` says where the process is and takes the values of
`CaptureSetup` and `CaptureLoop` on the way. SIGTERM kills a process without
handlers, clears `running` of one with them, also in its setup, and does nothing
to one that has ended. A frame that is dumped to a log that could not be opened
may end the process (`Crash`): a frame that is not TCP does not.

**Benchmark.** One action per line of `run_benchmark` that does something. `limit`
is a history variable: how many frames the process may have taken when it ends,
noted when it is told to end. Assumed: `sudo` passes SIGTERM on; the interface of
the process gets frames from `tcpreplay` only, other interfaces at any time;
`sleep` ends at any time, since nothing ties it to the setup it waits for.

**ProcessPacket.** A frame is a record of the fields the code looks at
(`FrameLayout`), and what the code prints is a range of offsets. Where a packet ends
(`PacketEnd`) is what its IP header says, and where the frame ends (`FrameLength`) is
what the code goes by: between them is Ethernet padding. `ProcessPacket`
counts the frame and leaves the sections `print_tcp_packet` asks for in `calls`;
`CallPrintData` enters `PrintData` for the first, `PrintDataRuns` is an iteration
of its loop and `PrintDataReturns` ends the call. `SlotSpace` is what a slot has
for a frame.

**HeaderFields.** The decoders as operators on bytes, mask and shift as `\div` and
`%`, next to the wire formats: `TcpHeaderBytes(h)` is what a header `h` looks like
in a packet.

**PcapCallback.** A packet is a frame and the bytes from its transport header on.
`callback()` leaves `ipHeaderLength` unset for frames that are neither IPv4 nor
IPv6: it is any member of `StackValues` then. `headerPtr` is what the decoders get
to see: the transport header if they look at its place, and one of `Strays`
anywhere else. `shown` is what was printed. `processDNS` enters `QueryName` with the
question and the memory behind the packet, which a name without an end runs into
and which is one of `Strays`, too; `DecodeQuestion` is an iteration of its loops.

**PrintData**, **QueryName.** One iteration of the loop is one action, so that
the invariants can be proved without recursive operators. `QueryName` starts at its end, so that it
can be called again and again. What lies behind the bytes it is given reads as 0, which
ends a name; `qnamelen` has its 16 bits.

Definitions introduced as "Seeded bug" belong to no specification: they are
mutated forms of the definition that follows them, and replacing that definition
by one of them makes the property named in `PROJECT.json` "mutants" fail.

## 3. Runs

All runs use `CHECK_DEADLOCK FALSE`: every program here ends.

| run | what it shows |
|---|---|
| `ring` | `RingNoPolling` on the ring: the invariants of the ring, loss only when full, refinement of the ring protocol and of the queue, every accepted frame processed, a signal ends it; 3 slots, 2 CPUs, 7 frames, link failures |
| `ring_polling` | the loop refines the ring protocol and `CaptureLoop`, accounts for every frame, ends only after a signal, a link failure or at a slot being filled while another is ready, processes every frame until then, and does end on a signal; 3 slots, 2 CPUs, 5 frames |
| `ring_polling_break` | violation: the loop ends at a slot being filled while a later one is ready |
| `ring_polling_error` | violation: POLLERR ends the capture instead of being skipped |
| `recv_poll` | refinement of the queue and of `CaptureLoop`, no blocking in `recvfrom()`, totals, how each kind of end comes; 2 buffered frames, 5 frames |
| `setup` | all four functions, with failing steps: who starts on a bound socket, whose ring is clean, and that no frame received after the bind is thrown away |
| `setup_ring_foreign` | violation: the ring loops set up the ring first and take foreign frames |
| `process_packet` | the counters agree, all of a segment is dumped and nothing from behind its frame, byte for byte, with options, padding and frames cut short, and the dump of every frame that is taken for TCP stays in the slot |
| `pcap_callback` | IPv4 and IPv6 packets decoded at the right offsets, after any earlier packet; header fields bit for bit; DNS questions down to name, type and class, in a heap buffer that is large enough |
| `pcap_payload` | violation: the TCP payload is printed from the wrong address |
| `benchmark` | one iteration, poll then ring: it ends, wherever SIGTERM finds the process, with the metrics, or without any for one of four reasons; 5 frames a process, failing steps, two interfaces, link failures |
| `benchmark_unprocessed` | violation: replayed frames that wait when SIGTERM comes are not in the metrics |

**Bounds.** `MaxArrivals` bounds the frames offered; it is the only bound of the ring,
socket and benchmark models. Seven frames on three slots wrap both indices twice, five wrap them once; three slots are the least for which
a ready slot, a slot being filled and a free slot exist at once, and two CPUs the
least for completion out of order. Five frames and a buffer of two fill, overflow,
drain and refill the socket queue. In `setup`, three frames on two interfaces suffice
for a frame before the bind, one after it and one taken; in `benchmark`, five are
enough for frames taken before SIGTERM, one in its turn, and more that wait (`limit`
plus two), and for the two that the break of the ring loop needs. The sections printed
are headers of 20 to 60 bytes and payloads of -2 to 72, and sixteen bytes make a line,
so full, short and empty last lines and sections without a byte all occur; two frames
make six sections, so no state is left over from one to the next; an ARP frame whose
byte 23 is 6 is dumped like a TCP frame; `SlotSpace` is the length of the longest of
the frames that fit, so that one byte more is seen, and the frames with all options
are longer. In `pcap_callback`, `MaxPackets` is 2, one packet and what it leaves
behind for the next; names have up to three labels of up to four octets, which pass
the capacities 1 to 16, and there are the root name, a label with a dot, one with a
NUL and one that goes on past the captured bytes, into one of `Strays`; `Strays` has
two sequences, one that looks like a DNS query and one that does not. TLC's integers
have 32 bits, so the sequence numbers in the runs begin with a byte below 128; the
proofs have no such bounds.

**Fairness.** `WF_vars(Thread)`: the loop is one thread that the scheduler runs,
and `poll()` returns within `POLL_TIMEOUT` (100 ms), so a timeout is an
action of the thread. `WF` on each CPU's `KernelFill`: a CPU that reserved a
slot ends its copy. In `Benchmark`, `WF` of the process and of the script: both are
scheduled, and `sleep` and `tcpreplay` end. Nothing is assumed of arrivals,
signals or the link.

**Memory order.** Both sides' stores are modelled in program order. The code
has no barriers and no `volatile` on the header; CMake gives no optimisation
level, and x86-64 keeps the order of stores. A build with optimisation or for
a weaker machine is not covered.

## 4. Proofs

All theorems are checked by `tlapm`, for every value of the constants that the
assumptions of the modules allow; TLC evaluates each assumption in a run. They are

- `RingAssumption`, `RecvAssumption`: at least one slot or place, and CPUs that are
  told from "no CPU";
- `SetupAssumption`: the functions are the four of the file, and the two interfaces
  differ;
- `MethodsAssumption`: the script is given at least one method, "ring" or "poll";
- `FramesAssumption`: the fields of a frame have their widths, its data is any number of
  bytes, also a negative one for a frame that is too short for its headers, with any
  padding, and a slot has room for the longest headers (120 bytes; a slot is
  `FRAME_SIZE`, 2048);
- `PacketsAssumption`: what follows the IP header of a packet is what its protocol
  says, whole and not a fragment, and pointers point to bytes. Nothing else is assumed of
  payloads, questions or the values of fields.

- `RxRingProofs`. `FifoExactlyOnce` is not inductive: nothing in it says what the
  slots hold. `RingInv` does. The accepted and unreleased frames fill one window
  of slots from `frame_num` to `head` (`WindowOK`); a slot in the window is ready
  with the frame of its place or being filled with it, and one outside is free
  (`SlotOK`); no CPU fills two slots (`OneSlotPerCpu`). From it follow
  `RingFifo`, `RingFrameStable`, `RingLosesOnlyWhenFull`, `RingLeaksNoFrame` (a
  bijection between the window and the slots in use) and `RingImplementsQueue`.
- `RingPollingProofs`, `RingNoPollingProofs`. `ThreadInv` says what each `pc` implies;
  with it every step of a loop is a step of `RingSpec` or stutters, and the ring
  theorems carry over (`PollingFifo`, `NoPollingFifo`, `PollingReportAccounts`).
  `PollingEndsOnlyWhileFilling` needs that the ring holds a frame, or the link has
  failed, whenever `tp_status` is tested: POLLIN says that the slot before the head is
  in use, and nobody but the loop frees one; so a slot that is not ready is being
  filled, and the one that made `poll()` return is still ready when it is tested
  (`ReadyInv`). `PollingImplementsLoop` needs the same: a break leaves two frames or
  more in the ring. `OneCpuEndsOnlyBySignal`, a theorem without a run, adds that one CPU
  fills at most the slot before the head, so POLLIN means that the slot at `frame_num`
  is ready and the loop ends only after a signal or a link failure.
- `RecvPollProofs`. `RecvInv`: the accepted frames are those taken out and those
  queued. It gives `RecvNeverWaits`, `RecvReportAccounts`, `RecvImplementsQueue` and
  `RecvImplementsLoop`. `RecvFifo`, a theorem without a run, says what the queue is for:
  the k-th frame processed is the k-th accepted. It needs that the frames taken and those
  queued are numbered in one sequence (`OrderInv`).
- `CaptureSetupProofs`. The three properties speak of what was received, and what is
  received depends on the step: `SetupInv` says which steps have the bind and the
  ring behind them (`BindAt`, `RingAt`), that nothing is received before the socket is
  open, and that what `AFPCreateSocket` has in its ring came in after its bind.
  `BoundFramesAreKept` is an action property: the only step that empties the buffer
  comes before the bind in every order.
- `BenchmarkProofs`. `MetricsInv` ties the report to how the process ended: it printed
  its total once, or nothing, and then it was killed before its first step of the setup,
  gave up in the setup, had no log, or was the recvfrom loop with a failed interface
  (`EndedWithoutMetrics`). `LimitInv` counts the frame that a turn may still take
  when the flag is cleared; `limit` alone is not inductive, since the turn takes its
  frame after the signal.
- `ProcessPacketProofs`. The open line of `PrintData` holds the bytes since the last
  multiple of 16, so both columns of every line show the same bytes
  (`DumpIsComplete`, for any sequence of calls with any sizes). Every step of
  `ProcessPacket` is a step of `PrintData` or leaves it alone, which gives
  `SectionsArePrinted` and `SectionsAreAligned`. `PacketInv` is about the log: the
  sections left in `calls` and printed in `logfile` add up to three for each frame counted
  as TCP (`CountsInv`, for `CountersAlwaysAgree`), and those of a frame are at the place
  that the number of TCP frames before it gives (`LogInv`). `SegmentsAreDumped` and
  `DumpStaysInSlot` are arithmetic on `LogInv`: header lengths are at most 60 bytes, and
  the packet ends in its frame (`PacketEnd` is at most `FrameLength`, and the code goes
  by the second). That the section ends with the packet is not so (section 5).
- `PcapCallbackProofs`, in four parts. Decoding the bytes of a header gives the header
  back, for every TCP, UDP and DNS header (`TcpHeaderIsRead`, `UdpHeaderIsRead`,
  `DnsHeaderIsRead`): no field is read from a wrong place, cut short or mixed with its
  neighbour. For every sequence of questions, of any bytes, the capacity is at least
  the length and at most twice it (`QueryNameInBounds`): a dot is written only into a
  buffer that is not empty. `NamesAreDotted` and `TypeAndClassAreRead` follow from
  `DecodeInv` (the second for names whose length fits the 16 bits of `qnamelen`): at
  every octet there is a set of offsets, the length octets passed so far, that splits
  the bytes read into labels, and the string is those bytes with a dot for each of
  them. That set is what a recursive definition of the name would compute; stated as
  an existential it needs no recursion. `CallbackInv` holds the three together: the
  decoder that is entered has the packet's own header, whatever `ipHeaderLength` was
  for the packet before, and what is shown is right from then on. `PacketsAreDecoded`
  and `FieldsAreShown` use it with the theorems on headers, and `QuestionsAreBytes`
  (what `callback()` does is a behaviour of `QuestionSpec`) carries over those on
  questions.

Model-checked only: the liveness properties `SignalEndsCapture`, `FramesProcessed`,
`LinkFlapEndsCapture` and `BenchmarkFinishes`, since the prover knows no fairness; and
what the five runs with a violation show, which needs a counterexample and no proof.
Every other property of a run is a theorem.

## 5. Disagreements between the code and its comments

With a run that shows it and an entry under "findings": the break on a slot that is
not ready (`source-af-packet.c` 620-621), the error events tested on `events`
(609-615), frames of other interfaces in the ring (563, 592), the payload
pointer (`sniff.c` 160, against its comment at 199-201), and SIGTERM that overtakes
the replayed frames (`benchmark.sh` 40-43).

Read in the code, without a run; where a property excepts such a case, it says nothing
about it:

- The section "Data Payload" ends with the frame (`source-af-packet.c` 235, 270) and not
  with the packet whose total length is printed (214): it shows the Ethernet padding of
  a short frame. `SegmentIsDumped` asks that the section has all of the segment and
  nothing from behind the frame.
- The protocol is read at the place that IPv4 has for it, whatever the EtherType: an
  ARP frame whose byte 23 is 6 is counted and dumped as TCP (154), although the comment
  at 175 has ARP among the others, and `sniff.c` decodes an IPv6 packet as what a byte
  of its source address says (239). The runs have such frames, and no property asks for
  another classification.
- The type and the class of a query for the root name are read one octet too far
  (`dns.c` 187-189, `dns.h` 62-74), and those of a name with a NUL in a label too early,
  where `strlen()` ends. `TypeAndClassRead` excepts both.
- A log that cannot be opened is only reported (`source-af-packet.c` 531, 661): the process ends at the first
  TCP frame, and `benchmark.sh` (45) finds no metrics. The same holds for a link failure
  that ends the recvfrom loop without statistics (718), a setup that gives up, and a
  process killed before its handlers are there. `MetricsCollected` names these four as
  the only reasons.
- A frame that is longer than its slot is dumped as long as it was on the wire (`source-af-packet.c` 627):
  `DumpInSlot` is about frames that fit.
- `AFPPacketProcessPoll` reports a failed `bind()` and goes on to capture on every
  interface (`source-af-packet.c` 695). `BoundWhenStarted` therefore speaks of the other functions only.
- The "IP Header" section shows the first bytes of the Ethernet header (same, 263), and
  the "TCP Header" section begins in it (266). The model has these offsets; no
  property asks for others.
- A dot in a label of a name looks like one between labels, which `NameIsDotted`
  allows for.
- A TCP header that says it is shorter than 20 bytes is copied into an array of that
  length and read beyond it (`sniff.c` 148-151); `FieldsAreTheHeaders` excepts it.
- `sniff/README.md:3` passes two arguments and `demo.c:15` wants three; `main.c:43`
  prints the usage and goes on; `benchmark.sh` writes the column `pps` and reads
  `packets_per_second`.

## 6. Not modelled

Printed text, rates and clocks; argument handling (`demo.c`, and the usage message
of `main.c`); `ethernet.c`, `list_device.c` and `decryption.c` (one pass of reads
or library calls that keep no state); making and removing the interfaces and the
summary of `benchmark.sh`; `capture_traffic.sh`; failures of `malloc` and `realloc`;
frames longer than a slot, whose `tp_len` the dump would follow out of it; memory
that is never freed; the contents of the output stream that the signal handler
and the loop share.

## 7. Plan

Done, in this order, the most important behaviour first: `CaptureQueue`,
`RxRing`, the three loops, their proofs, `CaptureSetup`, `PrintData` and
`ProcessPacket`, the DNS question, the header decoders, the whole of `callback()`,
`CaptureLoop` with its two refinements, `Sniffer` and `Benchmark`; then the proofs of
the setup, the benchmark, the dump and the libpcap sniffer.

Left: `RingNoPolling` as a `CaptureLoop`, checked and proved, as the other two loops are;
`main.c` does not call that loop.
