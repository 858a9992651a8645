---------------------------- MODULE ProcessPacket ----------------------------
(***************************************************************************)
(* ProcessPacket and print_tcp_packet of sniff_afpacket: each frame is     *)
(* counted under the protocol its byte 23 names, and a TCP frame is dumped *)
(* to the log in three sections, one call of PrintData each.  The print    *)
(* functions for ICMP and UDP are not called.  A section is its title, the *)
(* offset it begins at in the buffer and its size; PrintData prints no     *)
(* byte if the size is negative.                                           *)
(***************************************************************************)
EXTENDS FrameLayout, PrintData, FiniteSets

CONSTANTS
    Frames,         \* the frames that can arrive
    SlotSpace,      \* bytes of a frame that fit into a ring slot
    MaxFrames       \* bound: frames processed in a behaviour

\* An IP and a TCP header with all their options; FRAME_SIZE is 2048 bytes.
LongestHeaders == 4 * 15 + 4 * 15

ASSUME FramesAssumption ==
    /\ \A f \in Frames :
          /\ f.byte9 \in 0 .. 255
          /\ f.ihl \in 0 .. 15
          /\ f.doff \in 0 .. 15
          /\ f.data \in Int
          /\ f.pad \in Nat
    /\ SlotSpace \in Nat /\ SlotSpace >= LongestHeaders
    /\ MaxFrames \in Nat

VARIABLES
    seen,           \* the frames processed so far
    total, icmp, igmp, tcp, udp, others,    \* the counters
    calls,          \* the sections PrintData is or will be called for
    calling,        \* is PrintData running for the first of them?
    logfile         \* the sections printed, in order

counters == <<total, icmp, igmp, tcp, udp, others>>
callVars == <<calls, calling, logfile>>
vars == <<Size, i, cells, lines, seen, total, icmp, igmp, tcp, udp, others,
          calls, calling, logfile>>

Init ==
    /\ DumpInit
    /\ seen = <<>>
    /\ total = 0 /\ icmp = 0 /\ igmp = 0 /\ tcp = 0 /\ udp = 0 /\ others = 0
    /\ calls = <<>>
    /\ calling = FALSE
    /\ logfile = <<>>

Section(title, from, size) == [title |-> title, from |-> from, size |-> size]

\* Seeded bug: the IP header is taken to have no options.
print_tcp_packet_no_options(f, len) ==
    LET header_size == EthernetLength + 20 + 4 * f.doff
    IN  <<Section("IP Header", 0, 20),
          Section("TCP Header", 20, 4 * f.doff),
          Section("Data Payload", header_size, len - header_size)>>

\* Seeded bug: the size of the payload section is that of the frame.
print_tcp_packet_whole_size(f, len) ==
    LET iphdrlen == 4 * f.ihl
        header_size == EthernetLength + iphdrlen + 4 * f.doff
    IN  <<Section("IP Header", 0, iphdrlen),
          Section("TCP Header", iphdrlen, 4 * f.doff),
          Section("Data Payload", header_size, len)>>

\* The header sections are taken from the start of the buffer, the payload
\* from behind the three headers.
print_tcp_packet(f, len) ==
    LET iphdrlen == 4 * f.ihl
        header_size == EthernetLength + iphdrlen + 4 * f.doff
    IN  <<Section("IP Header", 0, iphdrlen),
          Section("TCP Header", iphdrlen, 4 * f.doff),
          Section("Data Payload", header_size, len - header_size)>>

Count(counter, protocols, f) ==
    counter' = counter + (IF f.byte9 \in protocols THEN 1 ELSE 0)

\* Seeded bug: the break after ++icmp is missing.
ProcessFallsThrough(f) ==
    /\ calls = <<>>
    /\ Len(seen) < MaxFrames
    /\ seen' = Append(seen, f)
    /\ total' = total + 1
    /\ Count(icmp, {ICMP}, f)
    /\ Count(igmp, {ICMP, IGMP}, f)
    /\ Count(tcp, {TCP}, f)
    /\ Count(udp, {UDP}, f)
    /\ Count(others, 0 .. 255 \ {ICMP, IGMP, TCP, UDP}, f)
    /\ calls' = IF f.byte9 = TCP THEN print_tcp_packet(f, FrameLength(f)) ELSE <<>>
    /\ UNCHANGED <<dumpVars, calling, logfile>>

\* ProcessPacket is entered with the next frame.
Process(f) ==
    /\ calls = <<>>
    /\ Len(seen) < MaxFrames
    /\ seen' = Append(seen, f)
    /\ total' = total + 1
    /\ Count(icmp, {ICMP}, f)
    /\ Count(igmp, {IGMP}, f)
    /\ Count(tcp, {TCP}, f)
    /\ Count(udp, {UDP}, f)
    /\ Count(others, 0 .. 255 \ {ICMP, IGMP, TCP, UDP}, f)
    /\ calls' = IF f.byte9 = TCP THEN print_tcp_packet(f, FrameLength(f)) ELSE <<>>
    /\ UNCHANGED <<dumpVars, calling, logfile>>

\* PrintData is called for the next section, prints it, and returns.
CallPrintData ==
    /\ calls # <<>>
    /\ ~calling
    /\ PrintCall(Head(calls).size)
    /\ calling' = TRUE
    /\ UNCHANGED <<seen, counters, calls, logfile>>

PrintDataRuns ==
    /\ calling
    /\ PrintByte \/ PrintLastByte
    /\ UNCHANGED <<seen, counters, callVars>>

PrintDataReturns ==
    /\ calling
    /\ i >= Size
    /\ logfile' = Append(logfile, Head(calls))
    /\ calls' = Tail(calls)
    /\ calling' = FALSE
    /\ UNCHANGED <<dumpVars, seen, counters>>

Next ==
    \/ \E f \in Frames : Process(f)
    \/ CallPrintData
    \/ PrintDataRuns
    \/ PrintDataReturns

Spec == Init /\ [][Next]_vars
-----------------------------------------------------------------------------
(* Properties.                                                             *)

Sections == [title : {"IP Header", "TCP Header", "Data Payload"}, from : Nat, size : Int]

\* Type correctness: what PrintData is called for are sections of the
\* buffer, and it runs only when it was called (source-af-packet.c:263-270).
TypeOK ==
    /\ DumpTypeOK
    /\ seen \in Seq(Frames)
    /\ \A k \in 1 .. 6 : counters[k] \in 0 .. Len(seen)
    /\ calls \in Seq(Sections)
    /\ calling \in BOOLEAN
    /\ calling => calls # <<>>
    /\ logfile \in Seq(Sections)

\* The frames up to the j-th that are counted as TCP.
TcpUpTo(j) == {m \in 1 .. j : seen[m].byte9 = TCP}

\* The places in the log of the sections of seen[j]: the n-th of its three.
Place(j, n) == 3 * (Cardinality(TcpUpTo(j)) - 1) + n

\* The counters count every frame under one protocol, and the log gets
\* three sections for each frame counted as TCP and none for the others
\* (source-af-packet.c:153-178, 263-270).
CountersAgree ==
    /\ total = Len(seen)
    /\ total = icmp + igmp + tcp + udp + others
    /\ 3 * tcp = Len(logfile) + Len(calls)

\* The loops pass tp_len, the length on the wire, and not what was captured:
\* the dump of a frame that fits stays inside its slot of FRAME_SIZE bytes,
\* and only that of a longer frame goes on into the next slot or past the
\* mapping (source-af-packet.c:504, 627, 263-270).
DumpInSlot ==
    \A j \in DOMAIN seen, n \in 1 .. 3 :
        seen[j].byte9 = TCP /\ FrameLength(seen[j]) <= SlotSpace =>
            LET section == (logfile \o calls)[Place(j, n)]
            IN  section.size > 0 => section.from + section.size <= SlotSpace

\* The payload section of the k-th frame that is counted as TCP is the k-th in
\* the log.  On IPv4 it begins behind the options of both headers, has all of the
\* data that the total length in the IP header announces, and nothing from behind
\* the frame.  Padding may be in it (source-af-packet.c:230-235, 269-270).
SegmentIsDumped ==
    \A j \in DOMAIN seen :
        IsIPv4(seen[j], TCP) /\ Place(j, 3) \in DOMAIN logfile =>
            LET section == logfile[Place(j, 3)]
            IN  /\ section.title = "Data Payload"
                /\ section.from = TcpDataStart(seen[j])
                /\ PacketEnd(seen[j]) <= section.from + section.size
                /\ section.from + section.size <= FrameLength(seen[j])
=============================================================================
