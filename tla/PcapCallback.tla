---------------------------- MODULE PcapCallback ----------------------------
(***************************************************************************)
(* sniff(): open a device, install the filter, and let pcap_loop() call    *)
(* callback() for each captured packet; callback() finds the IP header,    *)
(* and processTcpPacket() or processUdpPacket() decodes what follows it,   *)
(* down to the question of a DNS query.  libpcap is external: any call     *)
(* can fail, and the loop delivers any packet the filter lets through.     *)
(*                                                                         *)
(* pc names the next step: "lookup", "open", "compile", "setfilter",       *)
(* "loop" (in pcap_loop), "callback", "tcp", "udp", "dns", "question" (in  *)
(* extractDnsQuestion), and "done" (sniff() has returned).                 *)
(***************************************************************************)
EXTENDS FrameLayout, QueryName

CONSTANTS
    Packets,        \* the captured packets
    Counts,         \* values of num_captured_packets; 0 and less: no limit
    StackValues,    \* what the stack slot of ipHeaderLength can hold
    Strays,         \* bytes of memory that is not the packet's
    MaxPackets      \* bound: packets captured in a behaviour

\* A packet is a frame, the header behind its IP header, and what follows.
Packet(frame, kind, header, dns, payload) ==
    [frame |-> frame,
     kind |-> kind,         \* "tcp", "udp", "dns" or "other"
     header |-> header,     \* the fields of the TCP or UDP header
     dns |-> dns,           \* those of the DNS header
     transport |->          \* the bytes from the transport header on
        CASE kind = "tcp" -> TcpHeaderBytes(header) \o payload
          [] kind = "udp" -> UdpHeaderBytes(header) \o payload
          [] kind = "dns" -> UdpHeaderBytes(header) \o DnsHeaderBytes(dns) \o payload
          [] kind = "other" -> payload]

From(pointer, k) == SubSeq(pointer, k + 1, Len(pointer))

\* What a packet is made of: its kind is what follows its IP header, whole and
\* not a fragment, and the header says what the frame's record says of it.
PacketOK(p) ==
    LET headers == CASE p.kind = "udp" -> 8 [] p.kind = "other" -> 0 [] OTHER -> 20
    IN  /\ p.frame.type \in {"IP", "IPV6", "ARP"}
        /\ p.frame.ihl \in 0 .. 15 /\ p.frame.doff \in 0 .. 15
        /\ p.frame.type = "IPV6" => p.frame.ihl = 10
        /\ p.kind \in {"tcp", "udp", "dns", "other"}
        /\ p.kind = "tcp" => p.header \in TcpHeaders /\ p.header.offset = p.frame.doff
        /\ p.kind \in {"udp", "dns"} =>
             p.header \in UdpHeaders /\ (p.kind = "dns" <=> p.header.dstPort = 53)
        /\ p.kind = "dns" => p.dns \in DnsHeaders
        /\ IsIPv4(p.frame, TCP) => p.kind = "tcp"
        /\ IsIPv4(p.frame, UDP) => p.kind \in {"udp", "dns"}
        /\ p.transport \in Seq(0 .. 255)
        /\ p = Packet(p.frame, p.kind, p.header, p.dns, From(p.transport, headers))

ASSUME PacketsAssumption ==
    /\ \A p \in Packets : PacketOK(p)
    /\ Strays \subseteq Seq(0 .. 255)

VARIABLES
    pc,
    filter,                 \* the parameters of sniff()
    num_captured_packets,
    delivered,              \* the packets given to callback()
    packet,                 \* the one callback() has, or had last
    ipHeaderLength,         \* locals of callback()
    protocol,
    headerPtr,              \* the bytes behind what it takes for the IP header
    shown                   \* what was printed of the last packet

vars == <<pc, filter, num_captured_packets, delivered, packet, ipHeaderLength,
          protocol, headerPtr, shown, question, at, cur, octetCount, i, queryName,
          queryNameCap, qnamelen, qtype, qclass>>
args == <<filter, num_captured_packets>>
locals == <<packet, ipHeaderLength, protocol, headerPtr>>

Nothing == [kind |-> "nothing"]

Init ==
    /\ QuestionInit
    /\ pc = "lookup"
    /\ filter \in BOOLEAN
    /\ num_captured_packets \in Counts
    /\ delivered = 0
    /\ packet \in Packets
    /\ ipHeaderLength = 0
    /\ protocol = 0
    /\ headerPtr = <<>>
    /\ shown = Nothing
-----------------------------------------------------------------------------
(* sniff().                                                                *)

\* A libpcap call that prints an error and ends sniff() when it fails.
Call(name, next) ==
    /\ pc = name
    /\ pc' \in {next, "done"}
    /\ UNCHANGED <<args, delivered, locals, shown, questionVars>>

pcap_lookupnet == Call("lookup", "open")
pcap_open_live == Call("open", IF filter THEN "compile" ELSE "loop")
pcap_compile == Call("compile", "setfilter")
pcap_setfilter == Call("setfilter", "loop")

Limited == num_captured_packets > 0

\* pcap_loop() delivers a packet.
pcap_loop ==
    /\ pc = "loop"
    /\ delivered < MaxPackets
    /\ Limited => delivered < num_captured_packets
    /\ packet' \in Packets
    /\ delivered' = delivered + 1
    /\ pc' = "callback"
    /\ UNCHANGED <<args, ipHeaderLength, protocol, headerPtr, shown, questionVars>>

\* It returns after num_captured_packets packets, or with an error.
LoopEnds ==
    /\ pc = "loop"
    /\ pc' = "done"
    /\ UNCHANGED <<args, delivered, locals, shown, questionVars>>
-----------------------------------------------------------------------------
(* callback().                                                             *)

\* Seeded bug: options are ignored.
HeaderLengthsNoOptions ==
    CASE packet.frame.type = "IPV6" -> {40}
      [] packet.frame.type = "IP" -> {20}
      [] OTHER -> StackValues

\* The length of the IP header is not set for a frame that is neither IPv4
\* nor IPv6: it is whatever the stack holds.
HeaderLengths ==
    CASE packet.frame.type = "IPV6" -> {40}
      [] packet.frame.type = "IP" -> {packet.frame.ihl * 4}
      [] OTHER -> StackValues

\* The bytes from an offset on.
BytesAt(offset) ==
    IF offset = TransportStart(packet.frame) THEN {packet.transport} ELSE Strays

Callback ==
    /\ pc = "callback"
    /\ ipHeaderLength' \in HeaderLengths
    /\ headerPtr' \in BytesAt(EthernetLength + ipHeaderLength')
    /\ protocol' = packet.frame.byte9
    /\ pc' = CASE protocol' = UDP -> "udp"
               [] protocol' = TCP -> "tcp"
               [] OTHER -> "loop"
    /\ shown' = Nothing
    /\ UNCHANGED <<args, delivered, packet, questionVars>>

\* A datagram is looked into only if it is for port 53.
processUdpPacket ==
    /\ pc = "udp"
    /\ pc' = IF extractUdpHeader(headerPtr).dstPort = 53 THEN "dns" ELSE "loop"
    /\ UNCHANGED <<args, delivered, locals, shown, questionVars>>

udpHeaderPtr == EthernetLength + ipHeaderLength

\* The DNS header begins 8 bytes behind the UDP header, and the question 12
\* bytes behind that: it is read whatever qdcount is, and into the memory behind
\* the packet if the name has no end in it.
processDNS ==
    /\ pc = "dns"
    /\ shown' = [kind |-> "dns",
                 header |-> extractDnsHeader(From(headerPtr, 8)),
                 question |-> udpHeaderPtr + 8 + 12]
    /\ \E behind \in Strays : ExtractDnsQuestion(From(headerPtr, 8 + 12) \o behind)
    /\ pc' = "question"
    /\ UNCHANGED <<args, delivered, locals>>

DecodeQuestion ==
    /\ pc = "question"
    /\ QuestionRuns
    /\ UNCHANGED <<pc, args, delivered, locals, shown>>

QuestionReturns ==
    /\ pc = "question"
    /\ at = "done"
    /\ pc' = "loop"
    /\ UNCHANGED <<args, delivered, locals, shown, questionVars>>

\* The array tcpHeader has the header's own length, and all 20 bytes of the
\* fields are read from it: behind a shorter one, whatever the stack holds.
\* The payload that is printed begins payloadLength bytes into the packet.
processTcpPacket ==
    /\ pc = "tcp"
    /\ LET tcpHeaderPtr == EthernetLength + ipHeaderLength
           tcpHeaderLength == Bits(headerPtr[13], 16, 16) * 4
           totalHeadersSize == EthernetLength + ipHeaderLength + tcpHeaderLength
           payloadLength == FrameLength(packet.frame) - totalHeadersSize
           payloadPtr == payloadLength
       IN  \E stack \in Strays :
             shown' =
                [kind |-> "tcp",
                 header |-> extractTcpHeader(
                    [k \in 1 .. 20 |-> IF k <= tcpHeaderLength THEN headerPtr[k] ELSE stack[k]]),
                 from |-> <<tcpHeaderPtr, tcpHeaderPtr + tcpHeaderLength>>,
                 payload |-> <<payloadPtr, payloadPtr + payloadLength>>]
    /\ pc' = "loop"
    /\ UNCHANGED <<args, delivered, locals, questionVars>>

Next ==
    \/ pcap_lookupnet
    \/ pcap_open_live
    \/ pcap_compile
    \/ pcap_setfilter
    \/ pcap_loop
    \/ LoopEnds
    \/ Callback
    \/ processUdpPacket
    \/ processDNS
    \/ DecodeQuestion
    \/ QuestionReturns
    \/ processTcpPacket

Spec == Init /\ [][Next]_vars
-----------------------------------------------------------------------------
(* Properties.                                                             *)

Decoded == pc = "loop" /\ delivered > 0

ShownAsWhatItIs ==
    LET frame == packet.frame
    IN  /\ frame.type = "IP" =>
             shown.kind = CASE IsIPv4(frame, TCP) -> "tcp"
                            [] IsIPv4(frame, UDP) /\ packet.kind = "dns" -> "dns"
                            [] OTHER -> "nothing"
        /\ frame.type \in {"IP", "IPV6"} =>
             /\ shown.kind = "tcp" => shown.from[1] = TransportStart(frame)
             /\ shown.kind = "dns" => shown.question = DnsQuestionStart(frame)
        /\ IsIPv4(frame, TCP) => shown.from[2] = TcpDataStart(frame)

ShownFields ==
    packet.frame.type \in {"IP", "IPV6"} =>
        /\ shown.kind = "tcp" /\ packet.kind = "tcp" /\ packet.frame.doff >= 5
             => shown.header = packet.header
        /\ shown.kind = "dns" /\ packet.kind = "dns" => shown.header = packet.dns

\* On IPv4 the packet is decoded as what it is, whatever the packets before
\* it left on the stack: a TCP header with its options, the question of a
\* DNS query, and nothing for the rest.  On IPv6, where the byte taken for the
\* protocol is one of the source address, a packet that is decoded is decoded
\* from its transport header on (sniff.c:94-151, 213-247).
DecodedAsWhatItIs == Decoded => ShownAsWhatItIs

\* The fields printed of a TCP header, and of a DNS header, are those of the
\* packet, bit for bit.  A TCP header that says it is shorter than 20 bytes is
\* read from behind its copy and excepted (sniff.c:97-98, 144-152).
FieldsAreTheHeaders == Decoded => ShownFields

\* "The payload starts at packet base location plus all the header length":
\* what is printed as the payload of a TCP packet is its payload
\* (sniff.c:199-201, 158-163).
PayloadIsBehindTheHeaders ==
    Decoded /\ IsIPv4(packet.frame, TCP) =>
        shown.payload = <<TcpDataStart(packet.frame), FrameLength(packet.frame)>>
=============================================================================
