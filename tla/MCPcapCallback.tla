--------------------------- MODULE MCPcapCallback ---------------------------
(* Captures of a few packets: TCP with every flag, with and without        *)
(* options and data and with a header length that is too small; DNS        *)
(* queries for names of different shapes; other datagrams; and frames that *)
(* are not IPv4, with the number of UDP or TCP in byte 23 or not.          *)
EXTENDS PcapCallback, TLC

CONSTANTS
    Lengths,        \* label lengths of a name
    MaxLabels       \* labels of a name

FlagNames == {"ns", "cwr", "ece", "urg", "ack", "psh", "rst", "sync", "fin"}

Tcp(doff, reserved, flags) ==
    [srcPort |-> 258, dstPort |-> 53, seqNumber |-> 16909060, ackNumber |-> 2141120520,
     offset |-> doff, reserved |-> reserved] @@ [f \in FlagNames |-> f \in flags]
      @@ [windown |-> 65280, checksum |-> 255, urgentPointer |-> 32769]

TcpPacket(type, ihl, byte9, doff, reserved, flags, data) ==
    Packet(Frame(type, ihl, byte9, doff, data, 0), "tcp", Tcp(doff, reserved, flags),
           Nothing, [k \in 1 .. 40 |-> k])

TcpPackets ==
    {TcpPacket("IP", ihl, TCP, doff, 0, {"ack"}, data) :
        ihl \in {5, 15}, doff \in {3, 5, 15}, data \in {0, 60}}
      \cup {TcpPacket("IP", 5, TCP, 5, reserved, flags, 0) :
              reserved \in {2, 5}, flags \in {{f} : f \in FlagNames} \cup {FlagNames}}

-----------------------------------------------------------------------------
Udp(port) == [srcPort |-> 1025, dstPort |-> port, len |-> 258, sum |-> 513]

\* A query, a response, and one with every other bit set.
Dns(id, qr, opcode, bit, rcode) ==
    [id |-> id, qr |-> qr, opcode |-> opcode, aa |-> bit, tc |-> 1 - bit, rd |-> bit,
     ra |-> 1 - bit, z |-> 5 * bit, rcode |-> rcode, qdcount |-> 1, ancount |-> 256,
     nscount |-> 2, arcount |-> 258]
DnsHeadersShown == {Dns(258, 0, 0, 1, 0), Dns(1, 1, 5, 0, 3), Dns(65535, 1, 10, 1, 12)}

\* A type and a class of two octets each, and the octet behind the question.
QType == 258
QClass == 769
Tail5 == Octets16(QType) \o Octets16(QClass) \o <<0>>

Shapes == UNION {[1 .. n -> Lengths] : n \in 1 .. MaxLabels}

\* Octet k of label l: a letter that tells labels and octets apart.
Octet(l, k) == 96 + 5 * l + k
Label(shape, l) == [k \in 1 .. shape[l] |-> Octet(l, k)]

WireName[shape \in Shapes, n \in 0 .. MaxLabels] ==
    IF n = 0 THEN <<>> ELSE WireName[shape, n - 1] \o <<shape[n]>> \o Label(shape, n)

QuestionOf(shape) == WireName[shape, Len(shape)] \o <<0>> \o Tail5

Query(type, ihl, byte9, dns, name) ==
    Packet(Frame(type, ihl, byte9, 0, 12, 0), "dns", Udp(53), dns, name)

DnsPacket(type, ihl, byte9, dns, shape) == Query(type, ihl, byte9, dns, QuestionOf(shape))

\* The root name, labels with a dot and with a NUL in them, and one that goes
\* on behind the captured bytes.
OddNames ==
    {<<0>> \o Tail5, <<3, 97, Dot, 98, 1, 99, 0>> \o Tail5,
     <<1, 97, 2, 0, 98, 0>> \o Tail5, <<2, 97, 98, 5, 99>>}

DnsPackets ==
    {DnsPacket("IP", 5, UDP, Dns(258, 0, 0, 1, 0), shape) : shape \in Shapes}
      \cup {Query("IP", 5, UDP, Dns(258, 0, 0, 1, 0), name) : name \in OddNames}
      \cup {DnsPacket("IP", ihl, UDP, dns, <<1>>) : ihl \in {5, 6}, dns \in DnsHeadersShown}
-----------------------------------------------------------------------------
Plain(type, ihl, byte9) ==
    Packet(Frame(type, ihl, byte9, 0, 28, 0), "other", Nothing, Nothing,
           [k \in 1 .. 40 |-> 0])

OtherPackets ==
    {Packet(Frame("IP", 5, UDP, 0, 30, 0), "udp", Udp(80), Nothing, <<0, 53>>),
     Plain("IP", 5, ICMP), Plain("IPV6", 10, 0), Plain("ARP", 0, 0),
     Plain("ARP", 0, TCP), Plain("ARP", 0, UDP),
     DnsPacket("IPV6", 10, UDP, Dns(1, 1, 5, 0, 3), <<2, 1>>),
     DnsPacket("IPV6", 10, TCP, Dns(1, 1, 5, 0, 3), <<2, 1>>),
     TcpPacket("IPV6", 10, TCP, 5, 0, {"fin"}, 0)}

\* -1 is without a limit.
SomeCounts == {-1, 1}

\* Zeros, and what looks like a query with a label that has no end.
SomeStrays ==
    {[k \in 1 .. 40 |-> 0],
     [k \in 1 .. 40 |-> IF k > 20 THEN 5 ELSE IF k = 4 THEN 53 ELSE 0]}

AllPackets == TcpPackets \cup DnsPackets \cup OtherPackets
=============================================================================
