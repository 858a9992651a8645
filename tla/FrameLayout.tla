----------------------------- MODULE FrameLayout -----------------------------
(***************************************************************************)
(* Where things are in an Ethernet frame, in bytes from its start: what    *)
(* the two decoders, ProcessPacket (sniff_afpacket) and callback (sniff),  *)
(* are measured against.  A frame is a record of the fields they look at;  *)
(* for a frame that is not IPv4, byte9 is whatever lies nine bytes behind  *)
(* the Ethernet header.                                                    *)
(***************************************************************************)
EXTENDS Naturals

EthernetLength == 14

\* Protocol numbers of IPv4, and one that both decoders have no case for.
ICMP == 1
IGMP == 2
TCP == 6
UDP == 17
OSPF == 89

Frame(type, ihl, byte9, doff, data, pad) ==
    [type |-> type,         \* "IP", "IPV6" or "ARP"
     ihl |-> ihl,           \* length of the IP header in words; IPv6 has 10
     byte9 |-> byte9,       \* the protocol, if type is "IP"
     doff |-> doff,         \* length of the TCP header in words
     data |-> data,         \* bytes behind the TCP or UDP header
     pad |-> pad]           \* Ethernet padding

IsIPv4(f, protocol) == f.type = "IP" /\ f.byte9 = protocol

\* The layout of an IP frame.
TransportStart(f) == EthernetLength + 4 * f.ihl
TcpDataStart(f) == TransportStart(f) + 4 * f.doff
UdpDataStart(f) == TransportStart(f) + 8
DnsQuestionStart(f) == UdpDataStart(f) + 12

\* Where a packet ends by the total length in its IP header, and the frame
\* on the wire, which may be padded.
PacketEnd(f) ==
    f.data + (IF f.byte9 = TCP THEN TcpDataStart(f) ELSE UdpDataStart(f))
FrameLength(f) == PacketEnd(f) + f.pad
=============================================================================
