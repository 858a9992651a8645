--------------------------- MODULE MCProcessPacket ---------------------------
(* IPv4 frames with and without options in both headers, padded or not,    *)
(* some of which end inside the TCP header, one of each other protocol, and *)
(* an ARP frame with 6 where an IP header has its protocol.                *)
(* The sections printed have -2 to 72 bytes, so that they show none to five *)
(* lines.                                                                   *)
EXTENDS ProcessPacket

MCFrames ==
    {Frame("IP", ihl, TCP, doff, data, pad) :
        ihl \in {5, 15}, doff \in {5, 8}, data \in {-2, 0, 1, 66}, pad \in {0, 6}}
      \cup {Frame("IP", 5, protocol, 0, 8, 0) : protocol \in {ICMP, IGMP, UDP, OSPF}}
      \cup {Frame("ARP", 0, TCP, 5, 8, 0)}
=============================================================================
