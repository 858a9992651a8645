---------------------------- MODULE HeaderFields ----------------------------
(***************************************************************************)
(* The field decoders of sniff: a pointer to a header is the sequence of   *)
(* the bytes from there on, so the byte at offset k is p[k + 1].           *)
(*                                                                         *)
(* TcpHeaderBytes, UdpHeaderBytes and DnsHeaderBytes are the wire formats  *)
(* of RFC 793, 768 and 1035: what the decoders are measured against.       *)
(***************************************************************************)
EXTENDS Integers, Sequences

conv2BytesToInt(b0, b1) == b0 * 256 + b1

conv4BytesToInt(b0, b1, b2, b3) ==
    ((b0 * 256 + b1) * 256 + b2) * 256 + b3

\* (byte & mask) >> low, for a mask of consecutive bits from the one of value
\* low on that are size values wide.
Bits(byte, low, size) == (byte \div low) % size
Flag(byte, bit) == Bits(byte, bit, 2) = 1

Field16(p, k) == conv2BytesToInt(p[k + 1], p[k + 2])
Field32(p, k) == conv4BytesToInt(p[k + 1], p[k + 2], p[k + 3], p[k + 4])

\* Seeded bug: the number acknowledged is read from the place of the sequence
\* number.
extractTcpHeaderAckAtSeq(p) ==
    [srcPort |-> Field16(p, 0), dstPort |-> Field16(p, 2),
     seqNumber |-> Field32(p, 4), ackNumber |-> Field32(p, 4),
     offset |-> Bits(p[13], 16, 16), reserved |-> Bits(p[13], 2, 8),
     ns |-> Flag(p[13], 1),
     cwr |-> Flag(p[14], 128), ece |-> Flag(p[14], 64), urg |-> Flag(p[14], 32),
     ack |-> Flag(p[14], 16), psh |-> Flag(p[14], 8), rst |-> Flag(p[14], 4),
     sync |-> Flag(p[14], 2), fin |-> Flag(p[14], 1),
     windown |-> Field16(p, 14), checksum |-> Field16(p, 16),
     urgentPointer |-> Field16(p, 18)]

extractTcpHeader(p) ==
    [srcPort |-> Field16(p, 0), dstPort |-> Field16(p, 2),
     seqNumber |-> Field32(p, 4), ackNumber |-> Field32(p, 8),
     offset |-> Bits(p[13], 16, 16), reserved |-> Bits(p[13], 2, 8),
     ns |-> Flag(p[13], 1),
     cwr |-> Flag(p[14], 128), ece |-> Flag(p[14], 64), urg |-> Flag(p[14], 32),
     ack |-> Flag(p[14], 16), psh |-> Flag(p[14], 8), rst |-> Flag(p[14], 4),
     sync |-> Flag(p[14], 2), fin |-> Flag(p[14], 1),
     windown |-> Field16(p, 14), checksum |-> Field16(p, 16),
     urgentPointer |-> Field16(p, 18)]

extractUdpHeader(p) ==
    [srcPort |-> Field16(p, 0), dstPort |-> Field16(p, 2),
     len |-> Field16(p, 4), sum |-> Field16(p, 6)]

extractDnsHeader(p) ==
    [id |-> Field16(p, 0),
     qr |-> Bits(p[3], 128, 2), opcode |-> Bits(p[3], 8, 16),
     aa |-> Bits(p[3], 4, 2), tc |-> Bits(p[3], 2, 2), rd |-> Bits(p[3], 1, 2),
     ra |-> Bits(p[4], 128, 2), z |-> Bits(p[4], 16, 8), rcode |-> Bits(p[4], 1, 16),
     qdcount |-> Field16(p, 4), ancount |-> Field16(p, 6),
     nscount |-> Field16(p, 8), arcount |-> Field16(p, 10)]
-----------------------------------------------------------------------------
(* The wire formats.                                                       *)

Word == {n \in Nat : n < 65536}
Bit == 0 .. 1
Word32 == {n \in Nat : n \div 65536 \in Word}

TcpHeaders ==
    [srcPort : Word, dstPort : Word, seqNumber : Word32, ackNumber : Word32,
     offset : 0 .. 15, reserved : 0 .. 7, ns : BOOLEAN,
     cwr : BOOLEAN, ece : BOOLEAN, urg : BOOLEAN, ack : BOOLEAN,
     psh : BOOLEAN, rst : BOOLEAN, sync : BOOLEAN, fin : BOOLEAN,
     windown : Word, checksum : Word, urgentPointer : Word]

UdpHeaders == [srcPort : Word, dstPort : Word, len : Word, sum : Word]

DnsHeaders ==
    [id : Word, qr : Bit, opcode : 0 .. 15, aa : Bit, tc : Bit, rd : Bit,
     ra : Bit, z : 0 .. 7, rcode : 0 .. 15,
     qdcount : Word, ancount : Word, nscount : Word, arcount : Word]

Octets16(n) == <<n \div 256, n % 256>>
Octets32(n) == Octets16(n \div 65536) \o Octets16(n % 65536)
FlagBit(flag, bit) == IF flag THEN bit ELSE 0

TcpHeaderBytes(h) ==
    Octets16(h.srcPort) \o Octets16(h.dstPort)
      \o Octets32(h.seqNumber) \o Octets32(h.ackNumber)
      \o <<16 * h.offset + 2 * h.reserved + FlagBit(h.ns, 1),
           FlagBit(h.cwr, 128) + FlagBit(h.ece, 64) + FlagBit(h.urg, 32)
             + FlagBit(h.ack, 16) + FlagBit(h.psh, 8) + FlagBit(h.rst, 4)
             + FlagBit(h.sync, 2) + FlagBit(h.fin, 1)>>
      \o Octets16(h.windown) \o Octets16(h.checksum) \o Octets16(h.urgentPointer)

UdpHeaderBytes(h) ==
    Octets16(h.srcPort) \o Octets16(h.dstPort) \o Octets16(h.len) \o Octets16(h.sum)

DnsHeaderBytes(h) ==
    Octets16(h.id)
      \o <<128 * h.qr + 8 * h.opcode + 4 * h.aa + 2 * h.tc + h.rd,
           128 * h.ra + 16 * h.z + h.rcode>>
      \o Octets16(h.qdcount) \o Octets16(h.ancount)
      \o Octets16(h.nscount) \o Octets16(h.arcount)
=============================================================================
