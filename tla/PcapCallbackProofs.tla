------------------------- MODULE PcapCallbackProofs -------------------------
(***************************************************************************)
(* The sniffer shows of every packet what is in it: the decoders return    *)
(* the fields that were encoded, the name of a question is copied inside   *)
(* its buffer and comes out as its labels joined with dots, and callback() *)
(* takes each of them from where it is in the packet.                      *)
(***************************************************************************)
EXTENDS PcapCallback, SequenceTheorems, TLAPS

-----------------------------------------------------------------------------
(* The headers.                                                            *)

LEMMA Word16 ==
    ASSUME NEW n \in Word
    PROVE  /\ conv2BytesToInt(n \div 256, n % 256) = n
           /\ n \div 256 \in Nat /\ n % 256 \in Nat
<1>1. n \in Nat
  BY DEF Word
<1>2. n \div 256 \in Nat /\ n % 256 \in Nat
  BY <1>1
<1>3. (n \div 256) * 256 + (n % 256) = n
  BY <1>1
<1> QED
  BY <1>2, <1>3 DEF conv2BytesToInt

LEMMA Word32Octets ==
    ASSUME NEW n \in Word32
    PROVE  LET high == n \div 65536
               low == n % 65536
           IN  conv4BytesToInt(high \div 256, high % 256, low \div 256, low % 256) = n
<1> DEFINE high == n \div 65536
           low == n % 65536
<1>1. n \in Nat /\ high \in Word
  BY DEF Word32
<1>2. low \in Word
  BY <1>1 DEF Word
<1>3. high * 65536 + low = n
  BY <1>1
<1> HIDE DEF high, low
<1>4. /\ (high \div 256) * 256 + (high % 256) = high
      /\ high \div 256 \in Nat /\ high % 256 \in Nat
  BY <1>1, Word16 DEF conv2BytesToInt
<1>5. /\ (low \div 256) * 256 + (low % 256) = low
       /\ low \div 256 \in Nat /\ low % 256 \in Nat
  BY <1>2, Word16 DEF conv2BytesToInt
<1>6. conv4BytesToInt(high \div 256, high % 256, low \div 256, low % 256)
        = high * 65536 + low
  <2> DEFINE a == high \div 256
             b == high % 256
             c == low \div 256
             d == low % 256
  <2>1. a \in Nat /\ b \in Nat /\ c \in Nat /\ d \in Nat
        /\ a * 256 + b = high /\ c * 256 + d = low
    BY <1>4, <1>5, Zenon
  <2> HIDE DEF a, b, c, d
  <2>2. ((a * 256 + b) * 256 + c) * 256 + d = (a * 256 + b) * 65536 + (c * 256 + d)
    BY <2>1
  <2> QED
    BY <2>1, <2>2 DEF conv4BytesToInt, a, b, c, d
<1> QED
  BY <1>3, <1>6 DEF high, low

\* The four fields of a UDP header are read as they were sent (udp.c:15-24).
THEOREM UdpHeaderIsRead ==
    ASSUME NEW h \in UdpHeaders
    PROVE  extractUdpHeader(UdpHeaderBytes(h)) = h
<1>1. /\ h.srcPort \in Word /\ h.dstPort \in Word /\ h.len \in Word /\ h.sum \in Word
      /\ h = [srcPort |-> h.srcPort, dstPort |-> h.dstPort, len |-> h.len, sum |-> h.sum]
  BY DEF UdpHeaders
<1> DEFINE p == UdpHeaderBytes(h)
<1>2. /\ p[1] = h.srcPort \div 256 /\ p[2] = h.srcPort % 256
      /\ p[3] = h.dstPort \div 256 /\ p[4] = h.dstPort % 256
      /\ p[5] = h.len \div 256 /\ p[6] = h.len % 256
      /\ p[7] = h.sum \div 256 /\ p[8] = h.sum % 256
  BY <1>1, Word16 DEF UdpHeaderBytes, Octets16
<1> HIDE DEF p
<1>3. /\ Field16(p, 0) = h.srcPort /\ Field16(p, 2) = h.dstPort
      /\ Field16(p, 4) = h.len /\ Field16(p, 6) = h.sum
  BY <1>1, <1>2, Word16 DEF Field16
<1> QED
  BY <1>1, <1>3 DEF p, extractUdpHeader

\* The thirteen fields of a DNS header are read as they were sent
\* (dns.c:8-74, 88-109).
THEOREM DnsHeaderIsRead ==
    ASSUME NEW h \in DnsHeaders
    PROVE  extractDnsHeader(DnsHeaderBytes(h)) = h
<1> DEFINE p == DnsHeaderBytes(h)
<1>1. /\ h.id \in Word /\ h.qdcount \in Word /\ h.ancount \in Word
      /\ h.nscount \in Word /\ h.arcount \in Word
      /\ h.qr \in Bit /\ h.opcode \in 0 .. 15 /\ h.aa \in Bit /\ h.tc \in Bit
      /\ h.rd \in Bit /\ h.ra \in Bit /\ h.z \in 0 .. 7 /\ h.rcode \in 0 .. 15
  BY DEF DnsHeaders
<1>2. /\ p[1] = h.id \div 256 /\ p[2] = h.id % 256
      /\ p[3] = 128 * h.qr + 8 * h.opcode + 4 * h.aa + 2 * h.tc + h.rd
      /\ p[4] = 128 * h.ra + 16 * h.z + h.rcode
      /\ p[5] = h.qdcount \div 256 /\ p[6] = h.qdcount % 256
      /\ p[7] = h.ancount \div 256 /\ p[8] = h.ancount % 256
      /\ p[9] = h.nscount \div 256 /\ p[10] = h.nscount % 256
      /\ p[11] = h.arcount \div 256 /\ p[12] = h.arcount % 256
  BY DEF DnsHeaderBytes, Octets16
<1> HIDE DEF p
<1>3. /\ Field16(p, 0) = h.id /\ Field16(p, 4) = h.qdcount
      /\ Field16(p, 6) = h.ancount /\ Field16(p, 8) = h.nscount
      /\ Field16(p, 10) = h.arcount
  BY <1>1, <1>2, Word16 DEF Field16
<1>4. /\ Bits(p[3], 128, 2) = h.qr /\ Bits(p[3], 8, 16) = h.opcode
      /\ Bits(p[3], 4, 2) = h.aa /\ Bits(p[3], 2, 2) = h.tc /\ Bits(p[3], 1, 2) = h.rd
      /\ Bits(p[4], 128, 2) = h.ra /\ Bits(p[4], 16, 8) = h.z
      /\ Bits(p[4], 1, 16) = h.rcode
  BY <1>1, <1>2 DEF Bits, Bit
<1>5. h = [id |-> h.id, qr |-> h.qr, opcode |-> h.opcode, aa |-> h.aa, tc |-> h.tc,
           rd |-> h.rd, ra |-> h.ra, z |-> h.z, rcode |-> h.rcode,
           qdcount |-> h.qdcount, ancount |-> h.ancount, nscount |-> h.nscount,
           arcount |-> h.arcount]
  BY DEF DnsHeaders
<1>6. extractDnsHeader(p) = h
  BY <1>3, <1>4, <1>5 DEF extractDnsHeader
<1> QED
  BY <1>6 DEF p

\* The fields of a TCP header, with its nine flags, are read as they were
\* sent (tcp.c:5-92, 120-147).
THEOREM TcpHeaderIsRead ==
    ASSUME NEW h \in TcpHeaders
    PROVE  extractTcpHeader(TcpHeaderBytes(h)) = h
<1> DEFINE p == TcpHeaderBytes(h)
           seqHigh == h.seqNumber \div 65536
           seqLow == h.seqNumber % 65536
           ackHigh == h.ackNumber \div 65536
           ackLow == h.ackNumber % 65536
<1>1. /\ h.srcPort \in Word /\ h.dstPort \in Word /\ h.windown \in Word
      /\ h.checksum \in Word /\ h.urgentPointer \in Word
      /\ h.seqNumber \in Word32 /\ h.ackNumber \in Word32
      /\ h.offset \in 0 .. 15 /\ h.reserved \in 0 .. 7 /\ h.ns \in BOOLEAN
  BY DEF TcpHeaders
<1>2. /\ h.cwr \in BOOLEAN /\ h.ece \in BOOLEAN /\ h.urg \in BOOLEAN
      /\ h.ack \in BOOLEAN /\ h.psh \in BOOLEAN /\ h.rst \in BOOLEAN
      /\ h.sync \in BOOLEAN /\ h.fin \in BOOLEAN
  BY DEF TcpHeaders
<1>3. /\ p[1] = h.srcPort \div 256 /\ p[2] = h.srcPort % 256
      /\ p[3] = h.dstPort \div 256 /\ p[4] = h.dstPort % 256
      /\ p[5] = seqHigh \div 256 /\ p[6] = seqHigh % 256
      /\ p[7] = seqLow \div 256 /\ p[8] = seqLow % 256
      /\ p[9] = ackHigh \div 256 /\ p[10] = ackHigh % 256
      /\ p[11] = ackLow \div 256 /\ p[12] = ackLow % 256
      /\ p[13] = 16 * h.offset + 2 * h.reserved + FlagBit(h.ns, 1)
      /\ p[14] = FlagBit(h.cwr, 128) + FlagBit(h.ece, 64) + FlagBit(h.urg, 32)
                    + FlagBit(h.ack, 16) + FlagBit(h.psh, 8) + FlagBit(h.rst, 4)
                    + FlagBit(h.sync, 2) + FlagBit(h.fin, 1)
      /\ p[15] = h.windown \div 256 /\ p[16] = h.windown % 256
      /\ p[17] = h.checksum \div 256 /\ p[18] = h.checksum % 256
      /\ p[19] = h.urgentPointer \div 256 /\ p[20] = h.urgentPointer % 256
  <2>1. /\ p[1] = h.srcPort \div 256 /\ p[2] = h.srcPort % 256
        /\ p[3] = h.dstPort \div 256 /\ p[4] = h.dstPort % 256
    BY DEF TcpHeaderBytes, Octets32, Octets16
  <2>2. /\ p[5] = seqHigh \div 256 /\ p[6] = seqHigh % 256
        /\ p[7] = seqLow \div 256 /\ p[8] = seqLow % 256
    BY DEF TcpHeaderBytes, Octets32, Octets16
  <2>3. /\ p[9] = ackHigh \div 256 /\ p[10] = ackHigh % 256
        /\ p[11] = ackLow \div 256 /\ p[12] = ackLow % 256
        /\ p[13] = 16 * h.offset + 2 * h.reserved + FlagBit(h.ns, 1)
    BY DEF TcpHeaderBytes, Octets32, Octets16
  <2>4. p[14] = FlagBit(h.cwr, 128) + FlagBit(h.ece, 64) + FlagBit(h.urg, 32)
                    + FlagBit(h.ack, 16) + FlagBit(h.psh, 8) + FlagBit(h.rst, 4)
                    + FlagBit(h.sync, 2) + FlagBit(h.fin, 1)
    BY DEF TcpHeaderBytes, Octets32, Octets16
  <2>5. /\ p[15] = h.windown \div 256 /\ p[16] = h.windown % 256
        /\ p[17] = h.checksum \div 256 /\ p[18] = h.checksum % 256
        /\ p[19] = h.urgentPointer \div 256 /\ p[20] = h.urgentPointer % 256
    BY DEF TcpHeaderBytes, Octets32, Octets16
  <2> HIDE DEF p, seqHigh, seqLow, ackHigh, ackLow
  <2> QED
    BY <2>1, <2>2, <2>3, <2>4, <2>5
<1> HIDE DEF p
<1>4. /\ Field16(p, 0) = h.srcPort /\ Field16(p, 2) = h.dstPort
      /\ Field16(p, 14) = h.windown /\ Field16(p, 16) = h.checksum
      /\ Field16(p, 18) = h.urgentPointer
  BY <1>1, <1>3, Word16 DEF Field16
<1>5. Field32(p, 4) = h.seqNumber /\ Field32(p, 8) = h.ackNumber
  BY <1>1, <1>3, Word32Octets DEF Field32
<1>6. /\ Bits(p[13], 16, 16) = h.offset /\ Bits(p[13], 2, 8) = h.reserved
      /\ Flag(p[13], 1) = h.ns
  BY <1>1, <1>3 DEF FlagBit, Flag, Bits
<1>7. /\ Flag(p[14], 128) = h.cwr /\ Flag(p[14], 64) = h.ece /\ Flag(p[14], 32) = h.urg
      /\ Flag(p[14], 16) = h.ack /\ Flag(p[14], 8) = h.psh /\ Flag(p[14], 4) = h.rst
      /\ Flag(p[14], 2) = h.sync /\ Flag(p[14], 1) = h.fin
  BY <1>2, <1>3 DEF FlagBit, Flag, Bits
<1>8. h = [srcPort |-> h.srcPort, dstPort |-> h.dstPort, seqNumber |-> h.seqNumber,
           ackNumber |-> h.ackNumber, offset |-> h.offset, reserved |-> h.reserved,
           ns |-> h.ns, cwr |-> h.cwr, ece |-> h.ece, urg |-> h.urg, ack |-> h.ack,
           psh |-> h.psh, rst |-> h.rst, sync |-> h.sync, fin |-> h.fin,
           windown |-> h.windown, checksum |-> h.checksum,
           urgentPointer |-> h.urgentPointer]
  BY DEF TcpHeaders
<1>9. extractTcpHeader(p) = h
  BY <1>4, <1>5, <1>6, <1>7, <1>8 DEF extractTcpHeader
<1> QED
  BY <1>9 DEF p
-----------------------------------------------------------------------------
(* The name.                                                               *)

\* WritesInBounds alone is not inductive: the dot doubles the capacity, which
\* helps only because a label that was copied left it at 1 or more.
NameInv ==
    /\ LoopTypeOK
    /\ WritesInBounds
    /\ BufferNotWasted
    /\ at = "for" => octetCount >= 1 /\ (i > 1 => Len(queryName) >= 1)

LEMMA ElementType ==
    ASSUME NEW S, NEW seq \in Seq(S), NEW k \in 1 .. Len(seq)
    PROVE  seq[k] \in S
  OBVIOUS

LEMMA ByteType ==
    ASSUME question \in Seq(0 .. 255), NEW offset \in Nat
    PROVE  Byte(offset) \in 0 .. 255
<1>1. CASE offset < Len(question)
  <2>1. offset + 1 \in 1 .. Len(question)
    BY <1>1
  <2>2. question[offset + 1] \in 0 .. 255
    BY <2>1, ElementType, Zenon
  <2> QED
    BY <1>1, <2>2 DEF Byte
<1>2. CASE ~(offset < Len(question))
  BY <1>2 DEF Byte
<1> QED
  BY <1>1, <1>2

\* One write: the buffer holds it if the new capacity is above the old
\* length, and is not wasted if it is at most twice the new one.
LEMMA WriteInBounds ==
    ASSUME queryName \in Seq(0 .. 255), NEW byte \in 0 .. 255, NEW cap \in Nat,
           cap >= Len(queryName) + 1, cap <= 2 * (Len(queryName) + 1),
           Write(byte, cap)
    PROVE  /\ queryName' \in Seq(0 .. 255)
           /\ queryNameCap' \in Nat
           /\ Len(queryName') = Len(queryName) + 1
           /\ WritesInBounds'
           /\ BufferNotWasted'
  BY DEF Write, WritesInBounds, BufferNotWasted

LEMMA NameInvStep ==
    ASSUME NameInv, [QuestionNext]_questionVars
    PROVE  NameInv'
<1>1. /\ Len(queryName) \in Nat /\ queryNameCap \in Nat
      /\ Len(queryName) <= queryNameCap
      /\ queryNameCap <= 2 * Len(queryName)
      /\ queryName \in Seq(0 .. 255)
      /\ cur \in Nat /\ i \in 1 .. 256 /\ octetCount \in 0 .. 255
  BY DEF NameInv, LoopTypeOK, WritesInBounds, BufferNotWasted
<1>2. CASE TestLabel
  <2>1. Byte(cur) \in 0 .. 255
    BY <1>1, ByteType DEF NameInv, LoopTypeOK
  <2>2. octetCount' \in 0 .. 255 /\ i' \in 1 .. 256
    <3>1. CASE octetCount' = Byte(cur) /\ i' = 1
      BY <2>1, <3>1
    <3>2. CASE octetCount' = octetCount /\ i' = i
      BY <1>1, <3>2
    <3> QED
      BY <1>2, <3>1, <3>2 DEF TestLabel
  <2>3. at' = "for" => octetCount' >= 1 /\ i' = 1
    BY <1>2, <2>1 DEF TestLabel
  <2>4. at' \in {"for", "end"} /\ UNCHANGED <<question, cur, queryName, queryNameCap>>
    BY <1>2 DEF TestLabel
  <2> QED
    BY <2>2, <2>3, <2>4 DEF NameInv, LoopTypeOK, WritesInBounds, BufferNotWasted
<1>3. CASE CopyOctet
  <2> DEFINE cap == IF ~Full THEN queryNameCap
                    ELSE IF queryNameCap = 0 THEN 1 ELSE queryNameCap * 2
  <2>1. Byte(cur + i) \in 0 .. 255
    <3>1. cur + i \in Nat /\ question \in Seq(0 .. 255)
      BY <1>1 DEF NameInv, LoopTypeOK
    <3> QED
      BY <3>1, ByteType
  <2>2. cap \in Nat /\ cap >= Len(queryName) + 1 /\ cap <= 2 * (Len(queryName) + 1)
    BY <1>1 DEF Full
  <2>3. Write(Byte(cur + i), cap)
    BY <1>3 DEF CopyOctet
  <2>4. /\ queryName' \in Seq(0 .. 255)
        /\ queryNameCap' \in Nat
        /\ Len(queryName') = Len(queryName) + 1
        /\ WritesInBounds' /\ BufferNotWasted'
    BY <1>1, <2>1, <2>2, <2>3, WriteInBounds
  <2>5. i' \in 1 .. 256
    BY <1>1, <1>3 DEF CopyOctet
  <2> QED
    BY <1>1, <1>3, <2>4, <2>5 DEF CopyOctet, NameInv, LoopTypeOK
<1>4. CASE NextLabel
  <2>1. Len(queryName) >= 1
    BY <1>1, <1>4 DEF NextLabel, NameInv
  <2>2. cur' \in Nat
    BY <1>1, <1>4 DEF NextLabel
  <2>3. /\ queryName' \in Seq(0 .. 255) /\ queryNameCap' \in Nat
        /\ WritesInBounds' /\ BufferNotWasted'
    <3>1. CASE UNCHANGED <<queryName, queryNameCap>>
      BY <1>1, <3>1 DEF WritesInBounds, BufferNotWasted
    <3>2. CASE Write(Dot, IF Full THEN queryNameCap * 2 ELSE queryNameCap)
      <4> DEFINE cap == IF Full THEN queryNameCap * 2 ELSE queryNameCap
      <4>1. cap \in Nat /\ cap >= Len(queryName) + 1 /\ cap <= 2 * (Len(queryName) + 1)
        BY <1>1, <2>1 DEF Full
      <4>2. Dot \in 0 .. 255
        BY DEF Dot
      <4> QED
        BY <1>1, <3>2, <4>1, <4>2, WriteInBounds
    <3> QED
      BY <1>4, <3>1, <3>2 DEF NextLabel
  <2> QED
    BY <1>4, <2>2, <2>3 DEF NextLabel, NameInv, LoopTypeOK
<1>5. CASE Terminate
  <2> DEFINE cap == IF Full THEN queryNameCap + 1 ELSE queryNameCap
  <2>1. cap \in Nat /\ cap >= Len(queryName) + 1 /\ cap <= 2 * (Len(queryName) + 1)
    BY <1>1 DEF Full
  <2>2. Write(0, cap)
    BY <1>5 DEF Terminate
  <2>3. /\ queryName' \in Seq(0 .. 255) /\ queryNameCap' \in Nat
        /\ WritesInBounds' /\ BufferNotWasted'
    <3> HIDE DEF cap
    <3>1. 0 \in 0 .. 255
      OBVIOUS
    <3> QED
      BY <1>1, <2>1, <2>2, <3>1, WriteInBounds
  <2> QED
    BY <1>5, <2>3 DEF Terminate, NameInv, LoopTypeOK
<1>6. CASE ReadTypeAndClass
  BY <1>6 DEF ReadTypeAndClass, NameInv, LoopTypeOK, WritesInBounds, BufferNotWasted
<1>7. ASSUME NEW dnsQuestion \in Seq(0 .. 255), ExtractDnsQuestion(dnsQuestion)
      PROVE  NameInv'
  BY <1>1, <1>7 DEF ExtractDnsQuestion, field, NameInv, LoopTypeOK, WritesInBounds,
                   BufferNotWasted
<1>8. CASE UNCHANGED questionVars
  BY <1>8 DEF questionVars, NameInv, LoopTypeOK, WritesInBounds, BufferNotWasted
<1> QED
  BY <1>2, <1>3, <1>4, <1>5, <1>6, <1>7, <1>8 DEF QuestionNext, QuestionRuns

\* The buffer is large enough at every write and never wasted, for every
\* sequence of bytes a query can carry, one query after the other
\* (dns.c:138-169).
THEOREM QueryNameInBounds == QuestionSpec => [](WritesInBounds /\ BufferNotWasted)
<1>1. QuestionInit => NameInv
  BY DEF QuestionInit, NameInv, LoopTypeOK, WritesInBounds, BufferNotWasted
<1>2. NameInv /\ [QuestionNext]_questionVars => NameInv'
  BY NameInvStep
<1>3. NameInv => WritesInBounds /\ BufferNotWasted
  BY DEF NameInv
<1> QED
  BY <1>1, <1>2, <1>3, PTL DEF QuestionSpec

\* How many octets behind the first length octet are copied.
Copied ==
    IF at = "for" THEN cur + i - 1
    ELSE IF at = "while" /\ Byte(cur) # 0 THEN cur
    ELSE cur - 1

\* The name so far: `offsets` are the length octets up to the current one.
SplitAt(offsets) ==
    /\ LengthOctets(offsets, cur)
    /\ at = "for" => octetCount = Byte(cur) /\ i <= octetCount + 1
    /\ at \in {"end", "question", "done"} => Byte(cur) = 0
    /\ queryName = IF at \in {"question", "done"} THEN Append(Text(offsets, cur - 1), 0)
                   ELSE Text(offsets, Copied)

SplitInv ==
    at # "done" \/ queryName # <<>> => \E offsets \in SUBSET (0 .. cur) : SplitAt(offsets)

DecodeInv == NameInv /\ SplitInv /\ TypeAndClassRead

LEMMA OctetIsNat ==
    ASSUME NEW byte \in 0 .. 255
    PROVE  byte \in Nat /\ 1 <= byte + 1
  OBVIOUS

LEMMA TextIsSeq ==
    ASSUME question \in Seq(0 .. 255), NEW offsets, NEW n \in Nat
    PROVE  /\ Text(offsets, n) \in Seq(0 .. 255)
           /\ Len(Text(offsets, n)) = n
<1>1. ASSUME NEW k \in 1 .. n
      PROVE  (IF k \in offsets THEN Dot ELSE Byte(k)) \in 0 .. 255
  BY ByteType DEF Dot
<1> QED
  BY <1>1 DEF Text

LEMMA NoText ==
    ASSUME NEW offsets, NEW n \in Int, n <= 0
    PROVE  Text(offsets, n) = <<>>
<1>1. 1 .. n = {}
  OBVIOUS
<1> QED
  BY <1>1 DEF Text

LEMMA TextGrows ==
    ASSUME question \in Seq(0 .. 255), NEW offsets, NEW n \in Nat
    PROVE  Append(Text(offsets, n), IF n + 1 \in offsets THEN Dot ELSE Byte(n + 1))
             = Text(offsets, n + 1)
<1> DEFINE next == IF n + 1 \in offsets THEN Dot ELSE Byte(n + 1)
<1>1. Text(offsets, n) \in Seq(0 .. 255) /\ Len(Text(offsets, n)) = n /\ next \in 0 .. 255
  BY TextIsSeq, ByteType DEF Dot
<1>2. DOMAIN Append(Text(offsets, n), next) = 1 .. n + 1
  BY <1>1
<1>3. ASSUME NEW k \in 1 .. n + 1
      PROVE  Append(Text(offsets, n), next)[k]
               = IF k \in offsets THEN Dot ELSE Byte(k)
  <2>1. CASE k = n + 1
    BY <1>1, <2>1
  <2>2. CASE k \in 1 .. n
    <3>1. Append(Text(offsets, n), next)[k] = Text(offsets, n)[k]
      BY <1>1, <2>2
    <3> QED
      BY <2>2, <3>1 DEF Text
  <2>3. k = n + 1 \/ k \in 1 .. n
    OBVIOUS
  <2> QED
    BY <2>1, <2>2, <2>3
<1> HIDE DEF next
<1>4. Append(Text(offsets, n), next) \in Seq(0 .. 255) /\ Text(offsets, n + 1) \in Seq(0 .. 255)
      /\ Len(Append(Text(offsets, n), next)) = n + 1 /\ Len(Text(offsets, n + 1)) = n + 1
  BY <1>1, TextIsSeq
<1>5. \A k \in 1 .. n + 1 : Append(Text(offsets, n), next)[k] = Text(offsets, n + 1)[k]
  BY <1>3 DEF Text
<1>6. Append(Text(offsets, n), next) = Text(offsets, n + 1)
  BY <1>4, <1>5, SeqEqual
<1> QED
  BY <1>6 DEF next

\* A length octet behind the text does not change it.
LEMMA TextBefore ==
    ASSUME NEW offsets, NEW n \in Int, NEW last \in Int, n < last
    PROVE  Text(offsets \cup {last}, n) = Text(offsets, n)
<1>1. \A k \in 1 .. n : k \in offsets \cup {last} <=> k \in offsets
  OBVIOUS
<1> QED
  BY <1>1 DEF Text

\* The name is read from the bytes of the question alone.
LEMMA SameQuestion ==
    ASSUME UNCHANGED question
    PROVE  /\ \A offset : Byte(offset)' = Byte(offset)
           /\ \A offsets, last : LengthOctets(offsets, last)' = LengthOctets(offsets, last)
           /\ \A offsets, n : Text(offsets, n)' = Text(offsets, n)
           /\ \A offset : ReadWord(offset)' = ReadWord(offset)
<1>1. \A offset : Byte(offset)' = Byte(offset)
  BY DEF Byte
<1> QED
  BY <1>1 DEF LengthOctets, Text, ReadWord

\* The length octet behind a label that was copied.
LEMMA NextLengthOctet ==
    ASSUME question \in Seq(0 .. 255), cur \in Nat, Byte(cur) # 0,
           NEW offsets \in SUBSET (0 .. cur), LengthOctets(offsets, cur)
    PROVE  LET next == cur + Byte(cur) + 1
           IN  /\ offsets \cup {next} \in SUBSET (0 .. next)
               /\ LengthOctets(offsets \cup {next}, next)
<1> DEFINE next == cur + Byte(cur) + 1
<1>1. Byte(cur) \in 0 .. 255
  BY ByteType
<1> DEFINE octets == Byte(cur)
<1>2. octets \in Nat /\ next = cur + octets + 1 /\ next \in Nat /\ next > cur
  <2>1. octets \in Nat /\ next = cur + octets + 1
    BY <1>1, OctetIsNat, Zenon
  <2> HIDE DEF octets, next
  <2> QED
    BY <2>1
<1> HIDE DEF octets, next
<1>3. offsets \cup {next} \in SUBSET (0 .. next)
  BY <1>2
<1>4. {0, next} \subseteq offsets \cup {next} /\ cur \in offsets
  BY DEF LengthOctets
<1>5. ASSUME NEW b \in offsets
      PROVE  /\ Byte(b) # 0
             /\ b + Byte(b) + 1 \in offsets \cup {next}
             /\ \A k \in b + 1 .. b + Byte(b) : k \notin offsets \cup {next}
  <2>1. CASE b = cur
    <3>1. \A k \in cur + 1 .. cur + octets : k \notin offsets /\ k # next
      BY <1>2
    <3>2. cur + octets + 1 \in offsets \cup {next}
      BY <1>2
    <3> QED
      BY <2>1, <3>1, <3>2 DEF octets
  <2>2. CASE b # cur
    <3>1. /\ Byte(b) # 0 /\ b + Byte(b) + 1 \in offsets
          /\ \A k \in b + 1 .. b + Byte(b) : k \notin offsets
      BY <2>2 DEF LengthOctets
    <3>2. b \in Nat /\ Byte(b) \in 0 .. 255
      BY ByteType
    <3>3. b + Byte(b) + 1 \in 0 .. cur
      BY <3>1
    <3>4. \A k \in b + 1 .. b + Byte(b) : k # next
      <4> DEFINE size == Byte(b)
      <4>1. size \in Nat /\ b + size + 1 \in 0 .. cur
        BY <3>2, <3>3, OctetIsNat, Zenon
      <4> HIDE DEF size
      <4>2. \A k \in b + 1 .. b + size : k # next
        BY <1>2, <3>2, <4>1
      <4> QED
        BY <4>2 DEF size
    <3> QED
      BY <3>1, <3>4
  <2> QED
    BY <2>1, <2>2
<1>6. LengthOctets(offsets \cup {next}, next)
  BY <1>4, <1>5 DEF LengthOctets
<1> QED
  BY <1>3, <1>6 DEF next

\* strlen() of a string is the place of its first NUL.
LEMMA StrLenIs ==
    ASSUME queryName \in Seq(0 .. 255), NEW n \in Nat, Len(queryName) = n + 1,
           queryName[n + 1] = 0, \A k \in 1 .. n : queryName[k] # 0
    PROVE  StrLen = n
<1> DEFINE IsLen(m) == /\ m < Len(queryName) => queryName[m + 1] = 0
                       /\ \A k \in 1 .. m : queryName[k] # 0
<1>1. n \in 0 .. Len(queryName) /\ IsLen(n)
  OBVIOUS
<1>2. ASSUME NEW m \in 0 .. Len(queryName), IsLen(m)
      PROVE  m = n
  <2>1. ~(m < n)
    BY <1>2
  <2>2. ~(m > n)
    BY <1>2
  <2> QED
    BY <2>1, <2>2
<1> HIDE DEF IsLen
<1>3. (CHOOSE m \in 0 .. Len(queryName) : IsLen(m)) = n
  BY <1>1, <1>2
<1> QED
  BY <1>3 DEF StrLen, IsLen

\* An iteration of one of the loops, and the NUL behind the name.
LEMMA SplitStep ==
    ASSUME NameInv, SplitInv, QuestionRuns
    PROVE  SplitInv'
<1>1. /\ question \in Seq(0 .. 255) /\ cur \in Nat /\ i \in 1 .. 256
      /\ octetCount \in 0 .. 255 /\ queryName \in Seq(0 .. 255)
      /\ Byte(cur) \in 0 .. 255
  BY ByteType DEF NameInv, LoopTypeOK
<1>2. UNCHANGED question
  BY DEF QuestionRuns, TestLabel, CopyOctet, NextLabel, Terminate, ReadTypeAndClass
<1>3. ASSUME NEW offsets \in SUBSET (0 .. cur), SplitAt(offsets), TestLabel
      PROVE  SplitInv'
  <2>1. cur' = cur /\ queryName' = queryName /\ at = "while" /\ queryName = Text(offsets, Copied)
    BY <1>3 DEF TestLabel, SplitAt
  <2>2. CASE Byte(cur) # 0
    <3>1. at' = "for" /\ octetCount' = Byte(cur) /\ i' = 1 /\ Copied = cur /\ cur + 1 - 1 = cur
      BY <1>1, <1>3, <2>1, <2>2 DEF TestLabel, Copied
    <3>2. Copied' = cur
      BY <1>1, <2>1, <3>1 DEF Copied
    <3>3. LengthOctets(offsets, cur)' /\ Byte(cur)' = Byte(cur) /\ i' <= octetCount' + 1
      <4>1. LengthOctets(offsets, cur)' /\ Byte(cur)' = Byte(cur)
        BY <1>2, <1>3, <2>1, SameQuestion DEF SplitAt
      <4>2. i' = 1
        BY <3>1
      <4>3. 1 <= octetCount' + 1
        BY <1>1, <3>1, OctetIsNat, Zenon
      <4> QED
        BY <4>1, <4>2, <4>3, Zenon
    <3>4. queryName' = Text(offsets, Copied)'
      BY <1>2, <2>1, <3>1, <3>2, SameQuestion
    <3>5. SplitAt(offsets)'
      BY <3>1, <3>3, <3>4 DEF SplitAt
    <3> QED
      BY <2>1, <3>5 DEF SplitInv
  <2>3. CASE Byte(cur) = 0
    <3>1. at' = "end" /\ Copied = cur - 1
      BY <1>3, <2>1, <2>3 DEF TestLabel, Copied
    <3>2. Copied' = cur - 1
      BY <2>1, <3>1 DEF Copied
    <3> QED
      BY <1>2, <1>3, <2>1, <2>3, <3>1, <3>2, SameQuestion DEF SplitInv, SplitAt
  <2> QED
    BY <2>2, <2>3
<1>4. ASSUME NEW offsets \in SUBSET (0 .. cur), SplitAt(offsets), CopyOctet
      PROVE  SplitInv'
  <2>1. /\ at = "for" /\ at' = "for" /\ i <= octetCount /\ i' = i + 1
        /\ cur' = cur /\ octetCount' = octetCount /\ octetCount = Byte(cur)
        /\ queryName = Text(offsets, cur + i - 1)
        /\ queryName' = Append(queryName, Byte(cur + i))
    BY <1>4 DEF CopyOctet, Write, SplitAt, Copied
  <2> DEFINE n == cur + i - 1
  <2>2. n \in Nat /\ n + 1 = cur + i /\ n + 1 \notin offsets
    BY <1>1
  <2>3. queryName' = Text(offsets, cur + i)
    <3>1. Append(Text(offsets, n), Byte(n + 1)) = Text(offsets, n + 1)
      <4> HIDE DEF n
      <4> QED
        BY <1>1, <2>2, TextGrows
    <3> QED
      BY <2>1, <2>2, <3>1
  <2>4. Copied' = cur + i
    BY <1>1, <2>1 DEF Copied
  <2>5. i' <= octetCount' + 1
    BY <1>1, <2>1
  <2> QED
    BY <1>2, <1>4, <2>1, <2>3, <2>4, <2>5, SameQuestion DEF SplitInv, SplitAt
<1>5. ASSUME NEW offsets \in SUBSET (0 .. cur), SplitAt(offsets), NextLabel
      PROVE  SplitInv'
  <2> DEFINE next == cur + Byte(cur) + 1
             more == offsets \cup {next}
  <2>1. /\ at = "for" /\ at' = "while" /\ octetCount = Byte(cur)
        /\ octetCount >= 1 /\ i = octetCount + 1 /\ cur' = next
        /\ queryName = Text(offsets, next - 1)
    <3>1. /\ at = "for" /\ at' = "while" /\ octetCount = Byte(cur)
          /\ octetCount >= 1 /\ i > octetCount /\ i <= octetCount + 1
          /\ cur' = cur + octetCount + 1
          /\ queryName = Text(offsets, cur + i - 1)
      BY <1>5 DEF NextLabel, SplitAt, Copied, NameInv
    <3>2. i = octetCount + 1
      BY <1>1, <3>1
    <3>3. cur + i - 1 = next - 1
      BY <1>1, <3>1, <3>2
    <3> QED
      BY <3>1, <3>2, <3>3
  <2>2. next \in Nat /\ next - 1 \in Nat /\ next - 1 < next /\ (next - 1) + 1 = next
    <3> DEFINE octets == Byte(cur)
    <3>1. octets \in Nat
      BY <1>1, OctetIsNat, Zenon
    <3> HIDE DEF octets
    <3>2. /\ cur + octets + 1 \in Nat /\ (cur + octets + 1) - 1 \in Nat
          /\ (cur + octets + 1) - 1 < cur + octets + 1
          /\ ((cur + octets + 1) - 1) + 1 = cur + octets + 1
      BY <1>1, <3>1
    <3> QED
      BY <3>2 DEF octets
  <2>3. more \in SUBSET (0 .. next) /\ LengthOctets(more, next)
    <3>1. LengthOctets(offsets, cur) /\ Byte(cur) # 0
      BY <1>1, <1>5, <2>1 DEF SplitAt
    <3> QED
      BY <1>1, <3>1, NextLengthOctet
  <2> HIDE DEF next
  <2>4. queryName = Text(more, next - 1)
    BY <2>1, <2>2, TextBefore
  <2>5. queryName' = Text(more, IF Byte(next) # 0 THEN next ELSE next - 1)
    <3>1. CASE Byte(next) # 0
      <4>1. queryName' = Append(queryName, Dot)
        BY <1>5, <2>1, <3>1 DEF NextLabel, Write
      <4>2. Append(Text(more, next - 1), Dot) = Text(more, next)
        BY <1>1, <2>2, TextGrows
      <4> QED
        BY <2>4, <3>1, <4>1, <4>2
    <3>2. CASE Byte(next) = 0
      BY <1>5, <2>1, <2>4, <3>2 DEF NextLabel
    <3> QED
      BY <3>1, <3>2
  <2>6. Copied' = IF Byte(next) # 0 THEN next ELSE next - 1
    BY <1>2, <2>1, SameQuestion DEF Copied
  <2>7. PICK after : after = more
    OBVIOUS
  <2> HIDE DEF more
  <2>8. SplitAt(after)'
    <3>1. LengthOctets(after, cur)'
      BY <1>2, <2>1, <2>3, <2>7, SameQuestion
    <3>2. queryName' = Text(after, Copied)'
      BY <1>2, <2>5, <2>6, <2>7, SameQuestion
    <3> QED
      BY <2>1, <3>1, <3>2 DEF SplitAt
  <2>9. after \in SUBSET (0 .. cur')
    BY <2>1, <2>3, <2>7
  <2> QED
    BY <2>8, <2>9 DEF SplitInv
<1>6. ASSUME NEW offsets \in SUBSET (0 .. cur), SplitAt(offsets), Terminate
      PROVE  SplitInv'
  <2>1. /\ at = "end" /\ at' = "question" /\ cur' = cur /\ Byte(cur) = 0
        /\ queryName = Text(offsets, cur - 1) /\ queryName' = Append(queryName, 0)
    BY <1>6 DEF Terminate, Write, SplitAt, Copied
  <2> QED
    BY <1>2, <1>6, <2>1, SameQuestion DEF SplitInv, SplitAt
<1>7. ASSUME NEW offsets \in SUBSET (0 .. cur), SplitAt(offsets), ReadTypeAndClass
      PROVE  SplitInv'
  BY <1>2, <1>7, SameQuestion DEF ReadTypeAndClass, SplitInv, SplitAt
<1>8. PICK offsets \in SUBSET (0 .. cur) : SplitAt(offsets)
  BY DEF SplitInv, QuestionRuns, TestLabel, CopyOctet, NextLabel, Terminate,
         ReadTypeAndClass
<1> QED
  BY <1>3, <1>4, <1>5, <1>6, <1>7, <1>8 DEF QuestionRuns

\* The type and the class are read two octets behind the length of a string
\* without a NUL in it.
LEMMA TypeStep ==
    ASSUME NameInv, SplitInv, ReadTypeAndClass
    PROVE  TypeAndClassRead'
<1> SUFFICES ASSUME 0 < cur', cur' < 65535, \A k \in 1 .. cur' - 1 : queryName'[k] # 0
             PROVE  qtype' = ReadWord(cur + 1)' /\ qclass' = ReadWord(cur + 3)'
  BY DEF TypeAndClassRead
<1>1. /\ at = "question" /\ cur' = cur /\ queryName' = queryName /\ UNCHANGED question
      /\ qnamelen' = (StrLen + 2) % 65536 /\ qtype' = ReadWord(qnamelen')
      /\ qclass' = ReadWord(qnamelen' + 2)
  BY DEF ReadTypeAndClass
<1>2. PICK offsets \in SUBSET (0 .. cur) : SplitAt(offsets)
  BY <1>1 DEF SplitInv
<1>3. cur \in Nat /\ cur - 1 \in Nat /\ question \in Seq(0 .. 255)
      /\ queryName \in Seq(0 .. 255)
  BY <1>1 DEF NameInv, LoopTypeOK
<1>4. queryName = Append(Text(offsets, cur - 1), 0)
  BY <1>1, <1>2 DEF SplitAt
<1>5. Text(offsets, cur - 1) \in Seq(0 .. 255) /\ Len(Text(offsets, cur - 1)) = cur - 1
  BY <1>3, TextIsSeq
<1>6. Len(queryName) = (cur - 1) + 1 /\ queryName[(cur - 1) + 1] = 0
  BY <1>3, <1>4, <1>5
<1>7. StrLen = cur - 1
  BY <1>1, <1>3, <1>6, StrLenIs
<1>8. qnamelen' = cur + 1 /\ qnamelen' + 2 = cur + 3
  <2>1. StrLen + 2 = cur + 1 /\ cur + 1 \in Nat /\ cur + 1 < 65536
    BY <1>1, <1>3, <1>7
  <2>2. \A n \in Nat : n < 65536 => n % 65536 = n
    OBVIOUS
  <2>3. (cur + 1) % 65536 = cur + 1
    BY <2>1, <2>2
  <2> QED
    BY <1>1, <1>3, <2>1, <2>3
<1> QED
  BY <1>1, <1>8, SameQuestion

LEMMA DecodeInvInit == QuestionInit => DecodeInv
<1>1. QuestionInit => NameInv
  BY DEF QuestionInit, NameInv, LoopTypeOK, WritesInBounds, BufferNotWasted
<1>2. QuestionInit => SplitInv /\ TypeAndClassRead
  BY DEF QuestionInit, SplitInv, TypeAndClassRead, NameRead
<1> QED
  BY <1>1, <1>2 DEF DecodeInv

LEMMA DecodeInvStep ==
    ASSUME DecodeInv, [QuestionNext]_questionVars
    PROVE  DecodeInv'
<1>1. NameInv'
  BY NameInvStep DEF DecodeInv
<1>2. CASE QuestionRuns
  <2>1. SplitInv'
    BY <1>2, SplitStep DEF DecodeInv
  <2>2. TypeAndClassRead'
    <3>1. CASE ReadTypeAndClass
      BY <3>1, TypeStep DEF DecodeInv
    <3>2. CASE ~ReadTypeAndClass
      <4>1. at' # "done"
        BY <1>2, <3>2 DEF QuestionRuns, TestLabel, CopyOctet, NextLabel, Terminate
      <4> QED
        BY <4>1 DEF TypeAndClassRead
    <3> QED
      BY <3>1, <3>2
  <2> QED
    BY <1>1, <2>1, <2>2 DEF DecodeInv
<1>3. ASSUME NEW dnsQuestion \in Seq(0 .. 255), ExtractDnsQuestion(dnsQuestion)
      PROVE  DecodeInv'
  <2>1. at' = "while" /\ cur' = 0 /\ queryName' = <<>>
    BY <1>3 DEF ExtractDnsQuestion
  <2>2. Copied' \in Int /\ Copied' <= 0
    BY <2>1 DEF Copied
  <2>3. Text({0}, Copied)' = <<>>
    BY <2>1, <2>2 DEF Text
  <2>4. LengthOctets({0}, cur)'
    BY <2>1 DEF LengthOctets
  <2>5. SplitAt({0})'
    BY <2>1, <2>3, <2>4 DEF SplitAt
  <2>6. {0} \in SUBSET (0 .. cur')
    BY <2>1
  <2> QED
    BY <1>1, <2>1, <2>5, <2>6 DEF DecodeInv, SplitInv, TypeAndClassRead
<1>4. CASE UNCHANGED questionVars
  <2>1. /\ UNCHANGED <<question, at, cur, octetCount, i, queryName, qtype, qclass>>
    BY <1>4 DEF questionVars
  <2>2. SplitInv'
    <3>1. \A offsets : SplitAt(offsets)' <=> SplitAt(offsets)
      BY <2>1, SameQuestion DEF SplitAt, Copied
    <3> QED
      BY <2>1, <3>1 DEF DecodeInv, SplitInv
  <2>3. TypeAndClassRead'
    BY <2>1, SameQuestion DEF DecodeInv, TypeAndClassRead, NameRead
  <2> QED
    BY <1>1, <2>2, <2>3 DEF DecodeInv
<1> QED
  BY <1>2, <1>3, <1>4 DEF QuestionNext

LEMMA DecodeInvariant == QuestionSpec => []DecodeInv
<1>1. DecodeInv /\ [QuestionNext]_questionVars => DecodeInv'
  BY DecodeInvStep
<1> QED
  BY <1>1, DecodeInvInit, PTL DEF QuestionSpec

LEMMA SplitIsDotted ==
    ASSUME DecodeInv
    PROVE  NameIsDotted
<1> SUFFICES ASSUME NameRead
             PROVE  \E dots \in SUBSET {k \in DOMAIN queryName : queryName[k] = Dot} :
                       LET offsets == {0, cur} \cup dots
                       IN  /\ LengthOctets(offsets, cur) /\ Byte(cur) = 0
                           /\ queryName = Append(Text(offsets, cur - 1), 0)
  BY DEF NameIsDotted
<1>1. PICK offsets \in SUBSET (0 .. cur) : SplitAt(offsets)
  BY DEF DecodeInv, SplitInv, NameRead
<1>2. /\ LengthOctets(offsets, cur) /\ Byte(cur) = 0 /\ {0, cur} \subseteq offsets
      /\ queryName = Append(Text(offsets, cur - 1), 0)
  BY <1>1 DEF SplitAt, NameRead, LengthOctets
<1>3. cur \in Nat /\ question \in Seq(0 .. 255)
  BY DEF DecodeInv, NameInv, LoopTypeOK
<1> DEFINE dots == offsets \cap 1 .. cur - 1
<1>4. {0, cur} \cup dots = offsets
  <2>1. \A k \in 0 .. cur : k = 0 \/ k = cur \/ k \in 1 .. cur - 1
    BY <1>3
  <2> QED
    BY <1>2, <2>1
<1>5. ASSUME NEW k \in dots
      PROVE  k \in DOMAIN queryName /\ queryName[k] = Dot
  <2>1. cur - 1 \in Nat /\ k \in 1 .. cur - 1 /\ k \in offsets
    BY <1>3
  <2>2. Text(offsets, cur - 1) \in Seq(0 .. 255) /\ Len(Text(offsets, cur - 1)) = cur - 1
    BY <1>3, <2>1, TextIsSeq
  <2>3. Text(offsets, cur - 1)[k] = Dot
    BY <2>1 DEF Text
  <2>4. Append(Text(offsets, cur - 1), 0)[k] = Text(offsets, cur - 1)[k]
        /\ k \in DOMAIN Append(Text(offsets, cur - 1), 0)
    BY <2>1, <2>2
  <2> QED
    BY <1>2, <2>3, <2>4
<1> HIDE DEF dots
<1>6. dots \in SUBSET {k \in DOMAIN queryName : queryName[k] = Dot}
  BY <1>5
<1> QED
  BY <1>2, <1>4, <1>6

-----------------------------------------------------------------------------
(* The headers of a packet.                                                *)

\* n bytes of p, from an offset on, are the first n of q.
SameBytes(p, from, q, n) == \A k \in 1 .. n : p[from + k] = q[k]

LEMMA Joined ==
    ASSUME NEW s \in Seq(Int), NEW t \in Seq(Int), NEW m \in Nat, Len(s) = m
    PROVE  /\ s \o t \in Seq(Int)
           /\ Len(s \o t) = m + Len(t)
           /\ SameBytes(s \o t, 0, s, m)
           /\ SameBytes(s \o t, m, t, Len(t))
<1>1. /\ s \o t \in Seq(Int) /\ Len(s \o t) = m + Len(t)
      /\ \A k \in 1 .. m + Len(t) : (s \o t)[k] = IF k <= m THEN s[k] ELSE t[k - m]
  BY ConcatProperties
<1>2. Len(t) \in Nat
  OBVIOUS
<1>3. SameBytes(s \o t, 0, s, m)
  BY <1>1, <1>2 DEF SameBytes
<1>4. SameBytes(s \o t, m, t, Len(t))
  BY <1>1, <1>2 DEF SameBytes
<1> QED
  BY <1>1, <1>3, <1>4

LEMMA DivAndMod == \A n \in Nat : n \div 256 \in Int /\ n % 256 \in Int
  OBVIOUS

LEMMA TcpHeaderSize ==
    ASSUME NEW h \in TcpHeaders
    PROVE  TcpHeaderBytes(h) \in Seq(Int) /\ Len(TcpHeaderBytes(h)) = 20
<1>1. /\ h.srcPort \in Nat /\ h.dstPort \in Nat /\ h.seqNumber \in Nat
      /\ h.ackNumber \in Nat /\ h.windown \in Nat /\ h.checksum \in Nat
      /\ h.urgentPointer \in Nat
  BY DEF TcpHeaders, Word, Word32
<1>2. /\ h.seqNumber \div 65536 \in Nat /\ h.seqNumber % 65536 \in Nat
      /\ h.ackNumber \div 65536 \in Nat /\ h.ackNumber % 65536 \in Nat
  BY <1>1
<1>3. /\ 16 * h.offset + 2 * h.reserved + FlagBit(h.ns, 1) \in Int
      /\ FlagBit(h.cwr, 128) + FlagBit(h.ece, 64) + FlagBit(h.urg, 32)
           + FlagBit(h.ack, 16) + FlagBit(h.psh, 8) + FlagBit(h.rst, 4)
           + FlagBit(h.sync, 2) + FlagBit(h.fin, 1) \in Int
  BY DEF TcpHeaders, FlagBit
<1>4. TcpHeaderBytes(h) \in Seq(Int)
  BY <1>1, <1>2, <1>3, DivAndMod DEF TcpHeaderBytes, Octets32, Octets16
<1>5. Len(TcpHeaderBytes(h)) = 20
  BY DEF TcpHeaderBytes, Octets32, Octets16
<1> QED
  BY <1>4, <1>5

LEMMA UdpHeaderSize ==
    ASSUME NEW h \in UdpHeaders
    PROVE  UdpHeaderBytes(h) \in Seq(Int) /\ Len(UdpHeaderBytes(h)) = 8
<1>1. h.srcPort \in Nat /\ h.dstPort \in Nat /\ h.len \in Nat /\ h.sum \in Nat
  BY DEF UdpHeaders, Word
<1>2. UdpHeaderBytes(h) \in Seq(Int)
  BY <1>1, DivAndMod DEF UdpHeaderBytes, Octets16
<1>3. Len(UdpHeaderBytes(h)) = 8
  BY DEF UdpHeaderBytes, Octets16
<1> QED
  BY <1>2, <1>3

LEMMA DnsHeaderSize ==
    ASSUME NEW h \in DnsHeaders
    PROVE  DnsHeaderBytes(h) \in Seq(Int) /\ Len(DnsHeaderBytes(h)) = 12
<1>1. /\ h.id \in Nat /\ h.qdcount \in Nat /\ h.ancount \in Nat
      /\ h.nscount \in Nat /\ h.arcount \in Nat
  BY DEF DnsHeaders, Word
<1>2. /\ 128 * h.qr + 8 * h.opcode + 4 * h.aa + 2 * h.tc + h.rd \in Int
      /\ 128 * h.ra + 16 * h.z + h.rcode \in Int
  BY DEF DnsHeaders, Bit
<1>3. DnsHeaderBytes(h) \in Seq(Int)
  BY <1>1, <1>2, DivAndMod DEF DnsHeaderBytes, Octets16
<1>4. Len(DnsHeaderBytes(h)) = 12
  BY DEF DnsHeaderBytes, Octets16
<1> QED
  BY <1>3, <1>4

\* A decoder looks at the bytes of the header alone.
LEMMA TcpBytesDecide ==
    ASSUME NEW h \in TcpHeaders, NEW p, SameBytes(p, 0, TcpHeaderBytes(h), 20)
    PROVE  extractTcpHeader(p) = h /\ Bits(p[13], 16, 16) = h.offset
<1> DEFINE q == TcpHeaderBytes(h)
<1>1. /\ p[1] = q[1] /\ p[2] = q[2] /\ p[3] = q[3] /\ p[4] = q[4] /\ p[5] = q[5]
      /\ p[6] = q[6] /\ p[7] = q[7] /\ p[8] = q[8] /\ p[9] = q[9] /\ p[10] = q[10]
  BY DEF SameBytes
<1>2. /\ p[11] = q[11] /\ p[12] = q[12] /\ p[13] = q[13] /\ p[14] = q[14]
      /\ p[15] = q[15] /\ p[16] = q[16] /\ p[17] = q[17] /\ p[18] = q[18]
      /\ p[19] = q[19] /\ p[20] = q[20]
  BY DEF SameBytes
<1>3. extractTcpHeader(q) = h
  BY TcpHeaderIsRead
<1> HIDE DEF q
<1>4. /\ Field16(p, 0) = Field16(q, 0) /\ Field16(p, 2) = Field16(q, 2)
      /\ Field32(p, 4) = Field32(q, 4) /\ Field32(p, 8) = Field32(q, 8)
      /\ Field16(p, 14) = Field16(q, 14) /\ Field16(p, 16) = Field16(q, 16)
      /\ Field16(p, 18) = Field16(q, 18)
  BY <1>1, <1>2 DEF Field16, Field32
<1>5. extractTcpHeader(p) = extractTcpHeader(q)
  BY <1>2, <1>4 DEF extractTcpHeader
<1>6. extractTcpHeader(p).offset = Bits(p[13], 16, 16)
  BY DEF extractTcpHeader
<1> QED
  BY <1>3, <1>5, <1>6

LEMMA UdpBytesDecide ==
    ASSUME NEW h \in UdpHeaders, NEW p, SameBytes(p, 0, UdpHeaderBytes(h), 8)
    PROVE  extractUdpHeader(p) = h
<1> DEFINE q == UdpHeaderBytes(h)
<1>1. /\ p[1] = q[1] /\ p[2] = q[2] /\ p[3] = q[3] /\ p[4] = q[4]
      /\ p[5] = q[5] /\ p[6] = q[6] /\ p[7] = q[7] /\ p[8] = q[8]
  BY DEF SameBytes
<1>2. extractUdpHeader(q) = h
  BY UdpHeaderIsRead
<1> HIDE DEF q
<1>3. extractUdpHeader(p) = extractUdpHeader(q)
  BY <1>1 DEF extractUdpHeader, Field16
<1> QED
  BY <1>2, <1>3

LEMMA DnsBytesDecide ==
    ASSUME NEW h \in DnsHeaders, NEW p, SameBytes(p, 0, DnsHeaderBytes(h), 12)
    PROVE  extractDnsHeader(p) = h
<1> DEFINE q == DnsHeaderBytes(h)
<1>1. /\ p[1] = q[1] /\ p[2] = q[2] /\ p[3] = q[3] /\ p[4] = q[4] /\ p[5] = q[5]
      /\ p[6] = q[6] /\ p[7] = q[7] /\ p[8] = q[8] /\ p[9] = q[9] /\ p[10] = q[10]
      /\ p[11] = q[11] /\ p[12] = q[12]
  BY DEF SameBytes
<1>2. extractDnsHeader(q) = h
  BY DnsHeaderIsRead
<1> HIDE DEF q
<1>3. extractDnsHeader(p) = extractDnsHeader(q)
  BY <1>1 DEF extractDnsHeader, Field16
<1> QED
  BY <1>2, <1>3

\* What lies behind a pointer into the packet.
LEMMA FromIsSeq ==
    ASSUME NEW S, NEW pointer \in Seq(S), NEW k \in Nat
    PROVE  /\ From(pointer, k) \in Seq(S)
           /\ SameBytes(pointer, k, From(pointer, k), Len(pointer) - k)
<1>1. CASE k <= Len(pointer)
  BY <1>1 DEF From, SameBytes
<1>2. CASE k > Len(pointer)
  <2>1. From(pointer, k) = <<>>
    BY <1>2 DEF From
  <2> QED
    BY <1>2, <2>1 DEF SameBytes
<1> QED
  BY <1>1, <1>2

LEMMA SeqOfMore ==
    ASSUME NEW S, NEW T, S \subseteq T, NEW s \in Seq(S)
    PROVE  s \in Seq(T)
  OBVIOUS

LEMMA Transport ==
    ASSUME NEW frame, NEW header, NEW dns, NEW payload
    PROVE  /\ Packet(frame, "tcp", header, dns, payload).transport
                = TcpHeaderBytes(header) \o payload
           /\ Packet(frame, "udp", header, dns, payload).transport
                = UdpHeaderBytes(header) \o payload
           /\ Packet(frame, "dns", header, dns, payload).transport
                = UdpHeaderBytes(header) \o DnsHeaderBytes(dns) \o payload
  BY DEF Packet

Octets == 0 .. 255

LEMMA OctetsAreInts == Octets \subseteq Int
  BY DEF Octets

\* The headers of a packet are where the decoders look for them.
LEMMA TcpPacketIsRead ==
    ASSUME NEW p \in Packets, p.kind = "tcp"
    PROVE  /\ SameBytes(p.transport, 0, TcpHeaderBytes(p.header), 20)
           /\ p.header \in TcpHeaders
           /\ p.header.offset = p.frame.doff
<1> DEFINE payload == From(p.transport, 20)
<1>1. /\ p.header \in TcpHeaders /\ p.header.offset = p.frame.doff
      /\ p.transport \in Seq(Octets)
      /\ p = Packet(p.frame, "tcp", p.header, p.dns, payload)
  BY PacketsAssumption DEF PacketOK, Octets
<1>2. payload \in Seq(Int)
  BY <1>1, FromIsSeq, OctetsAreInts, SeqOfMore
<1> HIDE DEF payload
<1>3. p.transport = TcpHeaderBytes(p.header) \o payload
  <2>1. Packet(p.frame, "tcp", p.header, p.dns, payload).transport
           = TcpHeaderBytes(p.header) \o payload
    BY Transport
  <2> QED
    BY <1>1, <2>1, Zenon
<1>4. TcpHeaderBytes(p.header) \in Seq(Int) /\ Len(TcpHeaderBytes(p.header)) = 20
  BY <1>1, TcpHeaderSize
<1>5. SameBytes(TcpHeaderBytes(p.header) \o payload, 0, TcpHeaderBytes(p.header), 20)
  BY <1>2, <1>4, Joined
<1> QED
  BY <1>1, <1>3, <1>5

LEMMA DnsPacketLayout ==
    ASSUME NEW p \in Packets, p.kind = "dns"
    PROVE  /\ p.header \in UdpHeaders /\ p.dns \in DnsHeaders
           /\ p.transport \in Seq(Octets)
           /\ \E rest \in Seq(Int) :
                 p.transport = UdpHeaderBytes(p.header) \o (DnsHeaderBytes(p.dns) \o rest)
<1> DEFINE rest == From(p.transport, 20)
           udp == UdpHeaderBytes(p.header)
           dns == DnsHeaderBytes(p.dns)
<1>1. /\ p.header \in UdpHeaders /\ p.dns \in DnsHeaders /\ p.transport \in Seq(Octets)
      /\ p = Packet(p.frame, "dns", p.header, p.dns, rest)
  BY PacketsAssumption DEF PacketOK, Octets
<1>2. rest \in Seq(Int)
  BY <1>1, FromIsSeq, OctetsAreInts, SeqOfMore
<1> HIDE DEF rest
<1>3. Packet(p.frame, "dns", p.header, p.dns, rest).transport = (udp \o dns) \o rest
  BY Transport
<1>4. p.transport = (udp \o dns) \o rest
  BY <1>1, <1>3, Zenon
<1>5. udp \in Seq(Int) /\ dns \in Seq(Int)
  BY <1>1, UdpHeaderSize, DnsHeaderSize
<1> HIDE DEF udp, dns
<1>6. (udp \o dns) \o rest = udp \o (dns \o rest)
  BY <1>2, <1>5
<1>7. p.transport = udp \o (dns \o rest)
  BY <1>4, <1>6
<1> QED
  BY <1>1, <1>2, <1>7 DEF udp, dns

LEMMA UdpPacketIsRead ==
    ASSUME NEW p \in Packets, p.kind \in {"udp", "dns"}
    PROVE  extractUdpHeader(p.transport) = p.header
<1> DEFINE udp == UdpHeaderBytes(p.header)
<1>1. p.header \in UdpHeaders /\ p.transport \in Seq(Octets)
  BY PacketsAssumption DEF PacketOK, Octets
<1>2. PICK rest \in Seq(Int) : p.transport = udp \o rest
  <2>1. CASE p.kind = "udp"
    <3> DEFINE payload == From(p.transport, 8)
    <3>1. p = Packet(p.frame, "udp", p.header, p.dns, payload)
      BY <2>1, PacketsAssumption DEF PacketOK
    <3>2. payload \in Seq(Int)
      BY <1>1, FromIsSeq, OctetsAreInts, SeqOfMore
    <3> HIDE DEF payload
    <3>3. Packet(p.frame, "udp", p.header, p.dns, payload).transport = udp \o payload
      BY Transport
    <3>4. p.transport = udp \o payload
      BY <3>1, <3>3, Zenon
    <3> QED
      BY <3>2, <3>4
  <2>2. CASE p.kind = "dns"
    <3>1. PICK rest \in Seq(Int) : p.transport = udp \o (DnsHeaderBytes(p.dns) \o rest)
      BY <2>2, DnsPacketLayout
    <3>2. DnsHeaderBytes(p.dns) \in Seq(Int)
      BY <2>2, DnsPacketLayout, DnsHeaderSize
    <3>3. DnsHeaderBytes(p.dns) \o rest \in Seq(Int)
      BY <3>2, ConcatProperties
    <3> QED
      BY <3>1, <3>3
  <2> QED
    BY <2>1, <2>2
<1>3. udp \in Seq(Int) /\ Len(udp) = 8
  BY <1>1, UdpHeaderSize
<1>4. SameBytes(udp \o rest, 0, udp, 8)
  BY <1>3, Joined
<1> QED
  BY <1>1, <1>2, <1>4, UdpBytesDecide

LEMMA DnsPacketIsRead ==
    ASSUME NEW p \in Packets, p.kind = "dns"
    PROVE  extractDnsHeader(From(p.transport, 8)) = p.dns
<1> DEFINE behind == From(p.transport, 8)
           udp == UdpHeaderBytes(p.header)
           dns == DnsHeaderBytes(p.dns)
<1>1. p.header \in UdpHeaders /\ p.dns \in DnsHeaders /\ p.transport \in Seq(Octets)
  BY DnsPacketLayout
<1>2. PICK rest \in Seq(Int) : p.transport = udp \o (dns \o rest)
  BY DnsPacketLayout
<1>3. /\ udp \in Seq(Int) /\ Len(udp) = 8
      /\ dns \in Seq(Int) /\ Len(dns) = 12
  BY <1>1, UdpHeaderSize, DnsHeaderSize
<1>4. SameBytes(p.transport, 8, behind, Len(p.transport) - 8)
  BY <1>1, FromIsSeq
<1> HIDE DEF udp, dns, behind
<1> DEFINE name == dns \o rest
<1>5. /\ name \in Seq(Int)
      /\ Len(name) = 12 + Len(rest) /\ Len(rest) \in Nat
  <2>1. name \in Seq(Int) /\ Len(name) = Len(dns) + Len(rest)
    BY <1>3, ConcatProperties, Zenon
  <2>2. Len(rest) \in Nat
    OBVIOUS
  <2> QED
    BY <1>3, <2>1, <2>2, Zenon
<1>6. SameBytes(name, 0, dns, 12)
  BY <1>3, Joined
<1> HIDE DEF name
<1>7. SameBytes(p.transport, 8, name, Len(name)) /\ Len(p.transport) = 8 + Len(name)
  <2>1. SameBytes(udp \o name, 8, name, Len(name)) /\ Len(udp \o name) = 8 + Len(name)
    <3>1. 8 \in Nat
      OBVIOUS
    <3> QED
      BY <1>3, <1>5, <3>1, Joined, Zenon
  <2> QED
    BY <1>2, <2>1, Zenon DEF name
<1>8. ASSUME NEW k \in 1 .. 12
      PROVE  behind[0 + k] = dns[k]
  <2>1. name[0 + k] = dns[k] /\ 0 + k = k
    BY <1>6 DEF SameBytes
  <2>2. k \in 1 .. Len(name) /\ k \in 1 .. Len(p.transport) - 8
    BY <1>5, <1>7
  <2>3. p.transport[8 + k] = name[k] /\ p.transport[8 + k] = behind[k]
    BY <1>4, <1>7, <2>2, Zenon DEF SameBytes
  <2> QED
    BY <2>1, <2>3
<1>9. SameBytes(behind, 0, dns, 12)
  BY <1>8, Zenon DEF SameBytes
<1> QED
  BY <1>1, <1>9, DnsBytesDecide DEF dns, behind

-----------------------------------------------------------------------------
(* callback() and sniff().                                                 *)

\* The decoder that is entered has the packet's own header, and the byte it
\* was chosen by; nothing of the packet before is shown.
EnteredInv ==
    pc \in {"tcp", "udp", "dns"} =>
        /\ shown = Nothing
        /\ packet.frame.type = "IP" => ipHeaderLength = packet.frame.ihl * 4
        /\ packet.frame.type = "IPV6" => ipHeaderLength = 40
        /\ packet.frame.type \in {"IP", "IPV6"} => headerPtr = packet.transport
        /\ packet.frame.byte9 = IF pc = "tcp" THEN TCP ELSE UDP
        /\ pc = "dns" /\ packet.frame.type = "IP" => packet.kind = "dns"

\* What is shown is right from when the last header is decoded.
ShownInv ==
    pc = "question" \/ Decoded => ShownAsWhatItIs /\ ShownFields

CallbackInv ==
    /\ packet \in Packets
    /\ headerPtr \in Seq(Octets)
    /\ pc \in {"lookup", "open", "compile", "setfilter"} => delivered = 0
    /\ EnteredInv
    /\ ShownInv

LEMMA CallbackInit == Init => CallbackInv
<1>1. <<>> \in Seq(Octets)
  OBVIOUS
<1> QED
  BY <1>1 DEF Init, CallbackInv, EnteredInv, ShownInv, Decoded

\* The functions of sniff() around the loop.
LEMMA SniffStep ==
    ASSUME CallbackInv,
           \/ pcap_lookupnet \/ pcap_open_live \/ pcap_compile \/ pcap_setfilter
           \/ pcap_loop \/ LoopEnds
    PROVE  CallbackInv'
<1>1. ASSUME NEW name \in {"lookup", "open", "compile", "setfilter"},
             NEW next \in {"open", "compile", "setfilter", "loop"}, Call(name, next)
      PROVE  CallbackInv'
  <2>1. /\ pc' \in {"open", "compile", "setfilter", "loop", "done"} /\ delivered' = 0
        /\ UNCHANGED <<packet, headerPtr>>
    BY <1>1 DEF Call, locals, CallbackInv
  <2> QED
    BY <2>1 DEF CallbackInv, EnteredInv, ShownInv, Decoded
<1>2. CASE pcap_loop
  <2>1. pc' = "callback" /\ packet' \in Packets /\ headerPtr' = headerPtr
    BY <1>2 DEF pcap_loop
  <2> QED
    BY <2>1 DEF CallbackInv, EnteredInv, ShownInv, Decoded
<1>3. CASE LoopEnds
  <2>1. pc' = "done" /\ UNCHANGED <<packet, headerPtr>>
    BY <1>3 DEF LoopEnds, locals
  <2> QED
    BY <2>1 DEF CallbackInv, EnteredInv, ShownInv, Decoded
<1> QED
  BY <1>1, <1>2, <1>3 DEF pcap_lookupnet, pcap_open_live, pcap_compile, pcap_setfilter

\* callback() takes the header from behind the IP header, or, of a frame that
\* is not IP, from anywhere.
LEMMA CallbackStep ==
    ASSUME CallbackInv, Callback
    PROVE  CallbackInv'
<1> DEFINE frame == packet.frame
<1>1. /\ packet' = packet /\ packet \in Packets /\ shown' = Nothing
      /\ ipHeaderLength' \in HeaderLengths
      /\ headerPtr' \in BytesAt(EthernetLength + ipHeaderLength')
      /\ pc' = IF frame.byte9 = UDP THEN "udp" ELSE IF frame.byte9 = TCP THEN "tcp" ELSE "loop"
  <2>1. /\ packet' = packet /\ packet \in Packets /\ shown' = Nothing
        /\ ipHeaderLength' \in HeaderLengths
        /\ headerPtr' \in BytesAt(EthernetLength + ipHeaderLength')
    BY DEF Callback, CallbackInv
  <2>2. /\ protocol' = packet.frame.byte9
        /\ pc' = CASE protocol' = UDP -> "udp"
                   [] protocol' = TCP -> "tcp"
                   [] OTHER -> "loop"
    BY DEF Callback
  <2>3. UDP # TCP
    BY DEF UDP, TCP
  <2>4. pc' = IF frame.byte9 = UDP THEN "udp" ELSE IF frame.byte9 = TCP THEN "tcp" ELSE "loop"
    BY <2>2, <2>3
  <2> QED
    BY <2>1, <2>4
<1>2. /\ frame.type \in {"IP", "IPV6", "ARP"} /\ frame.ihl \in 0 .. 15
      /\ frame.type = "IPV6" => frame.ihl = 10
      /\ packet.transport \in Seq(Octets) /\ Strays \subseteq Seq(Octets)
  BY <1>1, PacketsAssumption DEF PacketOK, Octets
<1>3. headerPtr' \in Seq(Octets)
  BY <1>1, <1>2 DEF BytesAt
<1>4. /\ frame.type = "IP" => ipHeaderLength' = frame.ihl * 4
      /\ frame.type = "IPV6" => ipHeaderLength' = 40
  BY <1>1 DEF HeaderLengths
<1>5. frame.type \in {"IP", "IPV6"} => headerPtr' = packet.transport
  <2>1. frame.type \in {"IP", "IPV6"} =>
           EthernetLength + ipHeaderLength' = TransportStart(frame)
    BY <1>2, <1>4 DEF TransportStart
  <2> QED
    BY <1>1, <2>1 DEF BytesAt
<1>6. EnteredInv'
  BY <1>1, <1>4, <1>5 DEF EnteredInv, TCP, UDP
<1>7. ShownInv'
  <2>1. CASE pc' = "loop"
    <3>1. frame.byte9 # UDP /\ frame.byte9 # TCP
      BY <1>1, <2>1
    <3>2. shown'.kind = "nothing" /\ ~IsIPv4(frame, TCP) /\ ~IsIPv4(frame, UDP)
      BY <1>1, <3>1 DEF Nothing, IsIPv4
    <3> QED
      BY <1>1, <3>2 DEF ShownInv, ShownAsWhatItIs, ShownFields
  <2>2. CASE pc' # "loop"
    BY <1>1, <2>2 DEF ShownInv, Decoded
  <2> QED
    BY <2>1, <2>2
<1>8. pc' \notin {"lookup", "open", "compile", "setfilter"}
  BY <1>1
<1> QED
  BY <1>1, <1>3, <1>6, <1>7, <1>8 DEF CallbackInv

\* A datagram on IPv4 is looked into exactly if it is a DNS packet.
LEMMA UdpStep ==
    ASSUME CallbackInv, processUdpPacket
    PROVE  CallbackInv'
<1>1. /\ pc = "udp" /\ UNCHANGED <<packet, headerPtr, ipHeaderLength, shown>>
      /\ pc' = IF extractUdpHeader(headerPtr).dstPort = 53 THEN "dns" ELSE "loop"
      /\ packet \in Packets
  BY DEF processUdpPacket, locals, CallbackInv
<1>2. /\ shown = Nothing /\ packet.frame.byte9 = UDP
      /\ packet.frame.type \in {"IP", "IPV6"} => headerPtr = packet.transport
  BY <1>1 DEF CallbackInv, EnteredInv
<1>3. ASSUME packet.frame.type = "IP"
      PROVE  pc' = IF packet.kind = "dns" THEN "dns" ELSE "loop"
  <2>1. packet.kind \in {"udp", "dns"} /\ (packet.kind = "dns" <=> packet.header.dstPort = 53)
    BY <1>1, <1>2, <1>3, PacketsAssumption DEF PacketOK, IsIPv4
  <2>2. extractUdpHeader(headerPtr).dstPort = packet.header.dstPort
    BY <1>1, <1>2, <1>3, <2>1, UdpPacketIsRead
  <2> QED
    BY <1>1, <2>1, <2>2
<1>4. EnteredInv'
  BY <1>1, <1>3 DEF CallbackInv, EnteredInv
<1>5. ShownInv'
  <2>1. CASE pc' = "loop"
    <3>1. shown'.kind = "nothing" /\ ~IsIPv4(packet.frame, TCP)
      BY <1>1, <1>2 DEF Nothing, IsIPv4, TCP, UDP
    <3>2. packet.frame.type = "IP" => packet.kind # "dns"
      BY <1>3, <2>1
    <3> QED
      BY <1>1, <3>1, <3>2 DEF ShownInv, ShownAsWhatItIs, ShownFields
  <2>2. CASE pc' = "dns"
    BY <2>2 DEF ShownInv, Decoded
  <2> QED
    BY <1>1, <2>1, <2>2
<1>6. pc' \notin {"lookup", "open", "compile", "setfilter"}
  BY <1>1
<1> QED
  BY <1>1, <1>4, <1>5, <1>6 DEF CallbackInv

\* The DNS header and the question are behind the UDP header.
LEMMA DnsStep ==
    ASSUME CallbackInv, processDNS
    PROVE  CallbackInv'
<1> DEFINE frame == packet.frame
<1>1. /\ pc = "dns" /\ pc' = "question" /\ UNCHANGED <<packet, headerPtr, ipHeaderLength>>
      /\ packet \in Packets
  BY DEF processDNS, locals, CallbackInv
<1>2. /\ shown'.kind = "dns"
      /\ shown'.header = extractDnsHeader(From(headerPtr, 8))
      /\ shown'.question = udpHeaderPtr + 8 + 12
  BY DEF processDNS
<1>3. /\ frame.byte9 = UDP
      /\ frame.type = "IP" => packet.kind = "dns" /\ ipHeaderLength = frame.ihl * 4
      /\ frame.type = "IPV6" => ipHeaderLength = 40
      /\ frame.type \in {"IP", "IPV6"} => headerPtr = packet.transport
  BY <1>1 DEF CallbackInv, EnteredInv
<1>4. /\ frame.ihl \in 0 .. 15
      /\ frame.type = "IPV6" => frame.ihl = 10
  BY <1>1, PacketsAssumption DEF PacketOK
<1>5. frame.type \in {"IP", "IPV6"} => udpHeaderPtr + 8 + 12 = DnsQuestionStart(frame)
  <2>1. frame.type = "IP" => udpHeaderPtr + 8 + 12 = DnsQuestionStart(frame)
    BY <1>3, <1>4 DEF udpHeaderPtr, EthernetLength, DnsQuestionStart, UdpDataStart,
                      TransportStart
  <2>2. frame.type = "IPV6" => udpHeaderPtr + 8 + 12 = DnsQuestionStart(frame)
    BY <1>3, <1>4 DEF udpHeaderPtr, EthernetLength, DnsQuestionStart, UdpDataStart,
                      TransportStart
  <2> QED
    BY <2>1, <2>2
<1>6. frame.type \in {"IP", "IPV6"} /\ packet.kind = "dns" => shown'.header = packet.dns
  BY <1>1, <1>2, <1>3, DnsPacketIsRead
<1>7. ~IsIPv4(frame, TCP) /\ (frame.type = "IP" => IsIPv4(frame, UDP))
  BY <1>3 DEF IsIPv4, TCP, UDP
<1>8. ShownAsWhatItIs'
  BY <1>1, <1>2, <1>3, <1>5, <1>7 DEF ShownAsWhatItIs
<1>9. ShownFields'
  BY <1>1, <1>2, <1>6 DEF ShownFields
<1>10. EnteredInv' /\ ShownInv'
  BY <1>1, <1>8, <1>9 DEF EnteredInv, ShownInv
<1> QED
  BY <1>1, <1>10 DEF CallbackInv

\* The TCP header is the packet's, with as many words as it says.
LEMMA TcpStep ==
    ASSUME CallbackInv, processTcpPacket
    PROVE  CallbackInv'
<1> DEFINE frame == packet.frame
           tcpHeaderLength == Bits(headerPtr[13], 16, 16) * 4
           Copy(stack) ==
               [k \in 1 .. 20 |-> IF k <= tcpHeaderLength THEN headerPtr[k] ELSE stack[k]]
<1>1. /\ pc = "tcp" /\ pc' = "loop" /\ UNCHANGED <<packet, headerPtr, ipHeaderLength>>
      /\ packet \in Packets
  BY DEF processTcpPacket, locals, CallbackInv
<1>2. PICK stack \in Strays :
         /\ shown'.kind = "tcp" /\ shown'.header = extractTcpHeader(Copy(stack))
         /\ shown'.from[1] = EthernetLength + ipHeaderLength
         /\ shown'.from[2] = EthernetLength + ipHeaderLength + tcpHeaderLength
  <2> DEFINE total == EthernetLength + ipHeaderLength + tcpHeaderLength
             length == FrameLength(packet.frame) - total
             Shown(stack) ==
                [kind |-> "tcp",
                 header |-> extractTcpHeader(Copy(stack)),
                 from |-> <<EthernetLength + ipHeaderLength,
                            EthernetLength + ipHeaderLength + tcpHeaderLength>>,
                 payload |-> <<length, length + length>>]
  <2>1. PICK stack \in Strays : shown' = Shown(stack)
    BY DEF processTcpPacket
  <2> HIDE DEF Copy, tcpHeaderLength, length
  <2>2. /\ shown'.kind = "tcp" /\ shown'.header = extractTcpHeader(Copy(stack))
        /\ shown'.from = <<EthernetLength + ipHeaderLength,
                           EthernetLength + ipHeaderLength + tcpHeaderLength>>
    BY <2>1, Zenon
  <2> QED
    BY <2>2
<1>3. /\ frame.byte9 = TCP
      /\ frame.type = "IP" => ipHeaderLength = frame.ihl * 4
      /\ frame.type = "IPV6" => ipHeaderLength = 40
      /\ frame.type \in {"IP", "IPV6"} => headerPtr = packet.transport
  BY <1>1 DEF CallbackInv, EnteredInv
<1>4. /\ frame.ihl \in 0 .. 15 /\ frame.doff \in 0 .. 15
      /\ frame.type = "IPV6" => frame.ihl = 10
      /\ IsIPv4(frame, TCP) => packet.kind = "tcp"
  BY <1>1, PacketsAssumption DEF PacketOK
<1>5. frame.type = "IP" => packet.kind = "tcp"
  BY <1>3, <1>4 DEF IsIPv4
<1>6. ASSUME frame.type \in {"IP", "IPV6"}, packet.kind = "tcp"
      PROVE  /\ tcpHeaderLength = 4 * frame.doff
             /\ frame.doff >= 5 => extractTcpHeader(Copy(stack)) = packet.header
  <2> DEFINE q == TcpHeaderBytes(packet.header)
  <2>1. /\ SameBytes(headerPtr, 0, q, 20) /\ packet.header \in TcpHeaders
        /\ packet.header.offset = frame.doff
    BY <1>1, <1>3, <1>6, TcpPacketIsRead
  <2>2. Bits(headerPtr[13], 16, 16) = frame.doff
    BY <2>1, TcpBytesDecide
  <2>3. tcpHeaderLength = 4 * frame.doff
    BY <1>4, <2>2
  <2> HIDE DEF q, tcpHeaderLength
  <2>4. ASSUME frame.doff >= 5
        PROVE  SameBytes(Copy(stack), 0, q, 20)
    <3>1. \A k \in 1 .. 20 : k <= tcpHeaderLength
      BY <1>4, <2>3, <2>4
    <3>2. \A k \in 1 .. 20 : Copy(stack)[k] = headerPtr[k]
      BY <3>1
    <3> HIDE DEF Copy
    <3> QED
      BY <2>1, <3>2 DEF SameBytes
  <2> HIDE DEF Copy
  <2>5. frame.doff >= 5 => extractTcpHeader(Copy(stack)) = packet.header
    BY <2>1, <2>4, TcpBytesDecide DEF q
  <2> QED
    BY <2>3, <2>5
<1> HIDE DEF Copy
<1>7. frame.type \in {"IP", "IPV6"} => EthernetLength + ipHeaderLength = TransportStart(frame)
  BY <1>3, <1>4 DEF TransportStart
<1>8. IsIPv4(frame, TCP) => shown'.from[2] = TcpDataStart(frame)
  BY <1>2, <1>5, <1>6, <1>7 DEF IsIPv4, TcpDataStart
<1>9. frame.type = "IP" => IsIPv4(frame, TCP)
  BY <1>3 DEF IsIPv4
<1>10. ShownAsWhatItIs'
  <2>1. frame.type = "IP" =>
          shown'.kind = CASE IsIPv4(frame, TCP) -> "tcp"
                          [] IsIPv4(frame, UDP) /\ packet.kind = "dns" -> "dns"
                          [] OTHER -> "nothing"
    <3>1. ~IsIPv4(frame, UDP)
      BY <1>3 DEF IsIPv4, TCP, UDP
    <3> QED
      BY <1>2, <1>9, <3>1
  <2>2. /\ frame.type \in {"IP", "IPV6"} => shown'.from[1] = TransportStart(frame)
        /\ shown'.kind # "dns"
    BY <1>2, <1>7
  <2> QED
    BY <1>1, <1>8, <2>1, <2>2, Zenon DEF ShownAsWhatItIs
<1>11. ShownFields'
  BY <1>1, <1>2, <1>6 DEF ShownFields
<1>12. EnteredInv' /\ ShownInv'
  BY <1>1, <1>10, <1>11 DEF EnteredInv, ShownInv
<1> QED
  BY <1>1, <1>12 DEF CallbackInv

\* The question is decoded behind the header that is shown already.
LEMMA QuestionStep ==
    ASSUME CallbackInv, DecodeQuestion \/ QuestionReturns \/ UNCHANGED vars
    PROVE  CallbackInv'
<1>1. CASE DecodeQuestion \/ UNCHANGED vars
  <2>1. UNCHANGED <<pc, delivered, packet, ipHeaderLength, headerPtr, shown>>
    BY <1>1 DEF DecodeQuestion, vars, locals
  <2> QED
    BY <2>1 DEF CallbackInv, EnteredInv, ShownInv, Decoded, ShownAsWhatItIs, ShownFields
<1>2. CASE QuestionReturns
  <2>1. pc = "question" /\ pc' = "loop" /\ UNCHANGED <<packet, headerPtr, shown>>
    BY <1>2 DEF QuestionReturns, locals
  <2> QED
    BY <2>1 DEF CallbackInv, EnteredInv, ShownInv, ShownAsWhatItIs, ShownFields
<1> QED
  BY <1>1, <1>2

LEMMA CallbackInvariant == Spec => []CallbackInv
<1>1. CallbackInv /\ [Next]_vars => CallbackInv'
  BY SniffStep, CallbackStep, UdpStep, DnsStep, TcpStep, QuestionStep DEF Next
<1> QED
  BY <1>1, CallbackInit, PTL DEF Spec

\* On IPv4 every packet is decoded as what it is, whatever came before it on
\* the stack (sniff.c:94-151, 213-247).
THEOREM PacketsAreDecoded == Spec => []DecodedAsWhatItIs
<1>1. CallbackInv => DecodedAsWhatItIs
  BY DEF CallbackInv, ShownInv, DecodedAsWhatItIs
<1> QED
  BY <1>1, CallbackInvariant, PTL

\* The fields shown of a header are the packet's, for every value of every
\* field (sniff.c:97-98, 144-152; tcp.c:120-147; dns.c:88-109).
THEOREM FieldsAreShown == Spec => []FieldsAreTheHeaders
<1>1. CallbackInv => FieldsAreTheHeaders
  BY DEF CallbackInv, ShownInv, FieldsAreTheHeaders
<1> QED
  BY <1>1, CallbackInvariant, PTL

\* callback() gives extractDnsQuestion() nothing but bytes, and lets it
\* return before it is called again.
LEMMA QuestionsAreBytes == Spec => QuestionSpec
<1>1. Init => QuestionInit
  BY DEF Init
<1>2. ASSUME CallbackInv, [Next]_vars
      PROVE  [QuestionNext]_questionVars
  <2>1. CASE processDNS
    <3>1. PICK behind \in Strays : ExtractDnsQuestion(From(headerPtr, 8 + 12) \o behind)
      BY <2>1 DEF processDNS
    <3>2. From(headerPtr, 8 + 12) \in Seq(0 .. 255) /\ behind \in Seq(0 .. 255)
      BY <1>2, FromIsSeq, PacketsAssumption DEF CallbackInv, Octets
    <3>3. From(headerPtr, 8 + 12) \o behind \in Seq(0 .. 255)
      BY <3>2
    <3> QED
      BY <3>1, <3>3 DEF QuestionNext
  <2>2. CASE DecodeQuestion
    BY <2>2 DEF DecodeQuestion, QuestionNext
  <2>3. CASE ~processDNS /\ ~DecodeQuestion
    BY <1>2, <2>3 DEF Next, pcap_lookupnet, pcap_open_live, pcap_compile, pcap_setfilter,
        Call, pcap_loop, LoopEnds, Callback, processUdpPacket, processTcpPacket,
        QuestionReturns, vars, questionVars
  <2> QED
    BY <2>1, <2>2, <2>3
<1> QED
  BY <1>1, <1>2, CallbackInvariant, PTL DEF Spec, QuestionSpec

\* No packet makes the name overflow its buffer (dns.c:138-169).
THEOREM NamesStayInBounds == Spec => []WritesInBounds
  BY QuestionsAreBytes, QueryNameInBounds, PTL

\* The name decoded of every question is its labels joined with dots, up to
\* the octet that ends it (dns.c:111-171).
THEOREM NamesAreDotted == Spec => []NameIsDotted
<1>1. DecodeInv => NameIsDotted
  BY SplitIsDotted
<1> QED
  BY <1>1, QuestionsAreBytes, DecodeInvariant, PTL

\* And the type and the class are those that follow the name, if it has
\* labels, no NUL in them, and a length of 16 bits (dns.c:187-197).
THEOREM TypeAndClassAreRead == Spec => []TypeAndClassRead
<1>1. DecodeInv => TypeAndClassRead
  BY DEF DecodeInv
<1> QED
  BY <1>1, QuestionsAreBytes, DecodeInvariant, PTL
=============================================================================
