------------------------- MODULE ProcessPacketProofs -------------------------
(***************************************************************************)
(* The counters of ProcessPacket agree with each other and with the log,   *)
(* and every section of every dump is printed in full, for every sequence  *)
(* of frames.                                                              *)
(***************************************************************************)
EXTENDS ProcessPacket, FiniteSetTheorems, TLAPS

-----------------------------------------------------------------------------
(* PrintData.                                                              *)

Lines == [hex : Seq(Nat), pad : Nat, text : Seq(Nat)]

\* A line that shows the bytes from..to-1, blank cells up to sixteen.
Shows(line, from, to) == line = Line(Bytes(from, to), Width - (to - from), Bytes(from, to))

AllFull(n) == \A l \in 1 .. n : Shows(lines[l], Width * (l - 1), Width * l)

\* Before the last byte: the ended lines are full, and the open one has the
\* bytes since.
OpenInv ==
    /\ i < Size \/ (i = 0 /\ Size <= 0)
    /\ \/ i = 0 /\ lines = <<>>
       \/ Width * Len(lines) < i /\ i <= Width * Len(lines) + Width
    /\ cells = Bytes(Width * Len(lines), i)
    /\ AllFull(Len(lines))

\* After it: nothing is open, and only the last line may be short.
ClosedInv ==
    /\ i = Size
    /\ cells = <<>>
    /\ Len(lines) >= 1
    /\ Width * (Len(lines) - 1) < i /\ i <= Width * Len(lines)
    /\ AllFull(Len(lines) - 1)
    /\ Shows(lines[Len(lines)], Width * (Len(lines) - 1), i)

DumpInv ==
    /\ Size \in Int /\ i \in Nat /\ lines \in Seq(Lines)
    /\ OpenInv \/ ClosedInv

LEMMA BytesFacts ==
    ASSUME NEW a \in Nat, NEW b \in Nat, a <= b
    PROVE  /\ Bytes(a, b) \in Seq(Nat)
           /\ Len(Bytes(a, b)) = b - a
           /\ Append(Bytes(a, b), b) = Bytes(a, b + 1)
           /\ <<b>> = Bytes(b, b + 1)
<1>1. Bytes(a, b) \in Seq(Nat) /\ Len(Bytes(a, b)) = b - a
  BY DEF Bytes
<1>2. Append(Bytes(a, b), b) = Bytes(a, b + 1)
  BY DEF Bytes
<1>3. <<b>> = Bytes(b, b + 1)
  BY DEF Bytes
<1> QED
  BY <1>1, <1>2, <1>3

LEMMA LineType ==
    ASSUME NEW a \in Nat, NEW b \in Nat, a <= b, b <= a + Width, NEW line,
           Shows(line, a, b)
    PROVE  line \in Lines
  BY BytesFacts DEF Shows, Line, Lines, Width

\* The column of byte k, when n full lines are before it.
LEMMA Column ==
    ASSUME NEW k \in Nat, NEW n \in Nat, Width * n <= k, k < Width * n + Width
    PROVE  k % Width = k - Width * n
  BY DEF Width

\* What a step has ended and what it has open once the text of the line
\* before is out of the way.
LEMMA SoFar ==
    ASSUME DumpInv, OpenInv, i < Size
    PROVE  /\ LinesSoFar \in Seq(Lines)
           /\ \A l \in 1 .. Len(LinesSoFar) :
                 Shows(LinesSoFar[l], Width * (l - 1), Width * l)
           /\ Width * Len(LinesSoFar) <= i /\ i < Width * Len(LinesSoFar) + Width
           /\ CellsSoFar = Bytes(Width * Len(LinesSoFar), i + 1)
<1> DEFINE n == Len(lines)
<1>1. n \in Nat /\ i \in Nat /\ Width = 16
  BY DEF DumpInv, Width
<1>2. CASE EndsFullLine
  <2>1. i = Width * n + Width
    BY <1>1, <1>2, SMTT(30) DEF EndsFullLine, OpenInv, Width
  <2>2. Len(Bytes(i - Width, i)) = Width /\ cells = Bytes(i - Width, i)
    <3>1. i - Width \in Nat /\ i - Width <= i /\ Width * n = i - Width
      BY <1>1, <2>1
    <3>2. Len(Bytes(i - Width, i)) = i - (i - Width)
      BY <1>1, <3>1, BytesFacts
    <3> QED
      BY <1>1, <3>1, <3>2 DEF OpenInv
  <2>3. Shows(Line(cells, 0, Bytes(i - Width, i)), Width * n, Width * (n + 1))
    BY <1>1, <2>1, <2>2 DEF Shows
  <2>4. Line(cells, 0, Bytes(i - Width, i)) \in Lines
    BY <1>1, <2>3, LineType
  <2>5. LinesSoFar = Append(lines, Line(cells, 0, Bytes(i - Width, i)))
    BY <1>2 DEF LinesSoFar
  <2>6. /\ LinesSoFar \in Seq(Lines) /\ Len(LinesSoFar) = n + 1
        /\ LinesSoFar[n + 1] = Line(cells, 0, Bytes(i - Width, i))
        /\ \A l \in 1 .. n : LinesSoFar[l] = lines[l]
    BY <2>4, <2>5 DEF DumpInv
  <2>7. CellsSoFar = Bytes(i, i + 1)
    BY <1>1, <1>2, BytesFacts DEF CellsSoFar
  <2> HIDE DEF n
  <2>8. ASSUME NEW l \in 1 .. n + 1
        PROVE  Shows(LinesSoFar[l], Width * (l - 1), Width * l)
    <3>1. CASE l = n + 1
      BY <1>1, <2>3, <2>6, <3>1
    <3>2. CASE l \in 1 .. n
      BY <2>6, <3>2 DEF OpenInv, AllFull, n
    <3> QED
      BY <1>1, <3>1, <3>2
  <2> QED
    BY <1>1, <2>1, <2>6, <2>7, <2>8
<1>3. CASE ~EndsFullLine
  <2>1. Width * n <= i /\ i < Width * n + Width
    BY <1>1, <1>3, SMTT(30) DEF EndsFullLine, OpenInv, Width
  <2>2. CellsSoFar = Bytes(Width * n, i + 1)
    <3>1. Width * n \in Nat
      BY <1>1
    <3>2. Append(Bytes(Width * n, i), i) = Bytes(Width * n, i + 1)
      BY <1>1, <2>1, <3>1, BytesFacts
    <3> QED
      BY <1>3, <3>2 DEF CellsSoFar, OpenInv
  <2> QED
    BY <1>1, <1>3, <2>1, <2>2 DEF LinesSoFar, OpenInv, AllFull, DumpInv
<1> QED
  BY <1>2, <1>3

\* A call that has printed nothing yet.
LEMMA FreshDump ==
    ASSUME Size \in Int, i = 0, cells = <<>>, lines = <<>>
    PROVE  DumpInv
<1>1. Bytes(0, 0) = <<>>
  BY DEF Bytes
<1>2. Len(lines) = 0 /\ Width * Len(lines) = 0
  BY DEF Width
<1>3. cells = Bytes(Width * Len(lines), i)
  BY <1>1, <1>2
<1>4. AllFull(Len(lines))
  BY <1>2 DEF AllFull
<1>5. i < Size \/ (i = 0 /\ Size <= 0)
  OBVIOUS
<1>6. OpenInv
  BY <1>3, <1>4, <1>5, Zenon DEF OpenInv
<1> QED
  BY <1>6 DEF DumpInv

LEMMA FreshCall ==
    ASSUME Size' \in Int, i' = 0, cells' = <<>>, lines' = <<>>
    PROVE  DumpInv'
<1>1. Bytes(0, 0) = <<>>
  BY DEF Bytes
<1>2. Len(lines') = 0 /\ Width * Len(lines') = 0
  BY DEF Width
<1>3. cells' = Bytes(Width * Len(lines'), i')
  BY <1>1, <1>2
<1>4. AllFull(Len(lines))'
  BY <1>2 DEF AllFull
<1>5. i' < Size' \/ (i' = 0 /\ Size' <= 0)
  OBVIOUS
<1>6. OpenInv'
  BY <1>3, <1>4, <1>5, Zenon DEF OpenInv
<1> QED
  BY <1>6 DEF DumpInv

LEMMA DumpInvStep ==
    ASSUME DumpInv, [DumpNext]_dumpVars
    PROVE  DumpInv'
<1>1. CASE PrintByte
  <2>1. OpenInv /\ i < Size
    BY <1>1 DEF PrintByte, DumpInv, OpenInv, ClosedInv
  <2>2. /\ lines' = LinesSoFar /\ cells' = CellsSoFar /\ i' = i + 1 /\ Size' = Size
        /\ i + 1 < Size /\ i \in Nat /\ Size \in Int
    BY <1>1 DEF PrintByte, DumpInv
  <2>3. lines' \in Seq(Lines) /\ AllFull(Len(lines))'
    BY <2>1, <2>2, SoFar DEF AllFull
  <2>4. OpenInv'
    BY <2>1, <2>2, <2>3, SoFar DEF OpenInv, Width
  <2> QED
    BY <2>2, <2>3, <2>4 DEF DumpInv
<1>2. CASE PrintLastByte
  <2>1. OpenInv /\ i < Size
    BY <1>2 DEF PrintLastByte, DumpInv, OpenInv, ClosedInv
  <2> DEFINE n == Len(LinesSoFar)
             last == Line(CellsSoFar, Width - 1 - (i % Width),
                          Bytes(i - (i % Width), i + 1))
  <2>2. /\ lines' = Append(LinesSoFar, last) /\ cells' = <<>> /\ i' = i + 1
        /\ Size' = Size /\ i + 1 = Size /\ i \in Nat /\ Size \in Int
    BY <1>2 DEF PrintLastByte, DumpInv
  <2>3. /\ n \in Nat /\ LinesSoFar \in Seq(Lines)
        /\ Width * n <= i /\ i < Width * n + Width
        /\ CellsSoFar = Bytes(Width * n, i + 1)
        /\ \A l \in 1 .. n : Shows(LinesSoFar[l], Width * (l - 1), Width * l)
    BY <2>1, SoFar
  <2> HIDE DEF n
  <2>4. i % Width = i - Width * n
    BY <2>2, <2>3, Column
  <2>5. Shows(last, Width * n, i + 1)
    <3>1. i - (i % Width) = Width * n
      BY <2>2, <2>3, <2>4 DEF Width
    <3>2. Width - 1 - (i % Width) = Width - ((i + 1) - Width * n)
      BY <2>2, <2>3, <2>4 DEF Width
    <3> QED
      BY <2>3, <3>1, <3>2, Zenon DEF Shows
  <2>6. last \in Lines
    BY <2>2, <2>3, <2>5, LineType DEF Width
  <2> HIDE DEF last
  <2>7. /\ lines' \in Seq(Lines) /\ Len(lines') = n + 1
        /\ lines'[n + 1] = last
        /\ \A l \in 1 .. n : lines'[l] = LinesSoFar[l]
    BY <2>2, <2>3, <2>6 DEF n
  <2>8. \A l \in 1 .. n : Shows(lines'[l], Width * (l - 1), Width * l)
    BY <2>3, <2>7
  <2>9. Width * ((n + 1) - 1) = Width * n /\ (n + 1) - 1 = n
    BY <2>3 DEF Width
  <2>10. ClosedInv'
    <3>1. i' = Size' /\ cells' = <<>> /\ Len(lines)' >= 1
      BY <2>2, <2>3, <2>7
    <3>2. Width * (Len(lines)' - 1) < i' /\ i' <= Width * Len(lines)'
      BY <2>2, <2>3, <2>7 DEF Width
    <3>3. AllFull(Len(lines) - 1)'
      BY <2>7, <2>8, <2>9 DEF AllFull
    <3>4. Shows(lines[Len(lines)], Width * (Len(lines) - 1), i)'
      BY <2>2, <2>5, <2>7, <2>9 DEF Shows
    <3> QED
      BY <3>1, <3>2, <3>3, <3>4 DEF ClosedInv
  <2> QED
    BY <2>2, <2>7, <2>10 DEF DumpInv
<1>3. CASE \E m \in Int : PrintCall(m)
  <2>1. Size' \in Int /\ i' = 0 /\ cells' = <<>> /\ lines' = <<>>
    BY <1>3 DEF PrintCall
  <2> QED
    BY <2>1, FreshCall
<1>4. CASE UNCHANGED dumpVars
  BY <1>4 DEF dumpVars, DumpInv, OpenInv, ClosedInv, AllFull
<1> QED
  BY <1>1, <1>2, <1>3, <1>4 DEF DumpNext

\* The dump shows every byte once, in its line, with its text in the same
\* column, for every Size (PrintData, source-af-packet.c:364-404).
THEOREM DumpIsComplete == DumpSpec => [](TextMatchesHex /\ EveryByteOnce)
<1>1. DumpInit => DumpInv
  BY FreshDump DEF DumpInit
<1>2. DumpInv /\ [DumpNext]_dumpVars => DumpInv'
  BY DumpInvStep
<1>3. ASSUME DumpInv
      PROVE  TextMatchesHex /\ EveryByteOnce
  <2> DEFINE n == Len(lines)
             End(l) == IF Width * l <= i THEN Width * l ELSE i
  <2>1. n \in Nat /\ i \in Nat /\ DOMAIN lines = 1 .. n
    BY <1>3 DEF DumpInv
  <2> HIDE DEF n
  <2>2. ASSUME NEW l \in 1 .. n
        PROVE  /\ Shows(lines[l], Width * (l - 1), End(l))
               /\ Width * (l - 1) \in Nat /\ End(l) \in Nat
               /\ Width * (l - 1) <= End(l) /\ End(l) <= Width * (l - 1) + Width
    <3>1. CASE OpenInv
      <4>1. Width * l <= i
        BY <2>1, <3>1 DEF OpenInv, Width, n
      <4> QED
        BY <2>1, <3>1, <4>1 DEF OpenInv, AllFull, Width, n
    <3>2. CASE ClosedInv
      <4>1. CASE l = n
        BY <2>1, <3>2, <4>1 DEF ClosedInv, Width, n
      <4>2. CASE l \in 1 .. n - 1
        <5>1. Width * l <= i
          BY <2>1, <3>2, <4>2 DEF ClosedInv, Width, n
        <5> QED
          BY <2>1, <3>2, <4>2, <5>1 DEF ClosedInv, AllFull, Width, n
      <4> QED
        BY <2>1, <4>1, <4>2
    <3> QED
      BY <1>3, <3>1, <3>2 DEF DumpInv
  <2>3. TextMatchesHex
    <3> SUFFICES ASSUME NEW l \in 1 .. n
                 PROVE  /\ lines[l].text = lines[l].hex
                        /\ Len(lines[l].hex) + lines[l].pad = Width
      BY <2>1 DEF TextMatchesHex
    <3>1. Len(Bytes(Width * (l - 1), End(l))) = End(l) - Width * (l - 1)
      BY <2>2, BytesFacts
    <3> QED
      BY <2>1, <2>2, <3>1 DEF Shows, Line, Width
  <2>4. \A l \in DOMAIN lines : lines[l].hex = Bytes(Width * (l - 1), End(l))
    BY <2>1, <2>2 DEF Shows, Line
  <2>5. i >= Size => cells = <<>> /\ Width * n \in i .. i + Width - 1
    BY <1>3, <2>1 DEF DumpInv, OpenInv, ClosedInv, Width, n, Bytes
  <2> QED
    BY <2>3, <2>4, <2>5 DEF EveryByteOnce, n
<1> QED
  BY <1>1, <1>2, <1>3, PTL DEF DumpSpec
-----------------------------------------------------------------------------
(* ProcessPacket.                                                          *)

CallsInv ==
    /\ seen \in Seq(Frames)
    /\ calls \in Seq(Sections)
    /\ calling \in BOOLEAN
    /\ calling => calls # <<>>
    /\ logfile \in Seq(Sections)

CountsInv ==
    /\ total \in Nat /\ icmp \in Nat /\ igmp \in Nat
    /\ tcp \in Nat /\ udp \in Nat /\ others \in Nat
    /\ CountersAgree

\* The three sections of seen[j] are in the log or on their way to it.
SectionsLogged(j) ==
    \A n \in 1 .. 3 :
        /\ Place(j, n) \in 1 .. Len(logfile \o calls)
        /\ (logfile \o calls)[Place(j, n)]
              = print_tcp_packet(seen[j], FrameLength(seen[j]))[n]

\* Those of every frame counted as TCP are, and no other is counted.
LogInv ==
    /\ tcp = Cardinality(TcpUpTo(Len(seen)))
    /\ \A j \in DOMAIN seen : seen[j].byte9 = TCP => SectionsLogged(j)

LEMMA LengthsAreIntegers ==
    ASSUME NEW f \in Frames
    PROVE  /\ f.ihl \in 0 .. 15 /\ f.doff \in 0 .. 15 /\ f.pad \in Nat
           /\ TcpDataStart(f) = EthernetLength + 4 * f.ihl + 4 * f.doff
           /\ TcpDataStart(f) \in Int /\ PacketEnd(f) \in Int
           /\ FrameLength(f) = PacketEnd(f) + f.pad /\ FrameLength(f) \in Int
<1>1. /\ f.ihl \in 0 .. 15 /\ f.doff \in 0 .. 15 /\ f.data \in Int /\ f.pad \in Nat
  BY FramesAssumption
<1>2. /\ TcpDataStart(f) = EthernetLength + 4 * f.ihl + 4 * f.doff
      /\ TcpDataStart(f) \in Int /\ UdpDataStart(f) \in Int
  BY <1>1 DEF TcpDataStart, UdpDataStart, TransportStart, EthernetLength
<1>3. PacketEnd(f) \in Int
  BY <1>1, <1>2 DEF PacketEnd
<1> QED
  BY <1>1, <1>2, <1>3 DEF FrameLength

LEMMA ThreeSections ==
    ASSUME NEW f \in Frames
    PROVE  /\ print_tcp_packet(f, FrameLength(f)) \in Seq(Sections)
           /\ Len(print_tcp_packet(f, FrameLength(f))) = 3
<1>1. f.ihl \in 0 .. 15 /\ f.doff \in 0 .. 15 /\ FrameLength(f) \in Int
  BY LengthsAreIntegers
<1> QED
  BY <1>1 DEF print_tcp_packet, Section, Sections, EthernetLength

LEMMA NothingYet == Init => CallsInv /\ CountsInv
<1> SUFFICES ASSUME Init
             PROVE  CallsInv /\ CountsInv
  OBVIOUS
<1>1. <<>> \in Seq(Frames) /\ <<>> \in Seq(Sections) /\ Len(<<>>) = 0
  OBVIOUS
<1>2. /\ seen = <<>> /\ calls = <<>> /\ logfile = <<>> /\ calling = FALSE
      /\ total = 0 /\ icmp = 0 /\ igmp = 0 /\ tcp = 0 /\ udp = 0 /\ others = 0
  BY DEF Init
<1>3. CallsInv
  BY <1>1, <1>2, Zenon DEF CallsInv
<1>4. CountsInv
  BY <1>2 DEF CountsInv, CountersAgree
<1> QED
  BY <1>3, <1>4

LEMMA FiniteTcpUpTo ==
    ASSUME NEW j \in Nat
    PROVE  IsFiniteSet(TcpUpTo(j)) /\ Cardinality(TcpUpTo(j)) \in Nat
<1>1. TcpUpTo(j) \in SUBSET (1 .. j)
  BY DEF TcpUpTo
<1>2. IsFiniteSet(1 .. j)
  BY FS_Interval
<1>3. IsFiniteSet(TcpUpTo(j))
  BY <1>1, <1>2, FS_Subset
<1> QED
  BY <1>3, FS_CardinalityType

LEMMA EmptyLog == Init => LogInv
<1> SUFFICES ASSUME Init
             PROVE  LogInv
  OBVIOUS
<1>1. seen = <<>> /\ tcp = 0
  BY DEF Init
<1>2. Len(seen) = 0 /\ DOMAIN seen = {}
  BY <1>1
<1>3. TcpUpTo(Len(seen)) = {}
  BY <1>2 DEF TcpUpTo
<1> QED
  BY <1>1, <1>2, <1>3, FS_EmptySet DEF LogInv

LEMMA CallsStep ==
    ASSUME CallsInv, [Next]_vars
    PROVE  CallsInv'
<1> USE DEF CallsInv
<1>1. ASSUME NEW f \in Frames, Process(f)
      PROVE  CallsInv'
  <2>1. calls' \in Seq(Sections)
    BY <1>1, ThreeSections DEF Process
  <2> QED
    BY <1>1, <2>1 DEF Process
<1>2. CASE CallPrintData
  BY <1>2 DEF CallPrintData
<1>3. CASE PrintDataRuns
  BY <1>3 DEF PrintDataRuns, callVars
<1>4. CASE PrintDataReturns
  <2>1. calls # <<>> /\ Head(calls) \in Sections /\ Tail(calls) \in Seq(Sections)
    BY <1>4 DEF PrintDataReturns
  <2>2. logfile' \in Seq(Sections) /\ calls' \in Seq(Sections)
    BY <1>4, <2>1 DEF PrintDataReturns
  <2> QED
    BY <1>4, <2>2 DEF PrintDataReturns
<1>5. CASE UNCHANGED vars
  BY <1>5 DEF vars
<1> QED
  BY <1>1, <1>2, <1>3, <1>4, <1>5 DEF Next

\* A packet adds one to the total and to exactly one of the others.
LEMMA OneCounter ==
    ASSUME NEW f \in Frames, Process(f), CountsInv, CallsInv
    PROVE  CountsInv'
<1>1. f.byte9 \in 0 .. 255
  BY FramesAssumption
<1>2. /\ total' = total + 1 /\ Len(seen') = Len(seen) + 1 /\ Len(seen) \in Nat
      /\ logfile' = logfile /\ calls = <<>>
  BY DEF Process, CallsInv
<1>3. Len(calls') = (IF f.byte9 = TCP THEN 3 ELSE 0)
  BY ThreeSections DEF Process
<1>4. /\ icmp' = icmp + (IF f.byte9 = 1 THEN 1 ELSE 0)
      /\ igmp' = igmp + (IF f.byte9 = 2 THEN 1 ELSE 0)
      /\ tcp' = tcp + (IF f.byte9 = 6 THEN 1 ELSE 0)
      /\ udp' = udp + (IF f.byte9 = 17 THEN 1 ELSE 0)
      /\ others' = others + (IF f.byte9 \in {1, 2, 6, 17} THEN 0 ELSE 1)
  BY <1>1 DEF Process, Count, ICMP, IGMP, TCP, UDP
<1>5. 3 * tcp = Len(logfile)
  BY <1>2 DEF CountsInv, CountersAgree, CallsInv
<1>6. Len(logfile) \in Nat
  BY DEF CallsInv
<1>7. 3 * tcp' = Len(logfile') + Len(calls')
  BY <1>2, <1>3, <1>4, <1>5, <1>6 DEF CountsInv, TCP
<1>8. /\ total \in Nat /\ icmp \in Nat /\ igmp \in Nat
      /\ tcp \in Nat /\ udp \in Nat /\ others \in Nat
      /\ total = Len(seen) /\ total = icmp + igmp + tcp + udp + others
  BY DEF CountsInv, CountersAgree
<1>9. /\ total' \in Nat /\ icmp' \in Nat /\ igmp' \in Nat
      /\ tcp' \in Nat /\ udp' \in Nat /\ others' \in Nat
  BY <1>2, <1>4, <1>8
<1>10. total' = icmp' + igmp' + tcp' + udp' + others'
  <2>1. CASE f.byte9 \in {1, 2, 6, 17}
    BY <1>2, <1>4, <1>8, <2>1
  <2>2. CASE f.byte9 \notin {1, 2, 6, 17}
    BY <1>2, <1>4, <1>8, <2>2
  <2> QED
    BY <2>1, <2>2
<1>11. total' = Len(seen')
  BY <1>2, <1>8
<1> QED
  BY <1>7, <1>9, <1>10, <1>11 DEF CountsInv, CountersAgree

LEMMA CountsStep ==
    ASSUME CallsInv, CountsInv, [Next]_vars
    PROVE  CountsInv'
<1>1. ASSUME NEW f \in Frames, Process(f)
      PROVE  CountsInv'
  BY <1>1, OneCounter
<1>2. CASE CallPrintData
  BY <1>2 DEF CallPrintData, counters, CountsInv, CountersAgree
<1>3. CASE PrintDataRuns
  BY <1>3 DEF PrintDataRuns, counters, callVars, CountsInv, CountersAgree
<1>4. CASE PrintDataReturns
  <2>1. /\ Len(logfile') = Len(logfile) + 1 /\ Len(calls') = Len(calls) - 1
        /\ Len(logfile) \in Nat /\ Len(calls) \in Nat
    BY <1>4 DEF PrintDataReturns, CallsInv
  <2>2. Len(logfile') + Len(calls') = Len(logfile) + Len(calls)
    BY <2>1
  <2> QED
    BY <1>4, <2>2 DEF PrintDataReturns, counters, CountsInv, CountersAgree
<1>5. CASE UNCHANGED vars
  BY <1>5 DEF vars, CountsInv, CountersAgree
<1> QED
  BY <1>1, <1>2, <1>3, <1>4, <1>5 DEF Next

\* A step of ProcessPacket is a call, a step or a pause of PrintData.
LEMMA StepIsDumpStep ==
    ASSUME CallsInv, [Next]_vars
    PROVE  [DumpNext]_dumpVars
<1>1. ASSUME NEW f \in Frames, Process(f)
      PROVE  UNCHANGED dumpVars
  BY <1>1 DEF Process
<1>2. CASE CallPrintData
  <2>1. Head(calls) \in Sections
    BY <1>2 DEF CallPrintData, CallsInv
  <2>2. Head(calls).size \in Int
    BY <2>1 DEF Sections
  <2> QED
    BY <1>2, <2>2 DEF CallPrintData, DumpNext
<1>3. CASE PrintDataRuns
  BY <1>3 DEF PrintDataRuns, DumpNext
<1>4. CASE PrintDataReturns
  BY <1>4 DEF PrintDataReturns
<1>5. CASE UNCHANGED vars
  BY <1>5 DEF vars, dumpVars
<1> QED
  BY <1>1, <1>2, <1>3, <1>4, <1>5 DEF Next

\* A step keeps what the log has, and what it will have, of earlier frames.
LEMMA LogStep ==
    ASSUME CallsInv, CountsInv, LogInv, [Next]_vars
    PROVE  LogInv'
<1> DEFINE log == logfile \o calls
           N == Len(seen)
<1>1. /\ seen \in Seq(Frames) /\ N \in Nat /\ log \in Seq(Sections)
      /\ Len(log) = Len(logfile) + Len(calls) /\ Len(log) \in Nat
  BY DEF CallsInv
<1>2. ASSUME NEW f \in Frames, Process(f)
      PROVE  LogInv'
  <2> DEFINE three == print_tcp_packet(f, FrameLength(f))
             tcpNow == {m \in 1 .. N + 1 : seen'[m].byte9 = TCP}
  <2>1. /\ seen' = Append(seen, f) /\ logfile' = logfile /\ calls = <<>>
        /\ calls' = IF f.byte9 = TCP THEN three ELSE <<>>
        /\ tcp' = tcp + (IF f.byte9 = TCP THEN 1 ELSE 0)
    BY <1>2 DEF Process, Count
  <2>2. three \in Seq(Sections) /\ Len(three) = 3
    BY ThreeSections
  <2> HIDE DEF three
  <2>3. /\ Len(seen') = N + 1 /\ DOMAIN seen' = 1 .. N + 1 /\ seen'[N + 1] = f
        /\ \A j \in 1 .. N : seen'[j] = seen[j]
    BY <1>1, <2>1
  <2>4. \A j \in 1 .. N : TcpUpTo(j)' = TcpUpTo(j)
    BY <2>3 DEF TcpUpTo
  <2>5. tcpNow = TcpUpTo(N) \cup (IF f.byte9 = TCP THEN {N + 1} ELSE {})
    <3>1. \A m \in 1 .. N : seen'[m].byte9 = seen[m].byte9
      BY <2>3
    <3>2. 1 .. N + 1 = 1 .. N \cup {N + 1}
      BY <1>1
    <3> HIDE DEF N
    <3>3. CASE f.byte9 = TCP
      BY <2>3, <3>1, <3>2, <3>3 DEF TcpUpTo
    <3>4. CASE f.byte9 # TCP
      BY <2>3, <3>1, <3>2, <3>4 DEF TcpUpTo
    <3> QED
      BY <3>3, <3>4
  <2>6. N + 1 \notin TcpUpTo(N) /\ IsFiniteSet(TcpUpTo(N))
    BY <1>1, FiniteTcpUpTo DEF TcpUpTo
  <2>7. tcp' = Cardinality(tcpNow)
    <3>1. tcp = Cardinality(TcpUpTo(N))
      BY DEF LogInv
    <3>2. CASE f.byte9 = TCP
      BY <2>1, <2>5, <2>6, <3>1, <3>2, FS_AddElement
    <3>3. CASE f.byte9 # TCP
      <4>1. tcpNow = TcpUpTo(N) /\ tcp' = tcp
        <5>1. TcpUpTo(N) \cup {} = TcpUpTo(N) /\ tcp + 0 = tcp
          BY DEF CountsInv
        <5> HIDE DEF N
        <5> QED
          BY <2>1, <2>5, <3>3, <5>1
      <4> QED
        BY <3>1, <4>1
    <3> QED
      BY <3>2, <3>3
  <2>8. /\ log' \in Seq(Sections) /\ Len(log') = Len(log) + Len(calls')
        /\ \A k \in 1 .. Len(log) : log'[k] = log[k]
        /\ \A n \in 1 .. Len(calls') : log'[Len(log) + n] = calls'[n]
    <3>1. log = logfile /\ log' = logfile \o calls' /\ calls' \in Seq(Sections)
          /\ logfile \in Seq(Sections)
      BY <2>1, <2>2 DEF CallsInv
    <3> HIDE DEF log
    <3> QED
      BY <3>1
  <2> HIDE DEF log, N
  <2>9. ASSUME NEW j \in 1 .. N + 1, seen'[j].byte9 = TCP
        PROVE  SectionsLogged(j)'
    <3>1. CASE j \in 1 .. N
      <4>1. SectionsLogged(j) /\ seen'[j] = seen[j] /\ TcpUpTo(j)' = TcpUpTo(j)
        BY <1>1, <2>3, <2>4, <2>9, <3>1 DEF LogInv, N
      <4>2. \A n \in 1 .. 3 : Place(j, n)' = Place(j, n)
        BY <4>1 DEF Place
      <4>3. ASSUME NEW n \in 1 .. 3
            PROVE  /\ Place(j, n)' \in 1 .. Len(log')
                   /\ log'[Place(j, n)'] =
                        print_tcp_packet(seen'[j], FrameLength(seen'[j]))[n]
        <5>1. /\ Place(j, n) \in 1 .. Len(log)
              /\ log[Place(j, n)] = print_tcp_packet(seen[j], FrameLength(seen[j]))[n]
          BY <4>1 DEF SectionsLogged, log
        <5>2. Len(log) \in Nat /\ Len(log') \in Nat /\ Len(log) <= Len(log')
          BY <1>1, <2>1, <2>2, <2>8 DEF log
        <5>3. log'[Place(j, n)] = log[Place(j, n)] /\ Place(j, n) \in 1 .. Len(log')
          BY <2>8, <5>1, <5>2
        <5> QED
          BY <4>1, <4>2, <5>1, <5>3
      <4> QED
        BY <4>3 DEF SectionsLogged, log
    <3>2. CASE j = N + 1
      <4>1. f.byte9 = TCP /\ seen'[j] = f /\ Len(calls') = 3 /\ calls' = three
        BY <2>1, <2>2, <2>3, <2>9, <3>2
      <4>2. Cardinality(TcpUpTo(j)') - 1 = tcp /\ tcp \in Nat
        <5>1. tcp' = tcp + 1 /\ tcp \in Nat
          BY <2>1, <4>1 DEF CountsInv
        <5> QED
          BY <2>7, <3>2, <5>1 DEF TcpUpTo
      <4>3. 3 * tcp = Len(log)
        BY <1>1 DEF CountsInv, CountersAgree, log
      <4>4. ASSUME NEW n \in 1 .. 3
            PROVE  Place(j, n)' = Len(log) + n
        <5>1. Place(j, n)' = 3 * (Cardinality(TcpUpTo(j)') - 1) + n
          BY DEF Place
        <5> QED
          BY <4>2, <4>3, <5>1
      <4>5. Len(log') = Len(log) + 3
        BY <2>8, <4>1
      <4>6. ASSUME NEW n \in 1 .. 3
            PROVE  log'[Place(j, n)'] = three[n]
        BY <2>8, <4>1, <4>4
      <4>7. /\ \A n \in 1 .. 3 : Place(j, n)' \in 1 .. Len(log')
            /\ \A n \in 1 .. 3 :
                  log'[Place(j, n)'] = print_tcp_packet(seen'[j], FrameLength(seen'[j]))[n]
        <5>1. \A n \in 1 .. 3 : Place(j, n)' \in 1 .. Len(log')
          BY <1>1, <4>4, <4>5
        <5>2. three = print_tcp_packet(seen'[j], FrameLength(seen'[j]))
          BY <4>1 DEF three
        <5> QED
          BY <4>6, <5>1, <5>2, Zenon
      <4> QED
        BY <4>7 DEF SectionsLogged, log
    <3> QED
      BY <1>1, <3>1, <3>2 DEF N
  <2>10. tcp' = Cardinality(TcpUpTo(Len(seen))')
    BY <2>3, <2>7 DEF TcpUpTo
  <2>11. \A j \in DOMAIN seen' : seen'[j].byte9 = TCP => SectionsLogged(j)'
    BY <2>3, <2>9
  <2> QED
    BY <2>10, <2>11 DEF LogInv
<1>3. CASE UNCHANGED <<seen, tcp, log>>
  <2>1. \A j : SectionsLogged(j)' <=> SectionsLogged(j)
    BY <1>3 DEF SectionsLogged, Place, TcpUpTo
  <2>2. TcpUpTo(Len(seen))' = TcpUpTo(Len(seen))
    BY <1>3 DEF TcpUpTo
  <2> QED
    BY <1>3, <2>1, <2>2 DEF LogInv
<1>4. CASE CallPrintData \/ PrintDataRuns \/ UNCHANGED vars
  BY <1>3, <1>4 DEF CallPrintData, PrintDataRuns, vars, counters, callVars
<1>5. CASE PrintDataReturns
  <2>1. calls # <<>> /\ calls \in Seq(Sections) /\ logfile \in Seq(Sections)
    BY <1>5 DEF PrintDataReturns, CallsInv
  <2>2. Append(logfile, Head(calls)) \o Tail(calls) = logfile \o calls
    BY <2>1
  <2> QED
    BY <1>3, <1>5, <2>2 DEF PrintDataReturns, counters
<1> QED
  BY <1>2, <1>4, <1>5 DEF Next

PacketInv == CallsInv /\ CountsInv /\ LogInv

LEMMA PacketInvariant == Spec => []PacketInv
<1>1. Init => PacketInv
  BY NothingYet, EmptyLog DEF PacketInv
<1>2. PacketInv /\ [Next]_vars => PacketInv'
  BY CallsStep, CountsStep, LogStep DEF PacketInv
<1> QED
  BY <1>1, <1>2, PTL DEF Spec

\* Every frame is counted under exactly one protocol, and the log gets three
\* sections for each frame counted as TCP (source-af-packet.c:153-178).
THEOREM CountersAlwaysAgree == Spec => []CountersAgree
<1>1. PacketInv => CountersAgree
  BY DEF PacketInv, CountsInv
<1> QED
  BY <1>1, PacketInvariant, PTL

\* The payload section of every TCP segment on IPv4 begins behind the options
\* of both headers, has all the data that the total length announces, and no
\* byte from behind the frame, whatever frames come between
\* (source-af-packet.c:230-235, 269-270).
THEOREM SegmentsAreDumped == Spec => []SegmentIsDumped
<1>1. ASSUME PacketInv
      PROVE  SegmentIsDumped
  <2> SUFFICES ASSUME NEW j \in DOMAIN seen, IsIPv4(seen[j], TCP),
                      Place(j, 3) \in DOMAIN logfile
               PROVE  LET section == logfile[Place(j, 3)]
                      IN  /\ section.title = "Data Payload"
                          /\ section.from = TcpDataStart(seen[j])
                          /\ PacketEnd(seen[j]) <= section.from + section.size
                          /\ section.from + section.size <= FrameLength(seen[j])
    BY DEF SegmentIsDumped
  <2> DEFINE f == seen[j]
  <2>1. f \in Frames /\ SectionsLogged(j) /\ logfile \in Seq(Sections) /\ calls \in Seq(Sections)
    BY <1>1 DEF PacketInv, CallsInv, LogInv, IsIPv4
  <2>2. (logfile \o calls)[Place(j, 3)] = logfile[Place(j, 3)]
    BY <2>1
  <2>3. logfile[Place(j, 3)] = print_tcp_packet(f, FrameLength(f))[3]
    BY <2>1, <2>2 DEF SectionsLogged
  <2>4. /\ TcpDataStart(f) = EthernetLength + 4 * f.ihl + 4 * f.doff
        /\ TcpDataStart(f) \in Int /\ PacketEnd(f) \in Int /\ f.pad \in Nat
        /\ FrameLength(f) = PacketEnd(f) + f.pad
    BY <2>1, LengthsAreIntegers
  <2>5. print_tcp_packet(f, FrameLength(f))[3] =
           Section("Data Payload", TcpDataStart(f), FrameLength(f) - TcpDataStart(f))
    BY <2>4 DEF print_tcp_packet
  <2>6. logfile[Place(j, 3)] =
           Section("Data Payload", TcpDataStart(f), FrameLength(f) - TcpDataStart(f))
    BY <2>3, <2>5
  <2> HIDE DEF f
  <2>7. /\ PacketEnd(f) <= TcpDataStart(f) + (FrameLength(f) - TcpDataStart(f))
        /\ TcpDataStart(f) + (FrameLength(f) - TcpDataStart(f)) <= FrameLength(f)
    BY <2>4
  <2> DEFINE name == "Data Payload"
  <2>8. logfile[Place(j, 3)] = Section(name, TcpDataStart(f), FrameLength(f) - TcpDataStart(f))
    BY <2>6
  <2> HIDE DEF name
  <2>9. /\ logfile[Place(j, 3)].title = name
        /\ logfile[Place(j, 3)].from = TcpDataStart(f)
        /\ logfile[Place(j, 3)].size = FrameLength(f) - TcpDataStart(f)
    BY <2>8 DEF Section
  <2> QED
    BY <2>7, <2>9, Zenon DEF f, name
<1> QED
  BY <1>1, PacketInvariant, PTL

\* A frame that fits into its slot is dumped from its slot alone, with all
\* three sections, whatever was dumped before (source-af-packet.c:263-270).
THEOREM DumpStaysInSlot == Spec => []DumpInSlot
<1>1. ASSUME PacketInv
      PROVE  DumpInSlot
  <2> SUFFICES ASSUME NEW j \in DOMAIN seen, NEW n \in 1 .. 3, seen[j].byte9 = TCP,
                      FrameLength(seen[j]) <= SlotSpace
               PROVE  LET section == (logfile \o calls)[Place(j, n)]
                      IN  section.size > 0 => section.from + section.size <= SlotSpace
    BY DEF DumpInSlot
  <2> DEFINE f == seen[j]
             section == print_tcp_packet(f, FrameLength(f))[n]
  <2>1. f \in Frames /\ (logfile \o calls)[Place(j, n)] = section
    BY <1>1 DEF PacketInv, CallsInv, LogInv, SectionsLogged
  <2>2. /\ f.ihl \in 0 .. 15 /\ f.doff \in 0 .. 15 /\ FrameLength(f) \in Int
        /\ SlotSpace \in Nat /\ SlotSpace >= 120 /\ FrameLength(f) <= SlotSpace
    BY <2>1, FramesAssumption, LengthsAreIntegers DEF LongestHeaders
  <2>3. section.from + section.size <= SlotSpace
    <3>1. CASE n = 1
      <4>1. section.from = 0 /\ section.size = 4 * f.ihl
        BY <3>1 DEF print_tcp_packet, Section
      <4> QED
        BY <2>2, <4>1
    <3>2. CASE n = 2
      <4>1. section.from = 4 * f.ihl /\ section.size = 4 * f.doff
        BY <3>2 DEF print_tcp_packet, Section
      <4> QED
        BY <2>2, <4>1
    <3>3. CASE n = 3
      <4> DEFINE header_size == EthernetLength + 4 * f.ihl + 4 * f.doff
      <4>1. section.from = header_size /\ section.size = FrameLength(f) - header_size
        BY <3>3 DEF print_tcp_packet, Section
      <4>2. header_size \in Int
        BY <2>2 DEF EthernetLength
      <4> HIDE DEF header_size
      <4> QED
        BY <2>2, <4>1, <4>2
    <3> HIDE DEF section
    <3> QED
      BY <3>1, <3>2, <3>3
  <2> QED
    BY <2>1, <2>3
<1> QED
  BY <1>1, PacketInvariant, PTL

LEMMA DumpRunsInside == Spec => DumpSpec
<1>1. Init => DumpInit
  BY DEF Init
<1>2. PacketInv /\ [Next]_vars => [DumpNext]_dumpVars
  BY StepIsDumpStep DEF PacketInv
<1> QED
  BY <1>1, <1>2, PacketInvariant, PTL DEF Spec, DumpSpec

\* Whatever was dumped before, every section is printed byte for byte, in
\* its lines (source-af-packet.c:263-270, 364-404).
THEOREM SectionsArePrinted == Spec => []EveryByteOnce
  BY DumpRunsInside, DumpIsComplete, PTL

\* And every line of it shows its text in the same column as the others
\* (source-af-packet.c:366-403).
THEOREM SectionsAreAligned == Spec => []TextMatchesHex
  BY DumpRunsInside, DumpIsComplete, PTL
=============================================================================
