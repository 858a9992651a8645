------------------------------ MODULE PrintData ------------------------------
(***************************************************************************)
(* PrintData: the dump that ProcessPacket writes for a TCP packet, sixteen *)
(* bytes a line, first as hex cells and then as text.  The text of a line  *)
(* is written by the iteration of the byte AFTER it, or, for the last      *)
(* line, by the iteration of the last byte, behind as many blank cells as  *)
(* the line is short of sixteen.                                           *)
(*                                                                         *)
(* A byte is represented by its offset in `data`; a printed line by the    *)
(* bytes of its hex cells, its blank cells and the bytes of its text.      *)
(***************************************************************************)
EXTENDS Integers, Sequences

VARIABLES
    Size,       \* the parameter: negative if the packet is too short
    i,          \* the byte printed next
    cells,      \* the hex cells on the line that is not ended
    lines       \* the ended lines

dumpVars == <<Size, i, cells, lines>>

Width == 16

\* The offsets from..to-1.
Bytes(from, to) == [k \in 1 .. to - from |-> from + k - 1]

Line(hex, pad, text) == [hex |-> hex, pad |-> pad, text |-> text]

DumpInit == Size = 0 /\ i = 0 /\ cells = <<>> /\ lines = <<>>

\* PrintData is called for n bytes, after it returned from an earlier call.
PrintCall(n) ==
    /\ i >= Size
    /\ Size' = n
    /\ i' = 0
    /\ cells' = <<>>
    /\ lines' = <<>>

\* The text of the line before, if byte i begins a line other than the first.
EndsFullLineAtZero == i % Width = 0     \* seeded bug: also before the first byte
EndsFullLine == i # 0 /\ i % Width = 0

\* Seeded bug: the text of a full line is one byte short.
LinesSoFarShort ==
    IF EndsFullLine
    THEN Append(lines, Line(cells, 0, Bytes(i - Width + 1, i))) ELSE lines
LinesSoFar ==
    IF EndsFullLine THEN Append(lines, Line(cells, 0, Bytes(i - Width, i))) ELSE lines
CellsSoFar == IF EndsFullLine THEN <<i>> ELSE Append(cells, i)

PrintByte ==
    /\ i < Size - 1
    /\ lines' = LinesSoFar
    /\ cells' = CellsSoFar
    /\ i' = i + 1
    /\ UNCHANGED Size

PrintLastByte ==
    /\ i = Size - 1
    /\ lines' = Append(LinesSoFar,
                       Line(CellsSoFar, Width - 1 - (i % Width),
                            Bytes(i - (i % Width), i + 1)))
    /\ cells' = <<>>
    /\ i' = i + 1
    /\ UNCHANGED Size

DumpNext ==
    \/ \E n \in Int : PrintCall(n)
    \/ PrintByte
    \/ PrintLastByte

DumpSpec == DumpInit /\ [][DumpNext]_dumpVars
-----------------------------------------------------------------------------
(* Properties.                                                             *)

\* Type correctness: no line is padded by a negative number of cells
\* (source-af-packet.c:384).
DumpTypeOK ==
    /\ Size \in Int
    /\ i \in Nat
    /\ cells \in Seq(Nat)
    /\ lines \in Seq([hex : Seq(Nat), pad : Nat, text : Seq(Nat)])

\* The text of every line shows the bytes of its hex cells, and begins in
\* the same column (PrintData, source-af-packet.c:366-403).
TextMatchesHex ==
    \A l \in DOMAIN lines :
        /\ lines[l].text = lines[l].hex
        /\ Len(lines[l].hex) + lines[l].pad = Width

\* Every byte is printed once and in its place: line l begins with byte
\* 16(l-1), only the last one is short, and after the last byte no line is
\* left open, also when Size is a multiple of 16, 1, 0 or negative
\* (source-af-packet.c:364-404).
EveryByteOnce ==
    /\ \A l \in DOMAIN lines :
          lines[l].hex = Bytes(Width * (l - 1),
                               IF Width * l <= i THEN Width * l ELSE i)
    /\ i >= Size => cells = <<>> /\ Width * Len(lines) \in i .. i + Width - 1
=============================================================================
