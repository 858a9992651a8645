------------------------------ MODULE QueryName ------------------------------
(***************************************************************************)
(* extractQueryName and extractDnsQuestion (sniff/src/dns.c): the question *)
(* of a DNS query is decoded from its wire form, one octet per iteration,  *)
(* into a dotted, NUL-terminated string in a heap buffer that grows with   *)
(* realloc(); the type and the class are then read at an offset computed   *)
(* from the length of that string.                                         *)
(***************************************************************************)
EXTENDS HeaderFields

VARIABLES
    question,       \* the bytes at questionPtr
    at,             \* "while", "for", "end", "question" or "done"
    cur,            \* curChar, as an offset from questionPtr
    octetCount,     \* octets of the label at curChar
    i,              \* the octet of it that is copied next
    queryName,      \* the bytes written to the heap buffer
    queryNameCap,   \* its size
    qnamelen,
    qtype,
    qclass

questionVars == <<question, at, cur, octetCount, i, queryName, queryNameCap,
                  qnamelen, qtype, qclass>>
field == <<qnamelen, qtype, qclass>>

Dot == 46

\* The byte at an offset; what lies behind `question` reads as 0.
Byte(offset) == IF offset < Len(question) THEN question[offset + 1] ELSE 0

ReadWord(offset) == conv2BytesToInt(Byte(offset), Byte(offset + 1))

\* strlen() of the buffer.
StrLen == CHOOSE n \in 0 .. Len(queryName) :
            /\ n < Len(queryName) => queryName[n + 1] = 0
            /\ \A k \in 1 .. n : queryName[k] # 0

QuestionInit ==
    /\ question = <<>>
    /\ at = "done"
    /\ cur = 0
    /\ octetCount = 0
    /\ i = 1
    /\ queryName = <<>>
    /\ queryNameCap = 0
    /\ qnamelen = 0
    /\ qtype = 0
    /\ qclass = 0

\* extractDnsQuestion is entered; queryName is NULL.
ExtractDnsQuestion(dnsQuestion) ==
    /\ at = "done"
    /\ question' = dnsQuestion
    /\ at' = "while"
    /\ cur' = 0
    /\ queryName' = <<>>
    /\ queryNameCap' = 0
    /\ UNCHANGED <<octetCount, i, field>>

Full == queryNameCap <= Len(queryName)

\* queryName[queryNameLen++] = byte, with the capacity the code grew to.
Write(byte, cap) ==
    /\ queryName' = Append(queryName, byte)
    /\ queryNameCap' = cap

\* while (*curChar)
TestLabel ==
    /\ at = "while"
    /\ IF Byte(cur) # 0
       THEN at' = "for" /\ octetCount' = Byte(cur) /\ i' = 1
       ELSE at' = "end" /\ UNCHANGED <<octetCount, i>>
    /\ UNCHANGED <<question, cur, queryName, queryNameCap, field>>

\* Seeded bug: an empty buffer is doubled, too.
CopyOctetDoubles ==
    /\ at = "for"
    /\ i <= octetCount
    /\ Write(Byte(cur + i), IF Full THEN queryNameCap * 2 ELSE queryNameCap)
    /\ i' = i + 1
    /\ UNCHANGED <<question, at, cur, octetCount, field>>

CopyOctet ==
    /\ at = "for"
    /\ i <= octetCount
    /\ Write(Byte(cur + i),
             IF ~Full THEN queryNameCap
             ELSE IF queryNameCap = 0 THEN 1 ELSE queryNameCap * 2)
    /\ i' = i + 1
    /\ UNCHANGED <<question, at, cur, octetCount, field>>

\* Seeded bug: a dot behind the last label, too.
NextLabelAlwaysDots ==
    /\ at = "for"
    /\ i > octetCount
    /\ cur' = cur + octetCount + 1
    /\ Write(Dot, IF Full THEN queryNameCap * 2 ELSE queryNameCap)
    /\ at' = "while"
    /\ UNCHANGED <<question, octetCount, i, field>>

\* The label is copied: a dot, unless it was the last one.
NextLabel ==
    /\ at = "for"
    /\ i > octetCount
    /\ cur' = cur + octetCount + 1
    /\ IF Byte(cur') # 0
       THEN Write(Dot, IF Full THEN queryNameCap * 2 ELSE queryNameCap)
       ELSE UNCHANGED <<queryName, queryNameCap>>
    /\ at' = "while"
    /\ UNCHANGED <<question, octetCount, i, field>>

Terminate ==
    /\ at = "end"
    /\ Write(0, IF Full THEN queryNameCap + 1 ELSE queryNameCap)
    /\ at' = "question"
    /\ UNCHANGED <<question, cur, octetCount, i, field>>

\* Seeded bug: the length octet of the first label is forgotten.
ReadTypeAndClassEarly ==
    /\ at = "question"
    /\ qnamelen' = (StrLen + 1) % 65536
    /\ qtype' = ReadWord(qnamelen')
    /\ qclass' = ReadWord(qnamelen' + 2)
    /\ at' = "done"
    /\ UNCHANGED <<question, cur, octetCount, i, queryName, queryNameCap>>

ReadTypeAndClass ==
    /\ at = "question"
    /\ qnamelen' = (StrLen + 2) % 65536
    /\ qtype' = ReadWord(qnamelen')
    /\ qclass' = ReadWord(qnamelen' + 2)
    /\ at' = "done"
    /\ UNCHANGED <<question, cur, octetCount, i, queryName, queryNameCap>>

QuestionRuns ==
    \/ TestLabel
    \/ CopyOctet
    \/ NextLabel
    \/ Terminate
    \/ ReadTypeAndClass

QuestionNext ==
    \/ \E dnsQuestion \in Seq(0 .. 255) : ExtractDnsQuestion(dnsQuestion)
    \/ QuestionRuns

QuestionSpec == QuestionInit /\ [][QuestionNext]_questionVars
-----------------------------------------------------------------------------
(* Properties.                                                             *)

LoopTypeOK ==
    /\ question \in Seq(0 .. 255)
    /\ at \in {"while", "for", "end", "question", "done"}
    /\ cur \in Nat
    /\ octetCount \in 0 .. 255
    /\ i \in 1 .. 256
    /\ queryName \in Seq(0 .. 255)
    /\ queryNameCap \in Nat

\* Type correctness: every octet copied is one of the label's, the counts
\* fit their C types, and what is read are 16-bit fields (dns.c:132-197).
QuestionTypeOK ==
    /\ LoopTypeOK
    /\ qnamelen \in Nat
    /\ qtype \in Nat
    /\ qclass \in Nat

\* No byte is written past the heap buffer, although the dot doubles the
\* capacity without the test for zero that the octets have
\* (dns.c:142-151, 156-161, 165-169).
WritesInBounds == Len(queryName) <= queryNameCap

\* The buffer is never more than twice the string: doubling happens only
\* when it is full (dns.c:142-148, 156-158).
BufferNotWasted == queryNameCap <= 2 * Len(queryName)

\* The offsets of the length octets of a name, from the first to the one at
\* `last`: each points to the next.
LengthOctets(offsets, last) ==
    /\ {0, last} \subseteq offsets
    /\ \A b \in offsets \ {last} :
          /\ Byte(b) # 0
          /\ b + Byte(b) + 1 \in offsets
          /\ \A k \in b + 1 .. b + Byte(b) : k \notin offsets

\* The octets behind the first length octet, up to the n-th: a dot for a
\* length octet, and otherwise the octet.
Text(offsets, n) == [k \in 1 .. n |-> IF k \in offsets THEN Dot ELSE Byte(k)]

NameRead == at \in {"question", "done"} /\ queryName # <<>>

\* The decoded string is the labels of the name joined with dots and one NUL,
\* up to the octet of length 0 that ends the name, also when another name was
\* decoded before.  The root name is the empty string (dns.c:111-171).
NameIsDotted ==
    NameRead =>
        \E dots \in SUBSET {k \in DOMAIN queryName : queryName[k] = Dot} :
            LET offsets == {0, cur} \cup dots
            IN  /\ LengthOctets(offsets, cur) /\ Byte(cur) = 0
                /\ queryName = Append(Text(offsets, cur - 1), 0)

\* The type and the class are read behind the octet that ends the name: the
\* string of a name with labels is two octets shorter than its wire form,
\* "len(github.com) = 10 but it is presented as: 6github3com0 = 12".  A label
\* with a NUL in it ends strlen() early, and a length of 16 bits holds no more
\* than 65535: such names are excepted (dns.c:187-197).
TypeAndClassRead ==
    NameRead /\ at = "done" /\ 0 < cur /\ cur < 65535 /\ (\A k \in 1 .. cur - 1 : queryName[k] # 0)
        => qtype = ReadWord(cur + 1) /\ qclass = ReadWord(cur + 3)
=============================================================================
