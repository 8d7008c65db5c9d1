----------------------------- MODULE DnsServer -----------------------------
(***************************************************************************)
(* The wildcard DNS server of a board in on-boarding mode                  *)
(* (provision_portal/dns_server.cpp): DNSServer::process_next_request      *)
(* walks over one packet in a fixed buffer and writes its answer behind    *)
(* the question, into the same buffer.                                     *)
(*                                                                         *)
(* A packet is what the server looks at: two facts about its header and    *)
(* its question, and the bytes behind the header, numbered from 1.         *)
(***************************************************************************)
EXTENDS Naturals, Sequences

CONSTANTS
    HeaderSize,     \* sizeof(DNSHeader)
    QuestionSize,   \* sizeof(DNSQuestion)
    AnswerSize,     \* sizeof(DNSAnswer)
    BufferSize,     \* DNS_BUFFER_SIZE
    MaxLabel,       \* 63
    Packets,        \* the packets that come
    NoPacket        \* the server waits

ASSUME SizeAssumption ==
    /\ {HeaderSize, QuestionSize, AnswerSize, BufferSize, MaxLabel} \subseteq Nat
    /\ QuestionSize > 0
    /\ HeaderSize <= BufferSize

\* plain: a query, opcode 0, one question.  typeA: QTYPE A, QCLASS IN.
\* recvfrom cuts off what does not fit into the buffer.
Packet == [plain : BOOLEAN, typeA : BOOLEAN, body : Seq(0 .. 255)]
ASSUME PacketsAssumption ==
    \A p \in Packets : p \in Packet /\ HeaderSize + Len(p.body) <= BufferSize

VARIABLE parse   \* the packet in the buffer, and where the parser is

Waiting == [phase |-> NoPacket]
Phase == {"name", "type", "room", "answered", "dropped"}
ASSUME NoPacketAssumption == NoPacket \notin Phase

Parse == {Waiting} \cup [phase : Phase, packet : Packets, ptr : Nat]

At(phase) == parse.phase = phase
End == Len(parse.packet.body)
Byte == parse.packet.body[parse.ptr]
MoreLabels == IF parse.ptr <= End THEN Byte # 0 ELSE FALSE

Goes(phase, ptr) == parse' = [parse EXCEPT !.phase = phase, !.ptr = ptr]
Drops == Goes("dropped", parse.ptr)

-----------------------------------------------------------------------------

Receive ==
    /\ parse = Waiting
    /\ \E p \in Packets :
         parse' = [phase |-> IF p.body # <<>> /\ p.plain THEN "name" ELSE "dropped",
                   packet |-> p, ptr |-> 1]

\* Mutant of NextLabel: a compression pointer is taken for a label.
NextLabelAnyLength ==
    /\ At("name") /\ MoreLabels
    /\ IF parse.ptr + Byte > End THEN Drops
                                 ELSE Goes("name", parse.ptr + Byte + 1)

\* The body of the while loop: no label beyond 63, none beyond the packet.
NextLabel ==
    /\ At("name") /\ MoreLabels
    /\ IF Byte > MaxLabel \/ parse.ptr + Byte > End
         THEN Drops
         ELSE Goes("name", parse.ptr + Byte + 1)

\* Mutant of EndOfName: the question is not looked for in the packet.
EndOfNameUnchecked ==
    /\ At("name") /\ ~MoreLabels
    /\ IF parse.ptr > End THEN Drops ELSE Goes("type", parse.ptr + 1)

\* The terminating zero is there, and a whole question behind it.
EndOfName ==
    /\ At("name") /\ ~MoreLabels
    /\ IF parse.ptr > End \/ parse.ptr + QuestionSize > End
         THEN Drops
         ELSE Goes("type", parse.ptr + 1)

ReadType ==
    /\ At("type")
    /\ IF parse.packet.typeA THEN Goes("room", parse.ptr) ELSE Drops

AnswerOffset(ptr) == HeaderSize + (ptr - 1) + QuestionSize

\* The answer fits into the buffer; it is written and sent.
WriteAnswer ==
    /\ At("room")
    /\ IF AnswerOffset(parse.ptr) + AnswerSize > BufferSize
         THEN Drops
         ELSE Goes("answered", parse.ptr)

Return ==
    /\ parse.phase \in {"answered", "dropped"}
    /\ parse' = Waiting

DnsInit == parse = Waiting

Parses == NextLabel \/ EndOfName \/ ReadType \/ WriteAnswer \/ Return
DnsNext == Receive \/ Parses

DnsSpec == DnsInit /\ [][DnsNext]_parse

-----------------------------------------------------------------------------

\* The parser reads inside the bytes it received and writes inside the
\* buffer, for whatever lengths the bytes of a packet claim
\* (process_next_request).
StaysInBuffer ==
    parse # Waiting =>
        /\ HeaderSize + End <= BufferSize
        /\ At("name") => parse.ptr \in 1 .. End + 1
        /\ At("type") => parse.ptr - 1 + QuestionSize <= End
        /\ At("answered") => AnswerOffset(parse.ptr) + AnswerSize <= BufferSize

\* What RFC 1035 calls a name: labels one behind the other up to an empty one.
\* starts is where they begin.
IsName(body, starts, last) ==
    /\ starts \subseteq 1 .. last /\ 1 \in starts
    /\ last \in starts /\ body[last] = 0
    /\ \A i \in starts \ {last} :
         /\ body[i] \in 1 .. MaxLabel
         /\ i + body[i] + 1 \in starts

WellFormed(p) ==
    /\ p.plain /\ p.typeA
    /\ \E last \in DOMAIN p.body :
         /\ last + QuestionSize <= Len(p.body)
         /\ AnswerOffset(last + 1) + AnswerSize <= BufferSize
         /\ \E starts \in SUBSET (1 .. last) : IsName(p.body, starts, last)

\* "Points every A query at our AP IP" (dns_server.h): exactly the plain A
\* queries with a well-formed name for which there is room get an answer.
AnswersExactlyAQueries ==
    /\ At("answered") => WellFormed(parse.packet)
    /\ At("dropped") => ~WellFormed(parse.packet)

=============================================================================
