----------------------- MODULE ProvisionPortalProofs -----------------------
(***************************************************************************)
(* Proofs about the on-boarding of a board, for any number of forms and    *)
(* power cuts and for settings and networks of any kind, with the DNS      *)
(* server running in the same loop.                                        *)
(*                                                                         *)
(* The DNS server comes first, for packets of every length and content and *)
(* for buffers, headers and labels of every size.  That the parser stays   *)
(* in the buffer is an invariant of its pointer.  That it answers exactly  *)
(* the well-formed queries takes two more facts about the pointer while it *)
(* walks over the name: labels chain from the first byte to it (so that    *)
(* the name is one when the walk ends), and every division of these bytes  *)
(* into labels has one that starts there (so that there is none when the   *)
(* walk is given up).                                                      *)
(***************************************************************************)
EXTENDS ProvisionPortal, TLAPS

-----------------------------------------------------------------------------
(* The DNS server.                                                         *)


Bodies == Seq(0 .. 255)

\* Labels chain from the first byte to ptr.
Walked(body, ptr) ==
    \E starts \in SUBSET (1 .. (ptr - 1)) :
        /\ 1 \in starts \cup {ptr}
        /\ \A i \in starts : /\ body[i] \in 1 .. MaxLabel
                             /\ i + body[i] + 1 \in starts \cup {ptr}

\* Every name these bytes could be has a label that starts at ptr.
Forced(body, ptr) ==
    \A last \in DOMAIN body : \A starts \in SUBSET (1 .. last) :
        IsName(body, starts, last) => ptr \in starts

\* The bytes up to last are a name, and no other bytes are.
Named(body, last) == \E starts \in SUBSET (1 .. last) : IsName(body, starts, last)
NamedOnly(body, last) == \A l \in DOMAIN body : Named(body, l) => l = last

\* The invariant of the parser, by phase.
NameInv ==
    At("name") =>
        /\ parse.ptr \in 1 .. End + 1
        /\ parse.packet.plain
        /\ Walked(parse.packet.body, parse.ptr)
        /\ Forced(parse.packet.body, parse.ptr)
QuestionInv ==
    At("type") \/ At("room") =>
        /\ parse.ptr \in 2 .. End + 1
        /\ parse.ptr - 1 + QuestionSize <= End
        /\ parse.packet.plain
        /\ Named(parse.packet.body, parse.ptr - 1)
        /\ NamedOnly(parse.packet.body, parse.ptr - 1)
        /\ At("room") => parse.packet.typeA
AnswerInv ==
    /\ At("answered") => AnswerOffset(parse.ptr) + AnswerSize <= BufferSize
    /\ AnswersExactlyAQueries

DnsInv ==
    /\ parse \in Parse
    /\ NameInv
    /\ QuestionInv
    /\ AnswerInv

-----------------------------------------------------------------------------
(* Bytes and names.                                                        *)

LEMMA SizesAreNat ==
    /\ HeaderSize \in Nat /\ QuestionSize \in Nat /\ AnswerSize \in Nat
    /\ BufferSize \in Nat /\ MaxLabel \in Nat
    /\ QuestionSize > 0
BY SizeAssumption

LEMMA ElementsOfSeq ==
    ASSUME NEW S, NEW b \in Seq(S)
    PROVE  /\ Len(b) \in Nat /\ DOMAIN b = 1 .. Len(b)
           /\ \A i \in 1 .. Len(b) : b[i] \in S
OBVIOUS

\* A label that is neither too long nor beyond the end.
LEMMA LabelFits ==
    ASSUME NEW end \in Nat, NEW max \in Nat, NEW ptr \in 1 .. end, NEW byte \in 1 .. 255,
           ~(byte > max), ~(ptr + byte > end)
    PROVE  byte \in 1 .. max /\ ptr + byte + 1 \in 1 .. end + 1
OBVIOUS

LEMMA BodyFacts ==
    ASSUME NEW p \in Packets
    PROVE  /\ p.body \in Bodies /\ p.plain \in BOOLEAN /\ p.typeA \in BOOLEAN
           /\ Len(p.body) \in Nat
           /\ DOMAIN p.body = 1 .. Len(p.body)
           /\ \A i \in 1 .. Len(p.body) : p.body[i] \in 0 .. 255
           /\ HeaderSize + Len(p.body) <= BufferSize
<1>1. p \in Packet /\ HeaderSize + Len(p.body) <= BufferSize
  BY PacketsAssumption
<1>2. p.body \in Bodies /\ p.plain \in BOOLEAN /\ p.typeA \in BOOLEAN
  BY <1>1 DEF Packet, Bodies
<1>3. QED
  BY <1>1, <1>2, ElementsOfSeq DEF Bodies

\* A label more.
LEMMA WalkOn ==
    ASSUME NEW body, NEW ptr \in Nat, ptr >= 1, MaxLabel \in Nat,
           body[ptr] \in 1 .. MaxLabel, Walked(body, ptr)
    PROVE  Walked(body, ptr + body[ptr] + 1)
<1>1. PICK starts \in SUBSET (1 .. (ptr - 1)) :
        /\ 1 \in starts \cup {ptr}
        /\ \A i \in starts : /\ body[i] \in 1 .. MaxLabel
                             /\ i + body[i] + 1 \in starts \cup {ptr}
  BY DEF Walked
<1> DEFINE next == ptr + body[ptr] + 1
<1>2. body[ptr] \in Nat /\ next \in Nat /\ next > ptr
  OBVIOUS
<1>3. starts \cup {ptr} \in SUBSET (1 .. (next - 1))
  BY <1>2
<1>4. \A i \in starts \cup {ptr} :
        /\ body[i] \in 1 .. MaxLabel
        /\ i + body[i] + 1 \in (starts \cup {ptr}) \cup {next}
  BY <1>1
<1>5. 1 \in (starts \cup {ptr}) \cup {next}
  BY <1>1
<1> HIDE DEF next
<1>6. Walked(body, next)
  BY <1>3, <1>4, <1>5 DEF Walked
<1>7. QED
  BY <1>6 DEF next

\* The empty label: what was walked over is a name.
LEMMA WalkEnds ==
    ASSUME NEW body, NEW ptr \in Nat, ptr >= 1, body[ptr] = 0, Walked(body, ptr)
    PROVE  Named(body, ptr)
<1>1. PICK starts \in SUBSET (1 .. (ptr - 1)) :
        /\ 1 \in starts \cup {ptr}
        /\ \A i \in starts : /\ body[i] \in 1 .. MaxLabel
                             /\ i + body[i] + 1 \in starts \cup {ptr}
  BY DEF Walked
<1>2. starts \cup {ptr} \in SUBSET (1 .. ptr)
  OBVIOUS
<1>3. IsName(body, starts \cup {ptr}, ptr)
  BY <1>1, <1>2 DEF IsName
<1>4. QED
  BY <1>2, <1>3 DEF Named

\* Where a name has a label that is not empty, it has the next one too.
LEMMA NameGoesOn ==
    ASSUME NEW body, NEW last, NEW starts, IsName(body, starts, last),
           NEW ptr \in starts, body[ptr] # 0
    PROVE  body[ptr] \in 1 .. MaxLabel /\ ptr + body[ptr] + 1 \in starts
BY DEF IsName

\* Where it has an empty label it ends.
LEMMA NameStops ==
    ASSUME NEW body, NEW last, NEW starts, IsName(body, starts, last),
           NEW ptr \in starts, body[ptr] = 0
    PROVE  ptr = last
<1> SUFFICES ASSUME ptr # last PROVE FALSE
  OBVIOUS
<1>1. body[ptr] \in 1 .. MaxLabel
  BY DEF IsName
<1>2. QED
  BY <1>1

-----------------------------------------------------------------------------
(* The parser's state.                                                     *)

LEMMA ParseFields ==
    ASSUME parse \in Parse, parse # Waiting
    PROVE  /\ parse.packet \in Packets /\ parse.ptr \in Nat /\ parse.phase \in Phase
           /\ \A phase, ptr : [parse EXCEPT !.phase = phase, !.ptr = ptr] =
                  [phase |-> phase, packet |-> parse.packet, ptr |-> ptr]
<1>1. parse \in [phase : Phase, packet : Packets, ptr : Nat]
  BY DEF Parse
<1>2. ASSUME NEW phase, NEW ptr
      PROVE  [parse EXCEPT !.phase = phase, !.ptr = ptr] =
                 [phase |-> phase, packet |-> parse.packet, ptr |-> ptr]
  <2>1. [parse EXCEPT !.phase = phase] =
            [phase |-> phase, packet |-> parse.packet, ptr |-> parse.ptr]
    BY <1>1
  <2> DEFINE r == [phase |-> phase, packet |-> parse.packet, ptr |-> parse.ptr]
  <2>2. r \in [phase : {phase}, packet : Packets, ptr : Nat] /\ r.packet = parse.packet
    BY <1>1
  <2> HIDE DEF r
  <2>3. [r EXCEPT !.ptr = ptr] = [phase |-> phase, packet |-> parse.packet, ptr |-> ptr]
    BY <2>2
  <2>4. QED
    BY <2>1, <2>3 DEF r
<1>3. QED
  BY <1>1, <1>2

LEMMA AtIsBusy ==
    ASSUME NEW phase \in Phase, At(phase)
    PROVE  parse # Waiting
BY NoPacketAssumption DEF At, Waiting

\* A packet that is not well formed, or whose answer has no room, may be
\* dropped.
LEMMA DropStep ==
    ASSUME DnsInv, parse # Waiting, Drops, ~WellFormed(parse.packet)
    PROVE  DnsInv'
<1>1. parse' = [phase |-> "dropped", packet |-> parse.packet, ptr |-> parse.ptr]
  BY ParseFields DEF DnsInv, Drops, Goes
<1>2. parse' \in Parse
  BY <1>1, ParseFields DEF DnsInv, Parse, Phase
<1>3. QED
  BY <1>1, <1>2 DEF DnsInv, NameInv, QuestionInv, AnswerInv, At, AnswersExactlyAQueries

LEMMA ReceiveStep ==
    ASSUME DnsInv, Receive
    PROVE  DnsInv'
<1>1. PICK p \in Packets :
        parse' = [phase |-> IF p.body # <<>> /\ p.plain THEN "name" ELSE "dropped",
                  packet |-> p, ptr |-> 1]
  BY DEF Receive
<1>2. parse' \in Parse
  BY <1>1 DEF Parse, Phase
<1>3. CASE p.body # <<>> /\ p.plain
  <2>1. parse' = [phase |-> "name", packet |-> p, ptr |-> 1]
    BY <1>1, <1>3
  <2>2. Len(p.body) \in Nat
    BY BodyFacts
  <2>3. Walked(p.body, 1)
    <3>1. {} \in SUBSET (1 .. (1 - 1)) /\ 1 \in {} \cup {1}
      OBVIOUS
    <3>2. QED
      BY <3>1 DEF Walked
  <2>4. Forced(p.body, 1)
    BY DEF Forced, IsName
  <2>5. NameInv'
    BY <1>3, <2>1, <2>2, <2>3, <2>4 DEF NameInv, At, End
  <2>6. QED
    BY <1>2, <2>1, <2>5 DEF DnsInv, QuestionInv, AnswerInv, At, AnswersExactlyAQueries
<1>4. CASE ~(p.body # <<>> /\ p.plain)
  <2>1. parse' = [phase |-> "dropped", packet |-> p, ptr |-> 1]
    BY <1>1, <1>4
  <2>2. ~WellFormed(p)
    BY <1>4 DEF WellFormed
  <2>3. QED
    BY <1>2, <2>1, <2>2 DEF DnsInv, NameInv, QuestionInv, AnswerInv, At, AnswersExactlyAQueries
<1>5. QED
  BY <1>3, <1>4

LEMMA LabelStep ==
    ASSUME DnsInv, NextLabel
    PROVE  DnsInv'
<1> DEFINE body == parse.packet.body
           ptr == parse.ptr
<1>1. At("name") /\ parse # Waiting
  BY AtIsBusy DEF NextLabel, Phase
<1>2. /\ ptr \in 1 .. End + 1 /\ Walked(body, ptr) /\ Forced(body, ptr)
      /\ parse.packet \in Packets /\ parse.packet.plain
  BY <1>1, ParseFields DEF DnsInv, NameInv
<1>3. ptr <= End /\ body[ptr] # 0
  BY DEF NextLabel, MoreLabels, Byte
<1>4. /\ End \in Nat /\ ptr \in 1 .. End /\ body[ptr] \in 1 .. 255
      /\ DOMAIN body = 1 .. End
  <2>1. End \in Nat /\ DOMAIN body = 1 .. End /\ \A i \in 1 .. End : body[i] \in 0 .. 255
    BY <1>2, BodyFacts DEF End
  <2>2. ptr \in 1 .. End
    BY <1>2, <1>3, <2>1
  <2>3. body[ptr] \in 0 .. 255
    BY <2>1, <2>2
  <2>4. QED
    BY <1>3, <2>1, <2>2, <2>3
<1>5. CASE Byte > MaxLabel \/ ptr + Byte > End
  <2>1. ASSUME NEW last \in DOMAIN body, NEW starts \in SUBSET (1 .. last),
               IsName(body, starts, last)
        PROVE  FALSE
    <3>1. ptr \in starts
      BY <1>2, <2>1 DEF Forced
    <3>2. body[ptr] \in 1 .. MaxLabel /\ ptr + body[ptr] + 1 \in starts
      BY <1>3, <2>1, <3>1, NameGoesOn
    <3>3. ptr + body[ptr] + 1 <= End
      BY <1>4, <3>2
    <3>4. QED
      BY <1>4, <1>5, <3>2, <3>3, SizeAssumption DEF Byte
  <2>2. ~WellFormed(parse.packet)
    BY <2>1 DEF WellFormed
  <2>3. QED
    BY <1>1, <1>5, <2>2, DropStep DEF NextLabel
<1>6. CASE ~(Byte > MaxLabel \/ ptr + Byte > End)
  <2> DEFINE next == ptr + body[ptr] + 1
  <2>1. body[ptr] \in 1 .. MaxLabel /\ next \in 1 .. End + 1
    <3>1. ~(body[ptr] > MaxLabel) /\ ~(ptr + body[ptr] > End)
      BY <1>6 DEF Byte
    <3>2. QED
      BY <1>4, <3>1, SizesAreNat, LabelFits
  <2>2. parse' = [phase |-> "name", packet |-> parse.packet, ptr |-> next]
    BY <1>1, <1>6, ParseFields DEF NextLabel, Goes, Byte, DnsInv
  <2>3. Walked(body, next)
    BY <1>2, <1>4, <2>1, WalkOn, SizeAssumption
  <2>4. Forced(body, next)
    BY <1>2, <1>3, NameGoesOn DEF Forced
  <2> HIDE DEF next
  <2>5. parse' \in Parse
    BY <1>2, <1>4, <2>1, <2>2 DEF Parse, Phase
  <2>6. NameInv'
    BY <1>2, <2>1, <2>2, <2>3, <2>4 DEF NameInv, At, End
  <2>7. QED
    BY <2>2, <2>5, <2>6 DEF DnsInv, QuestionInv, AnswerInv, At, AnswersExactlyAQueries
<1>7. QED
  BY <1>5, <1>6

LEMMA EndStep ==
    ASSUME DnsInv, EndOfName
    PROVE  DnsInv'
<1> DEFINE body == parse.packet.body
           ptr == parse.ptr
<1>1. At("name") /\ parse # Waiting
  BY AtIsBusy DEF EndOfName, Phase
<1>2. /\ ptr \in 1 .. End + 1 /\ Walked(body, ptr) /\ Forced(body, ptr)
      /\ parse.packet \in Packets /\ parse.packet.plain
  BY <1>1, ParseFields DEF DnsInv, NameInv
<1>3. End \in Nat /\ DOMAIN body = 1 .. End /\ ptr \in Nat /\ ptr >= 1
  BY <1>2, BodyFacts DEF End
<1>4. ptr <= End => body[ptr] = 0
  BY DEF EndOfName, MoreLabels, Byte
\* The name, if there is one, ends here.
<1>5. ASSUME NEW l \in DOMAIN body, Named(body, l) PROVE l = ptr /\ ptr <= End
  <2>1. PICK starts \in SUBSET (1 .. l) : IsName(body, starts, l)
    BY <1>5 DEF Named
  <2>2. ptr \in starts
    BY <1>2, <2>1 DEF Forced
  <2>3. ptr <= End
    BY <1>3, <2>2
  <2>4. QED
    BY <1>4, <2>1, <2>2, <2>3, NameStops
<1>6. CASE ptr > End \/ ptr + QuestionSize > End
  <2>1. ~WellFormed(parse.packet)
    <3> SUFFICES ASSUME NEW l \in DOMAIN body, l + QuestionSize <= Len(body), Named(body, l)
                 PROVE  FALSE
      BY DEF WellFormed, Named
    <3>1. l = ptr /\ ptr <= End
      BY <1>5
    <3>2. QED
      BY <1>3, <1>6, <3>1, SizeAssumption DEF End
  <2>2. QED
    BY <1>1, <1>6, <2>1, DropStep DEF EndOfName
<1>7. CASE ~(ptr > End \/ ptr + QuestionSize > End)
  <2>1. parse' = [phase |-> "type", packet |-> parse.packet, ptr |-> ptr + 1]
    BY <1>1, <1>7, ParseFields DEF EndOfName, Goes, DnsInv
  <2>2. ptr <= End /\ ptr + QuestionSize <= End
    BY <1>3, <1>7, SizeAssumption
  <2>3. Named(body, ptr)
    BY <1>2, <1>3, <1>4, <2>2, WalkEnds
  <2>4. NamedOnly(body, ptr)
    BY <1>5 DEF NamedOnly
  <2>5. (ptr + 1) - 1 = ptr /\ ptr + 1 \in 2 .. End + 1 /\ ptr + 1 \in Nat
    BY <1>3, <2>2
  <2>6. parse' \in Parse
    BY <1>2, <2>1, <2>5 DEF Parse, Phase
  <2>7. QuestionInv'
    BY <1>2, <2>1, <2>2, <2>3, <2>4, <2>5 DEF QuestionInv, At, End
  <2>8. QED
    BY <2>1, <2>6, <2>7 DEF DnsInv, NameInv, AnswerInv, At, AnswersExactlyAQueries
<1>8. QED
  BY <1>6, <1>7

LEMMA TypeStep ==
    ASSUME DnsInv, ReadType
    PROVE  DnsInv'
<1>1. At("type") /\ parse # Waiting
  BY AtIsBusy DEF ReadType, Phase
<1>2. CASE parse.packet.typeA
  <2>1. parse' = [phase |-> "room", packet |-> parse.packet, ptr |-> parse.ptr]
    BY <1>1, <1>2, ParseFields DEF ReadType, Goes, DnsInv
  <2>2. parse' \in Parse
    BY <1>1, <2>1, ParseFields DEF DnsInv, Parse, Phase
  <2>3. QuestionInv'
    BY <1>1, <1>2, <2>1 DEF DnsInv, QuestionInv, At, End
  <2>4. QED
    BY <2>1, <2>2, <2>3 DEF DnsInv, NameInv, AnswerInv, At, AnswersExactlyAQueries
<1>3. CASE ~parse.packet.typeA
  <2>1. ~WellFormed(parse.packet)
    BY <1>3 DEF WellFormed
  <2>2. QED
    BY <1>1, <1>3, <2>1, DropStep DEF ReadType
<1>4. QED
  BY <1>2, <1>3

LEMMA AnswerStep ==
    ASSUME DnsInv, WriteAnswer
    PROVE  DnsInv'
<1> DEFINE body == parse.packet.body
           ptr == parse.ptr
           fits == AnswerOffset(ptr) + AnswerSize <= BufferSize
<1>1. At("room") /\ parse # Waiting
  BY AtIsBusy DEF WriteAnswer, Phase
<1>2. /\ ptr \in 2 .. End + 1 /\ ptr - 1 + QuestionSize <= End
      /\ Named(body, ptr - 1) /\ NamedOnly(body, ptr - 1)
      /\ parse.packet.plain /\ parse.packet.typeA /\ parse.packet \in Packets
  BY <1>1, ParseFields DEF DnsInv, QuestionInv
<1>3. End \in Nat /\ DOMAIN body = 1 .. End
  BY <1>2, BodyFacts DEF End
<1>4. (ptr - 1) + 1 = ptr /\ ptr - 1 \in DOMAIN body /\ AnswerOffset(ptr) \in Nat
  BY <1>2, <1>3, SizesAreNat DEF AnswerOffset
<1>5. CASE ~fits
  <2>1. ~WellFormed(parse.packet)
    <3> SUFFICES ASSUME NEW l \in DOMAIN body,
                        AnswerOffset(l + 1) + AnswerSize <= BufferSize, Named(body, l)
                 PROVE  FALSE
      BY DEF WellFormed, Named
    <3>1. l = ptr - 1
      BY <1>2 DEF NamedOnly
    <3>2. QED
      BY <1>4, <1>5, <3>1
  <2>2. AnswerOffset(ptr) + AnswerSize > BufferSize
    BY <1>4, <1>5, SizeAssumption
  <2>3. QED
    BY <1>1, <2>1, <2>2, DropStep DEF WriteAnswer
<1>6. CASE fits
  <2>1. ~(AnswerOffset(ptr) + AnswerSize > BufferSize)
    BY <1>4, <1>6, SizeAssumption
  <2>2. parse' = [phase |-> "answered", packet |-> parse.packet, ptr |-> ptr]
    BY <1>1, <2>1, ParseFields DEF WriteAnswer, Goes, DnsInv
  <2>3. parse' \in Parse
    BY <1>1, <2>2, ParseFields DEF DnsInv, Parse, Phase
  <2>4. WellFormed(parse.packet)
    BY <1>2, <1>4, <1>6 DEF WellFormed, Named, End
  <2>5. AnswerInv'
    BY <1>6, <2>2, <2>4 DEF AnswerInv, At, AnswersExactlyAQueries
  <2>6. QED
    BY <2>2, <2>3, <2>5 DEF DnsInv, NameInv, QuestionInv, At
<1>7. QED
  BY <1>5, <1>6

LEMMA WaitingInv ==
    ASSUME parse = Waiting
    PROVE  DnsInv
<1>1. \A phase \in Phase : ~At(phase)
  BY AtIsBusy
<1>2. QED
  BY <1>1 DEF DnsInv, Parse, Phase, NameInv, QuestionInv, AnswerInv, AnswersExactlyAQueries

LEMMA WaitingNext ==
    ASSUME parse' = Waiting
    PROVE  DnsInv'
<1>1. \A phase \in Phase : ~At(phase)'
  BY NoPacketAssumption DEF At, Waiting
<1>2. QED
  BY <1>1 DEF DnsInv, Parse, Phase, NameInv, QuestionInv, AnswerInv, AnswersExactlyAQueries

LEMMA DnsStep == DnsInv /\ [DnsNext]_parse => DnsInv'
<1> SUFFICES ASSUME DnsInv, [DnsNext]_parse PROVE DnsInv'
  OBVIOUS
<1>1. CASE Return
  BY <1>1, WaitingNext DEF Return
<1>2. CASE UNCHANGED parse
  BY <1>2 DEF DnsInv, NameInv, QuestionInv, AnswerInv, AnswersExactlyAQueries, At, End
<1>3. QED
  BY <1>1, <1>2, ReceiveStep, LabelStep, EndStep, TypeStep, AnswerStep DEF DnsNext, Parses

\* The invariant gives the bounds of every read and write.
LEMMA DnsBounds == DnsInv => StaysInBuffer
<1> SUFFICES ASSUME DnsInv, parse # Waiting
             PROVE  /\ HeaderSize + End <= BufferSize
                    /\ At("name") => parse.ptr \in 1 .. End + 1
                    /\ At("type") => parse.ptr - 1 + QuestionSize <= End
                    /\ At("answered") => AnswerOffset(parse.ptr) + AnswerSize <= BufferSize
  BY DEF StaysInBuffer
<1>1. HeaderSize + End <= BufferSize
  BY ParseFields, BodyFacts DEF DnsInv, End
<1>2. QED
  BY <1>1 DEF DnsInv, NameInv, QuestionInv, AnswerInv

\* process_next_request reads inside the packet and writes inside the buffer,
\* whatever the bytes of the packet claim.
THEOREM ParserStaysInBuffer == DnsSpec => []StaysInBuffer
<1>1. DnsInit => DnsInv
  BY WaitingInv DEF DnsInit
<1>2. QED
  BY <1>1, DnsStep, DnsBounds, PTL DEF DnsSpec

\* "Points every A query at our AP IP" (dns_server.h): it answers the plain A
\* queries with a well-formed name and room for the answer, and no other packet.
THEOREM ParserIsExact == DnsSpec => []AnswersExactlyAQueries
<1>1. DnsInit => DnsInv
  BY WaitingInv DEF DnsInit
<1>2. DnsInv => AnswersExactlyAQueries
  BY DEF DnsInv, AnswerInv
<1>3. QED
  BY <1>1, <1>2, DnsStep, PTL DEF DnsSpec

-----------------------------------------------------------------------------
(* The portal.                                                             *)


\* A form nothing was due before is still alone while the HTTP task is at it.
AloneUnlessContested ==
    http # Idle /\ ~contested => deferred = <<>> /\ ~armed

PortalType ==
    /\ flash \in [setting : Setting \cup {Nothing}, network : Networks \cup {Nothing}]
    /\ ram \in Setting \cup {Nothing}
    /\ wifi \in {"off", "ap", "sta"}
    /\ redirector \in {"none", "bound", "failed"}
    /\ http \in HttpTask
    /\ deferred \in Seq(Networks)
    /\ armed \in BOOLEAN /\ contested \in BOOLEAN
    /\ promise \in Form \cup {Nothing}
    /\ cuts \in 0 .. MaxCuts

PortalInv ==
    /\ PortalType
    /\ RunsOnFlash
    /\ HttpProgress
    /\ AloneUnlessContested
    /\ PromiseInOrder

-----------------------------------------------------------------------------
(* Records.                                                                *)

LEMMA StoredType ==
    ASSUME NEW s \in Setting
    PROVE  Stored(s) \in Setting
BY PortalAssumption DEF Stored, Setting

LEMMA HttpFields ==
    ASSUME PortalType, NEW phase \in {"got", "stored", "kept", "answered"}, InHttp(phase)
    PROVE  /\ http = [phase |-> phase, form |-> http.form]
           /\ http.form \in Form
           /\ http # Idle
           /\ \A next \in {"got", "stored", "kept", "answered"} :
                  [http EXCEPT !.phase = next] = [phase |-> next, form |-> http.form]
<1>1. http # Idle
  BY DEF InHttp, Idle
<1>2. http \in [phase : {"got", "stored", "kept", "answered"}, form : Form]
  BY <1>1 DEF PortalType, HttpTask
<1>3. QED
  BY <1>1, <1>2 DEF InHttp

LEMMA QueueFacts ==
    /\ <<>> \in Seq(Networks)
    /\ \A w \in Networks : Append(<<>>, w) = <<w>> /\ <<w>> # <<>>
    /\ \A q \in Seq(Networks), w \in Networks :
           Append(q, w) \in Seq(Networks) /\ Append(q, w) # <<>>
<1>1. <<>> \in Seq(Networks)
  OBVIOUS
<1>2. \A w \in Networks : Append(<<>>, w) = <<w>> /\ <<w>> # <<>>
  OBVIOUS
<1>3. \A q \in Seq(Networks), w \in Networks : Append(q, w) \in Seq(Networks)
  OBVIOUS
<1>4. \A q \in Seq(Networks), w \in Networks : Append(q, w) # <<>>
  <2>1. \A q \in Seq(Networks), w \in Networks :
            Len(Append(q, w)) = Len(q) + 1 /\ Len(q) \in Nat
    OBVIOUS
  <2>2. Len(<<>>) = 0
    OBVIOUS
  <2>3. QED
    BY <2>1, <2>2
<1>5. QED
  BY <1>1, <1>2, <1>3, <1>4

LEMMA HttpType ==
    ASSUME NEW form \in Form, NEW phase \in {"got", "stored", "kept", "answered"}
    PROVE  [phase |-> phase, form |-> form] \in HttpTask
BY DEF HttpTask

-----------------------------------------------------------------------------
(* Starting up.                                                            *)

LEMMA BootStep ==
    ASSUME PortalInv, cuts' \in 0 .. MaxCuts,
           NEW content \in [setting : Setting \cup {Nothing}, network : Networks \cup {Nothing}],
           Boots(content)
    PROVE  PortalInv'
<1>1. PortalType'
  <2>1. content.setting \in Setting \cup {Nothing}
    OBVIOUS
  <2>2. QED
    BY <2>1, QueueFacts DEF Boots, PortalType, HttpTask
<1>2. QED
  BY <1>1 DEF Boots, PortalInv, RunsOnFlash, HttpProgress, AloneUnlessContested,
     PromiseInOrder, InHttp, Idle

LEMMA InitPortal == Init => PortalInv
<1> SUFFICES ASSUME Init PROVE PortalInv
  OBVIOUS
<1>1. PortalType
  <2>1. flash \in [setting : Setting \cup {Nothing}, network : Networks \cup {Nothing}]
    BY DEF Init
  <2>2. cuts \in 0 .. MaxCuts
    BY PortalAssumption DEF Init
  <2>3. deferred \in Seq(Networks)
    BY QueueFacts DEF Init
  <2>4. QED
    BY <2>1, <2>2, <2>3 DEF Init, PortalType, HttpTask
<1>2. QED
  BY <1>1 DEF Init, PortalInv, RunsOnFlash, HttpProgress, AloneUnlessContested,
     PromiseInOrder, InHttp, Idle

-----------------------------------------------------------------------------
(* The form on its way.                                                    *)

LEMMA HandleStep ==
    ASSUME PortalInv, HandleSave
    PROVE  PortalInv'
<1>1. PICK f \in Form : http' = [phase |-> "got", form |-> f]
  BY DEF HandleSave
<1>2. /\ http = Idle /\ promise' = Nothing
      /\ contested' = (contested \/ armed \/ deferred # <<>>)
      /\ UNCHANGED <<flash, ram, wifi, redirector, deferred, armed, cuts>>
  BY DEF HandleSave, CanHandle
<1>3. PortalType'
  BY <1>1, <1>2, HttpType DEF PortalInv, PortalType
<1>4. RunsOnFlash' /\ HttpProgress'
  BY <1>1, <1>2 DEF PortalInv, RunsOnFlash, HttpProgress, InHttp, Idle
<1>5. AloneUnlessContested' /\ PromiseInOrder'
  BY <1>1, <1>2 DEF PortalInv, AloneUnlessContested, PromiseInOrder
<1>6. QED
  BY <1>3, <1>4, <1>5 DEF PortalInv

LEMMA StoreStep ==
    ASSUME PortalInv, StoreSettings
    PROVE  PortalInv'
<1> DEFINE f == http.form
<1>1. InHttp("got") /\ http = [phase |-> "got", form |-> f] /\ f \in Form /\ http # Idle
      /\ http' = [phase |-> "stored", form |-> f]
  BY HttpFields DEF StoreSettings, PortalInv
<1>2. UNCHANGED <<ram, wifi, redirector, deferred, armed, promise, contested, cuts>>
  BY DEF StoreSettings
<1>3. f.setting \in Setting
  BY <1>1 DEF Form
<1>4. /\ flash' \in [setting : Setting \cup {Nothing}, network : Networks \cup {Nothing}]
      /\ flash'.setting = Stored(f.setting)
  BY <1>3, StoredType DEF StoreSettings, PortalInv, PortalType
<1>5. promise = Nothing
  BY <1>1 DEF PortalInv, PromiseInOrder, Idle
<1>6. PortalType'
  BY <1>1, <1>2, <1>4, HttpType DEF PortalInv, PortalType
<1>7. RunsOnFlash' /\ HttpProgress'
  BY <1>1, <1>4 DEF RunsOnFlash, HttpProgress, InHttp, Idle
<1>8. AloneUnlessContested' /\ PromiseInOrder'
  BY <1>1, <1>2, <1>5 DEF PortalInv, AloneUnlessContested, PromiseInOrder
<1>9. QED
  BY <1>6, <1>7, <1>8 DEF PortalInv

LEMMA KeepStep ==
    ASSUME PortalInv, KeepSettings
    PROVE  PortalInv'
<1> DEFINE f == http.form
<1>1. InHttp("stored") /\ http = [phase |-> "stored", form |-> f] /\ f \in Form /\ http # Idle
      /\ http' = [phase |-> "kept", form |-> f]
  BY HttpFields DEF KeepSettings, PortalInv
<1>2. /\ UNCHANGED <<flash, wifi, redirector, deferred, armed, promise, contested, cuts>>
      /\ ram' = f.setting /\ f.setting \in Setting
  BY <1>1 DEF KeepSettings, Form
<1>3. promise = Nothing
  BY <1>1 DEF PortalInv, PromiseInOrder, Idle
<1>4. PortalType'
  BY <1>1, <1>2, HttpType DEF PortalInv, PortalType
<1>5. RunsOnFlash' /\ HttpProgress'
  BY <1>1, <1>2 DEF PortalInv, RunsOnFlash, HttpProgress, InHttp, Idle
<1>6. AloneUnlessContested' /\ PromiseInOrder'
  BY <1>1, <1>2, <1>3 DEF PortalInv, AloneUnlessContested, PromiseInOrder
<1>7. QED
  BY <1>4, <1>5, <1>6 DEF PortalInv

LEMMA SaveAnswered ==
    ASSUME PortalInv, AnswerSave
    PROVE  PortalInv'
<1> DEFINE f == http.form
<1>1. InHttp("kept") /\ http = [phase |-> "kept", form |-> f] /\ f \in Form /\ http # Idle
      /\ http' = [phase |-> "answered", form |-> f]
  BY HttpFields DEF AnswerSave, PortalInv
<1>2. /\ UNCHANGED <<flash, ram, wifi, redirector, deferred, armed, contested, cuts>>
      /\ promise' = IF contested THEN Nothing ELSE f
  BY DEF AnswerSave
<1>3. flash.setting = Stored(f.setting)
  BY <1>1 DEF PortalInv, HttpProgress
<1>4. PortalType'
  BY <1>1, <1>2, HttpType DEF PortalInv, PortalType
<1>5. RunsOnFlash' /\ HttpProgress'
  BY <1>1, <1>2, <1>3 DEF RunsOnFlash, HttpProgress, InHttp, Idle
<1>6. AloneUnlessContested'
  BY <1>1, <1>2 DEF PortalInv, AloneUnlessContested
<1>7. PromiseInOrder'
  BY <1>1, <1>2, <1>3 DEF PortalInv, AloneUnlessContested, PromiseInOrder
<1>8. QED
  BY <1>4, <1>5, <1>6, <1>7 DEF PortalInv

LEMMA DeferStep ==
    ASSUME PortalInv, DeferReboot
    PROVE  PortalInv'
<1> DEFINE f == http.form
<1>1. InHttp("answered") /\ http = [phase |-> "answered", form |-> f] /\ f \in Form
      /\ http # Idle /\ http' = Idle
  BY HttpFields DEF DeferReboot, PortalInv
<1>2. /\ UNCHANGED <<flash, ram, wifi, redirector, armed, promise, contested, cuts>>
      /\ deferred' = Append(deferred, f.network) /\ f.network \in Networks
  BY <1>1 DEF DeferReboot, Form
<1>3. /\ deferred' \in Seq(Networks) /\ deferred' # <<>>
      /\ deferred = <<>> => deferred' = <<f.network>>
  BY <1>2, QueueFacts DEF PortalInv, PortalType
<1>4. PortalType'
  BY <1>1, <1>2, <1>3 DEF PortalInv, PortalType, HttpTask
<1>5. RunsOnFlash' /\ HttpProgress' /\ AloneUnlessContested'
  BY <1>1, <1>3 DEF RunsOnFlash, HttpProgress, InHttp, Idle, AloneUnlessContested
<1>6. PromiseInOrder'
  <2> SUFFICES ASSUME promise # Nothing PROVE PromiseInOrder'
    BY <1>2 DEF PromiseInOrder
  <2>1. /\ ~contested /\ flash.setting = Stored(promise.setting)
        /\ http = [phase |-> "answered", form |-> promise] /\ deferred = <<>> /\ ~armed
    BY <1>1 DEF PortalInv, PromiseInOrder
  <2>2. f = promise
    BY <1>1, <2>1
  <2>3. QED
    BY <1>1, <1>2, <1>3, <2>1, <2>2 DEF PromiseInOrder
<1>7. QED
  BY <1>4, <1>5, <1>6 DEF PortalInv

LEMMA WifiStep ==
    ASSUME PortalInv, SaveWifi
    PROVE  PortalInv'
<1>1. /\ UNCHANGED <<ram, wifi, redirector, http, promise, contested, cuts>>
      /\ deferred # <<>> /\ armed' = TRUE
      /\ deferred' = Tail(deferred)
      /\ flash' = [flash EXCEPT !.network = Head(deferred)]
  BY DEF SaveWifi
<1>2. /\ Head(deferred) \in Networks /\ deferred' \in Seq(Networks)
  BY <1>1 DEF PortalInv, PortalType
<1>3. /\ flash' \in [setting : Setting \cup {Nothing}, network : Networks \cup {Nothing}]
      /\ flash'.setting = flash.setting /\ flash'.network = Head(deferred)
  BY <1>1, <1>2 DEF PortalInv, PortalType
<1>4. PortalType'
  BY <1>1, <1>2, <1>3 DEF PortalInv, PortalType
<1>5. RunsOnFlash' /\ HttpProgress'
  BY <1>1, <1>3 DEF PortalInv, RunsOnFlash, HttpProgress, InHttp
<1>6. AloneUnlessContested'
  BY <1>1 DEF PortalInv, AloneUnlessContested
<1>7. PromiseInOrder'
  <2> SUFFICES ASSUME promise # Nothing PROVE PromiseInOrder'
    BY <1>1 DEF PromiseInOrder
  <2>1. /\ ~contested /\ flash.setting = Stored(promise.setting)
        /\ http = Idle /\ deferred = <<promise.network>>
    BY <1>1 DEF PortalInv, PromiseInOrder
  <2>2. Head(deferred) = promise.network /\ Tail(deferred) = <<>>
    BY <2>1
  <2>3. QED
    BY <1>1, <1>3, <2>1, <2>2 DEF PromiseInOrder
<1>8. QED
  BY <1>4, <1>5, <1>6, <1>7 DEF PortalInv

\* What the Wi-Fi component and loop() do is no concern of the form's.
LEMMA RadioStep ==
    ASSUME PortalInv, wifi' \in {"off", "ap", "sta"},
           redirector' \in {"none", "bound", "failed"},
           UNCHANGED <<flash, ram, http, deferred, armed, promise, contested, cuts>>
    PROVE  PortalInv'
BY DEF PortalInv, PortalType, RunsOnFlash, HttpProgress, InHttp, AloneUnlessContested,
   PromiseInOrder

-----------------------------------------------------------------------------

LEMMA PortalStep == PortalInv /\ [Next]_vars => PortalInv'
<1> SUFFICES ASSUME PortalInv, [Next]_vars PROVE PortalInv'
  OBVIOUS
<1>1. flash \in [setting : Setting \cup {Nothing}, network : Networks \cup {Nothing}]
      /\ cuts \in 0 .. MaxCuts
  BY DEF PortalInv, PortalType
<1>2. CASE Reboot
  BY <1>1, <1>2, BootStep DEF Reboot
<1>3. CASE PowerCut
  BY <1>1, <1>3, BootStep, PortalAssumption DEF PowerCut
<1>4. CASE FactoryReset
  <2>1. cuts' \in 0 .. MaxCuts
    BY <1>1, <1>4, PortalAssumption DEF FactoryReset
  <2>2. QED
    BY <1>4, <2>1, BootStep DEF FactoryReset
<1>5. CASE JoinNetwork \/ OpenAccessPoint \/ StartRedirector \/ StopRedirector
  BY <1>5, RadioStep DEF JoinNetwork, OpenAccessPoint, StartRedirector, StopRedirector,
     Started, PortalInv, PortalType
<1>6. CASE ProcessNextRequest \/ UNCHANGED vars
  BY <1>6, RadioStep DEF ProcessNextRequest, vars, portal, PortalInv, PortalType
<1>7. QED
  BY <1>2, <1>3, <1>4, <1>5, <1>6, HandleStep, StoreStep, KeepStep, SaveAnswered,
     DeferStep, WifiStep DEF Next, HttpStep

\* In the main loop the DNS server takes its own steps or is started anew.
LEMMA LoopStep == DnsInv /\ [Next]_vars => DnsInv'
<1> SUFFICES ASSUME DnsInv, [Next]_vars PROVE DnsInv'
  OBVIOUS
<1>1. CASE Reboot \/ PowerCut \/ FactoryReset
  BY <1>1, WaitingNext DEF Reboot, PowerCut, FactoryReset, Boots
<1>2. CASE ProcessNextRequest
  BY <1>2, DnsStep DEF ProcessNextRequest, DnsNext
<1>3. CASE UNCHANGED parse
  BY <1>3, DnsStep
<1>4. JoinNetwork \/ OpenAccessPoint \/ StartRedirector \/ StopRedirector \/ HandleSave
          \/ HttpStep \/ SaveWifi \/ UNCHANGED vars => UNCHANGED parse
  BY DEF JoinNetwork, OpenAccessPoint, StartRedirector, StopRedirector, HandleSave, HttpStep,
     StoreSettings, KeepSettings, AnswerSave, DeferReboot, SaveWifi, vars
<1>5. QED
  BY <1>1, <1>2, <1>3, <1>4 DEF Next

LEMMA InitDns == Init => DnsInv
BY WaitingInv DEF Init, DnsInit

\* Every variable keeps its type.
THEOREM PortalTypeCorrect == Spec => []TypeOK
<1>1. PortalInv /\ DnsInv => TypeOK
  BY DEF PortalInv, PortalType, DnsInv, TypeOK
<1>2. QED
  BY <1>1, InitPortal, InitDns, PortalStep, LoopStep, PTL DEF Spec

\* A board runs on the settings of its flash whenever no reboot is due.
THEOREM SettingsAreKept == Spec => []RunsOnFlash
<1>1. PortalInv => RunsOnFlash
  BY DEF PortalInv
<1>2. QED
  BY <1>1, InitPortal, PortalStep, PTL DEF Spec

\* In the board's main loop, next to everything else that goes on, the DNS
\* server stays inside its buffer and answers exactly the well-formed queries.
THEOREM LoopServesDns == Spec => [](StaysInBuffer /\ AnswersExactlyAQueries)
<1>1. DnsInv => StaysInBuffer /\ AnswersExactlyAQueries
  BY DnsBounds DEF DnsInv, AnswerInv
<1>2. QED
  BY <1>1, InitDns, LoopStep, PTL DEF Spec

\* "Saved. Rebooting and connecting to WiFi." (handle_save_): the reboot after
\* that page comes up with the settings and the network of that form.
THEOREM PromiseIsKept == Spec => RebootKeepsPromise
<1>1. ASSUME PortalInv, [Next]_vars
      PROVE  [Reboot /\ promise # Nothing =>
                 /\ flash'.network = promise.network
                 /\ ram' = Stored(promise.setting)]_vars
  <2> SUFFICES ASSUME Reboot, promise # Nothing
               PROVE  /\ flash'.network = promise.network
                      /\ ram' = Stored(promise.setting)
    OBVIOUS
  <2>1. flash.network = promise.network /\ flash.setting = Stored(promise.setting)
    BY <1>1 DEF Reboot, PortalInv, PromiseInOrder
  <2>2. QED
    BY <2>1 DEF Reboot, Boots
<1>2. QED
  BY <1>1, InitPortal, PortalStep, PTL DEF Spec, RebootKeepsPromise

=============================================================================
