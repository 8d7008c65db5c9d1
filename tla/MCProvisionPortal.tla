------------------------- MODULE MCProvisionPortal -------------------------
(* Instance of ProvisionPortal for TLC: packets of a scaled-down buffer    *)
(* (HeaderSize 2, QuestionSize 2, AnswerSize 3, BufferSize 14, MaxLabel 3) *)
(* around every limit of the parser.                                       *)
EXTENDS ProvisionPortal

Of(body) == [plain |-> TRUE, typeA |-> TRUE, body |-> body]

Bodies ==
    { <<>>, <<0>>,
      <<0, 1, 1>>,                      \* the root
      <<0, 1>>,                         \* half a question
      <<1, 9, 0, 1, 1>>,                \* one label
      <<1, 9, 0, 1, 1, 0, 0, 0>>,       \* and something behind it
      <<3, 9, 9, 0, 0, 1, 1>>,          \* a zero inside a label
      <<3, 9, 9, 9, 1, 9, 0, 1, 1>>,    \* two labels, the answer just fits
      <<3, 9, 9, 9, 2, 9, 9, 0, 1, 1>>, \* one byte too many
      <<4, 9, 9, 9, 9, 0, 1, 1>>,       \* a label that is too long
      <<192, 12, 1, 1>>,                \* a compression pointer
      <<2, 9, 9>>, <<2, 9>>,            \* no terminator, label cut off
      <<1, 9, 0, 1>> }                  \* question cut off

MCPackets ==
    {Of(b) : b \in Bodies}
    \cup {[Of(<<0, 1, 1>>) EXCEPT !.plain = FALSE], [Of(<<0, 1, 1>>) EXCEPT !.typeA = FALSE]}
=============================================================================
