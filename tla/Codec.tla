-------------------------------- MODULE Codec --------------------------------
(***************************************************************************)
(* The octets of tags and of application data: src/bacint.c,               *)
(* src/bacdcode.c and src/bacapp.c, for the data types the properties of   *)
(* the device and of its analog inputs have.  A value is a tag and its     *)
(* data, a sequence of integers:                                           *)
(*   unsigned, enumerated, signed  <<number>>                              *)
(*   boolean                       <<0>> or <<1>>                          *)
(*   real, date, time              its four octets                         *)
(*   bit string                    its bits, the first one first           *)
(*   character string              the character set and the characters    *)
(*   object identifier             <<object type, instance>>               *)
(* A decoder takes the octets from where it starts to the end of the       *)
(* buffer and says how many it has used.                                   *)
(***************************************************************************)
EXTENDS Integers, Sequences

Tag ==
  [NULL |-> 0, BOOLEAN |-> 1, UNSIGNED_INT |-> 2, SIGNED_INT |-> 3, REAL |-> 4,
   CHARACTER_STRING |-> 7, BIT_STRING |-> 8, ENUMERATED |-> 9, DATE |-> 10,
   TIME |-> 11, OBJECT_ID |-> 12]

MAX_APDU == 1476
MAX_BITSTRING_BYTES == 15

\* The octets after the first n.
Rest(octets, n) == SubSeq(octets, n + 1, Len(octets))
-----------------------------------------------------------------------------
(* Integers, most significant octet first. *)

Weight == <<1, 256, 65536, 16777216>>

\* encode_unsigned16, 24, 32 and encode_signed8, 16, 24, 32: \div rounds down
\* and % is not negative, so a negative v becomes its two's complement.
Octets(v, n) == [i \in 1..n |-> (v \div Weight[n + 1 - i]) % 256]

\* decode_unsigned: a length no decoder exists for gives zero.
Number(o) ==
  CASE Len(o) = 1 -> o[1]
    [] Len(o) = 2 -> 256 * o[1] + o[2]
    [] Len(o) = 3 -> 65536 * o[1] + 256 * o[2] + o[3]
    [] Len(o) = 4 -> 16777216 * o[1] + 65536 * o[2] + 256 * o[3] + o[4]
    [] OTHER -> 0

\* decode_signed: the top bit of the first octet is the sign.
SignedNumber(o) ==
  IF Len(o) \in 1..4 /\ o[1] >= 128 THEN Number([o EXCEPT ![1] = @ - 256])
                                    ELSE Number(o)

\* Mutant: 256 is taken to fit one octet.
UnsignedContentShort(v) ==
  Octets(v, IF v <= 256 THEN 1
            ELSE IF v < 65536 THEN 2 ELSE IF v < 16777216 THEN 3 ELSE 4)

\* encode_bacnet_unsigned: as few octets as hold the value.
UnsignedContent(v) ==
  Octets(v, IF v < 256 THEN 1
            ELSE IF v < 65536 THEN 2 ELSE IF v < 16777216 THEN 3 ELSE 4)

\* encode_bacnet_signed.
SignedContent(v) ==
  Octets(v, IF -128 <= v /\ v < 128 THEN 1
            ELSE IF -32768 <= v /\ v < 32768 THEN 2
            ELSE IF -8388608 < v /\ v < 8388608 THEN 3 ELSE 4)

\* encode_bacnet_object_id, decode_object_id: ten bits of type, 22 of instance.
ObjectIdContent(id) == Octets((id[1] % 1024) * 4194304 + (id[2] % 4194304), 4)
ObjectIdOf(o) == <<Number(o) \div 4194304, Number(o) % 4194304>>

\* encode_bitstring: how many bits of the last octet are unused, then the bits,
\* the first one on top.
BitStringContent(bits) ==
  LET n == (Len(bits) + 7) \div 8
      Bit(i) == IF i <= Len(bits) THEN bits[i] ELSE 0
      Octet(b) == 128 * Bit(b + 1) + 64 * Bit(b + 2) + 32 * Bit(b + 3)
                    + 16 * Bit(b + 4) + 8 * Bit(b + 5) + 4 * Bit(b + 6)
                    + 2 * Bit(b + 7) + Bit(b + 8)
  IN <<8 * n - Len(bits)>> \o [k \in 1..n |-> Octet(8 * (k - 1))]

\* decode_bitstring.
BitsOf(o) ==
  LET weight == <<128, 64, 32, 16, 8, 4, 2, 1>>
  IN [i \in 1..(8 * (Len(o) - 1) - (o[1] % 8)) |->
        (o[2 + (i - 1) \div 8] \div weight[1 + ((i - 1) % 8)]) % 2]
-----------------------------------------------------------------------------
(* Tags: a number, a class and the length of the content, in one octet or  *)
(* more; opening and closing tags have 6 and 7 for a length.               *)

Lead(number, context, low) ==
  <<16 * (IF number <= 14 THEN number ELSE 15) + (IF context THEN 8 ELSE 0) + low>>
    \o (IF number <= 14 THEN <<>> ELSE <<number>>)

EncodeTag(number, context, length) ==
  Lead(number, context, IF length <= 4 THEN length ELSE 5)
    \o CASE length <= 4 -> <<>>
         [] 4 < length /\ length <= 253 -> <<length>>
         [] 253 < length /\ length <= 65535 -> <<254>> \o Octets(length, 2)
         [] OTHER -> <<255>> \o Octets(length, 4)

OpeningTag(number) == Lead(number, TRUE, 6)
ClosingTag(number) == Lead(number, TRUE, 7)

IsOpening(octets) == octets[1] % 8 = 6
IsClosing(octets) == octets[1] % 8 = 7
IsContext(octets) == octets[1] % 16 >= 8

\* decode_tag_number_and_value.
DecodeTag(octets) ==
  LET n == IF octets[1] \div 16 = 15 THEN 2 ELSE 1
      low == octets[1] % 8
      k == CASE low # 5 -> 0
             [] low = 5 /\ octets[n + 1] = 255 -> 5
             [] low = 5 /\ octets[n + 1] = 254 -> 3
             [] OTHER -> 1
  IN [number |-> IF n = 2 THEN octets[2] ELSE octets[1] \div 16,
      value |-> CASE low < 5 -> low
                  [] low > 5 -> 0
                  [] low = 5 /\ k = 1 -> octets[n + 1]
                  [] OTHER -> Number(SubSeq(octets, n + 2, n + k)),
      len |-> n + k]
-----------------------------------------------------------------------------
(* Application data and the context-tagged fields of a service. *)

\* The octets after the tag; a boolean is in the tag itself.
Content(v) ==
  CASE v.tag \in {Tag.UNSIGNED_INT, Tag.ENUMERATED} -> UnsignedContent(v.data[1])
    [] v.tag = Tag.SIGNED_INT -> SignedContent(v.data[1])
    [] v.tag = Tag.OBJECT_ID -> ObjectIdContent(v.data)
    [] v.tag = Tag.BIT_STRING -> BitStringContent(v.data)
    [] v.tag \in {Tag.REAL, Tag.DATE, Tag.TIME, Tag.CHARACTER_STRING} -> v.data
    [] OTHER -> <<>>

\* bacapp_encode_application_data: nothing for a string that does not fit.
EncodeApplicationData(v) ==
  LET content == Content(v)
      lead == EncodeTag(v.tag, FALSE, IF v.tag = Tag.BOOLEAN THEN v.data[1]
                                                            ELSE Len(content))
  IN IF v.tag = Tag.CHARACTER_STRING /\ Len(lead) + Len(content) >= MAX_APDU
     THEN <<>> ELSE lead \o content

\* bacapp_decode_data: the data in length octets of content; "ok" is FALSE
\* where the code sets the tag to MAX_BACNET_APPLICATION_TAG.
DecodeData(tag, length, octets) ==
  LET content == SubSeq(octets, 1, length)
      Value(ok, data) == [ok |-> ok, tag |-> tag, data |-> data]
  IN CASE tag = Tag.NULL -> Value(TRUE, <<>>)
       [] tag = Tag.BOOLEAN -> Value(TRUE, <<IF length = 0 THEN 0 ELSE 1>>)
       [] tag \in {Tag.UNSIGNED_INT, Tag.ENUMERATED} ->
            Value(length > 0, <<Number(content)>>)
       [] tag = Tag.SIGNED_INT -> Value(length > 0, <<SignedNumber(content)>>)
       [] tag \in {Tag.REAL, Tag.DATE, Tag.TIME} -> Value(length = 4, content)
       [] tag = Tag.OBJECT_ID -> Value(length = 4, ObjectIdOf(content))
       [] tag = Tag.CHARACTER_STRING ->
            Value(length \in 1..(MAX_APDU - 6), content)
       [] tag = Tag.BIT_STRING ->
            LET ok == length \in 1..(MAX_BITSTRING_BYTES + 1)
            IN Value(ok, IF ok THEN BitsOf(content) ELSE <<>>)
       [] OTHER -> Value(FALSE, <<>>)

\* bacapp_decode_application_data, of a value that starts with an application
\* tag: the handlers leave the value unset for any other.
DecodeApplicationData(octets) ==
  LET t == DecodeTag(octets)
  IN DecodeData(t.number, t.value, Rest(octets, t.len))

\* bacapp_decode_application_data_len: how many octets the next value has.
ApplicationDataLen(octets) ==
  LET t == DecodeTag(octets)
  IN t.len + (IF t.number \in {Tag.NULL, Tag.BOOLEAN} THEN 0 ELSE t.value)

\* encode_context_unsigned, encode_context_enumerated, encode_context_object_id.
ContextUnsigned(number, v) ==
  EncodeTag(number, TRUE, Len(UnsignedContent(v))) \o UnsignedContent(v)
ContextObjectId(number, id) == EncodeTag(number, TRUE, 4) \o ObjectIdContent(id)

\* A tagged field, as the decoders of the services take it apart: its number,
\* the octets of its content and those after it.
Field(octets) ==
  LET Parts(t) == [number |-> t.number,
                   content |-> SubSeq(octets, t.len + 1, t.len + t.value),
                   rest |-> Rest(octets, t.len + t.value)]
  IN Parts(DecodeTag(octets))

\* encode_context_character_string.
ContextText(number, data) == EncodeTag(number, TRUE, Len(data)) \o data
=============================================================================
