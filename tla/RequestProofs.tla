---------------------------- MODULE RequestProofs ----------------------------
(***************************************************************************)
(* What Codec encodes it decodes: the integers, the object identifiers and *)
(* the tags, for every value their widths can hold. The header of an NPDU  *)
(* is decoded to what NetworkLayer encoded, and the reply to a request     *)
(* finds its way back, for every address and every APDU. What              *)
(* PropertyServer does with a request of any octets, and does again when   *)
(* the client repeats it, leaves the device with a name of its own and     *)
(* with the properties the request asks for.                               *)
(***************************************************************************)
EXTENDS PropertyServer, NetworkLayer, LeastElements, SequenceTheorems, TLAPS

Octet == 0..255
Low == 0..7      \* the last three bits of the first octet of a tag
Short == 0..5    \* the same, of a tag that does not open or close a list
Unsigned32 == {n \in Nat : n < 4294967296}
Signed32 == {n \in Int : -2147483648 <= n /\ n < 2147483648}

\* The octets encode_unsigned16, 24 and 32 (src/bacint.c) write, one by one.
LEMMA OctetsAre ==
  ASSUME NEW v \in Int
  PROVE  /\ Octets(v, 1) = <<v % 256>>
         /\ Octets(v, 2) = <<(v \div 256) % 256, v % 256>>
         /\ Octets(v, 3) = <<(v \div 65536) % 256, (v \div 256) % 256, v % 256>>
         /\ Octets(v, 4) = <<(v \div 16777216) % 256, (v \div 65536) % 256,
                             (v \div 256) % 256, v % 256>>
  BY SMT DEF Octets, Weight

\* Two or four octets are a sequence of that length.
LEMMA OctetsSeq ==
  ASSUME NEW v \in Int
  PROVE  /\ Octets(v, 2) \in Seq(Int) /\ Len(Octets(v, 2)) = 2
         /\ Octets(v, 4) \in Seq(Int) /\ Len(Octets(v, 4)) = 4
<1>1. ASSUME NEW n \in 1..4, NEW i \in 1..n
      PROVE  (v \div Weight[n + 1 - i]) % 256 \in Int
  BY SMT DEF Weight
<1> QED
  BY <1>1, SMT DEF Octets

\* A number of 32 bits is the sum of its four octets; the first ones of a small
\* number are zero.
LEMMA Digits ==
  ASSUME NEW v \in Unsigned32
  PROVE  /\ v = 16777216 * ((v \div 16777216) % 256) + 65536 * ((v \div 65536) % 256)
               + 256 * ((v \div 256) % 256) + (v % 256)
         /\ v < 16777216 => (v \div 16777216) % 256 = 0
         /\ v < 65536 => (v \div 65536) % 256 = 0
         /\ v < 256 => (v \div 256) % 256 = 0
  BY SMTT(60) DEF Unsigned32

\* decode_unsigned gives back what was written in any number of octets that
\* holds the value (src/bacint.c).
LEMMA NumberOfOctets ==
  ASSUME NEW v \in Unsigned32
  PROVE  /\ v < 256 => Number(Octets(v, 1)) = v
         /\ v < 65536 => Number(Octets(v, 2)) = v
         /\ v < 16777216 => Number(Octets(v, 3)) = v
         /\ Number(Octets(v, 4)) = v
<1> DEFINE a == (v \div 16777216) % 256
           b == (v \div 65536) % 256
           c == (v \div 256) % 256
           e == v % 256
<1>1. v \in Int
  BY SMT DEF Unsigned32
<1>2. a \in Int /\ b \in Int /\ c \in Int /\ e \in Int
  BY <1>1, SMT
<1>3. /\ Octets(v, 1) = <<e>> /\ Octets(v, 2) = <<c, e>>
      /\ Octets(v, 3) = <<b, c, e>> /\ Octets(v, 4) = <<a, b, c, e>>
  BY <1>1, OctetsAre, SMT
<1>4. /\ v = 16777216 * a + 65536 * b + 256 * c + e
      /\ v < 16777216 => a = 0
      /\ v < 65536 => b = 0
      /\ v < 256 => c = 0
  BY Digits, SMT
<1> HIDE DEF a, b, c, e
<1>5. /\ Number(<<e>>) = e /\ Number(<<c, e>>) = 256 * c + e
      /\ Number(<<b, c, e>>) = 65536 * b + 256 * c + e
      /\ Number(<<a, b, c, e>>) = 16777216 * a + 65536 * b + 256 * c + e
  BY <1>2, SMT DEF Number
<1> QED
  BY <1>1, <1>2, <1>3, <1>4, <1>5, SMT

\* decode_unsigned gives back what encode_bacnet_unsigned wrote, for every number
\* of 32 bits: the octets it chooses are never too few (src/bacdcode.c).
THEOREM UnsignedRoundTrip ==
  ASSUME NEW v \in Unsigned32
  PROVE  Number(UnsignedContent(v)) = v
<1>1. v \in Int
  BY SMT DEF Unsigned32
<1> QED
  BY <1>1, NumberOfOctets, SMT DEF UnsignedContent

\* A signed number is the sum of its octets, the first of them taken as signed,
\* in each of the widths that hold it.
LEMMA SignedDigits ==
  ASSUME NEW v \in Signed32
  PROVE  /\ v = 16777216 * (IF (v \div 16777216) % 256 >= 128
                            THEN ((v \div 16777216) % 256) - 256
                            ELSE (v \div 16777216) % 256)
               + 65536 * ((v \div 65536) % 256) + 256 * ((v \div 256) % 256) + (v % 256)
         /\ -8388608 <= v /\ v < 8388608 =>
              v = 65536 * (IF (v \div 65536) % 256 >= 128
                           THEN ((v \div 65536) % 256) - 256
                           ELSE (v \div 65536) % 256)
                    + 256 * ((v \div 256) % 256) + (v % 256)
         /\ -32768 <= v /\ v < 32768 =>
              v = 256 * (IF (v \div 256) % 256 >= 128 THEN ((v \div 256) % 256) - 256
                                                      ELSE (v \div 256) % 256) + (v % 256)
         /\ -128 <= v /\ v < 128 =>
              v = IF v % 256 >= 128 THEN (v % 256) - 256 ELSE v % 256
  BY SMTT(60) DEF Signed32

\* decode_signed gives back what encode_bacnet_signed wrote, for every number
\* of 32 bits, in whichever of the four widths it is written
\* (src/bacdcode.c, bacint.c).
THEOREM SignedRoundTrip ==
  ASSUME NEW v \in Signed32
  PROVE  SignedNumber(SignedContent(v)) = v
<1> DEFINE a == (v \div 16777216) % 256
           b == (v \div 65536) % 256
           c == (v \div 256) % 256
           e == v % 256
<1>1. v \in Int
  BY SMT DEF Signed32
<1>2. a \in Int /\ b \in Int /\ c \in Int /\ e \in Int
  BY <1>1, SMT
<1>3. /\ Octets(v, 1) = <<e>> /\ Octets(v, 2) = <<c, e>>
      /\ Octets(v, 3) = <<b, c, e>> /\ Octets(v, 4) = <<a, b, c, e>>
  BY <1>1, OctetsAre, SMT
<1>4. /\ v = 16777216 * (IF a >= 128 THEN a - 256 ELSE a) + 65536 * b + 256 * c + e
      /\ -8388608 <= v /\ v < 8388608 =>
           v = 65536 * (IF b >= 128 THEN b - 256 ELSE b) + 256 * c + e
      /\ -32768 <= v /\ v < 32768 => v = 256 * (IF c >= 128 THEN c - 256 ELSE c) + e
      /\ -128 <= v /\ v < 128 => v = IF e >= 128 THEN e - 256 ELSE e
  BY SignedDigits, SMT
<1> HIDE DEF a, b, c, e
<1>5. SignedNumber(<<e>>) = IF e >= 128 THEN e - 256 ELSE e
  <2>1. [<<e>> EXCEPT ![1] = @ - 256] = <<e - 256>>
    BY <1>2, SMT
  <2>2. Number(<<e - 256>>) = e - 256 /\ Number(<<e>>) = e
    BY <1>2, SMT DEF Number
  <2> QED
    BY <1>2, <2>1, <2>2, SMT DEF SignedNumber
<1>6. SignedNumber(<<c, e>>) = 256 * (IF c >= 128 THEN c - 256 ELSE c) + e
  <2>1. [<<c, e>> EXCEPT ![1] = @ - 256] = <<c - 256, e>>
    BY <1>2, SMT
  <2>2. Number(<<c - 256, e>>) = 256 * (c - 256) + e /\ Number(<<c, e>>) = 256 * c + e
    BY <1>2, SMT DEF Number
  <2> QED
    BY <1>2, <2>1, <2>2, SMT DEF SignedNumber
<1>7. SignedNumber(<<b, c, e>>)
        = 65536 * (IF b >= 128 THEN b - 256 ELSE b) + 256 * c + e
  <2>1. [<<b, c, e>> EXCEPT ![1] = @ - 256] = <<b - 256, c, e>>
    BY <1>2, SMT
  <2>2. /\ Number(<<b - 256, c, e>>) = 65536 * (b - 256) + 256 * c + e
        /\ Number(<<b, c, e>>) = 65536 * b + 256 * c + e
    BY <1>2, SMT DEF Number
  <2> QED
    BY <1>2, <2>1, <2>2, SMT DEF SignedNumber
<1>8. SignedNumber(<<a, b, c, e>>)
        = 16777216 * (IF a >= 128 THEN a - 256 ELSE a) + 65536 * b + 256 * c + e
  <2>1. [<<a, b, c, e>> EXCEPT ![1] = @ - 256] = <<a - 256, b, c, e>>
    BY <1>2, SMT
  <2>2. /\ Number(<<a - 256, b, c, e>>)
             = 16777216 * (a - 256) + 65536 * b + 256 * c + e
        /\ Number(<<a, b, c, e>>) = 16777216 * a + 65536 * b + 256 * c + e
    BY <1>2, SMT DEF Number
  <2> QED
    BY <1>2, <2>1, <2>2, SMT DEF SignedNumber
<1>9. CASE -128 <= v /\ v < 128
  <2>1. SignedContent(v) = <<e>>
    BY <1>1, <1>3, <1>9, SMT DEF SignedContent
  <2> QED
    BY <2>1, <1>4, <1>5, <1>9, SMT
<1>10. CASE ~(-128 <= v /\ v < 128) /\ -32768 <= v /\ v < 32768
  <2>1. SignedContent(v) = <<c, e>>
    BY <1>1, <1>3, <1>10, SMT DEF SignedContent
  <2> QED
    BY <2>1, <1>4, <1>6, <1>10, SMT
<1>11. CASE ~(-32768 <= v /\ v < 32768) /\ -8388608 < v /\ v < 8388608
  <2>1. SignedContent(v) = <<b, c, e>>
    BY <1>1, <1>3, <1>11, SMT DEF SignedContent
  <2> QED
    BY <2>1, <1>1, <1>4, <1>7, <1>11, SMT
<1>12. CASE ~(-8388608 < v /\ v < 8388608)
  <2>1. SignedContent(v) = <<a, b, c, e>>
    BY <1>1, <1>3, <1>12, SMT DEF SignedContent
  <2> QED
    BY <2>1, <1>4, <1>8, SMT
<1> QED
  BY <1>1, <1>9, <1>10, <1>11, <1>12, SMT

\* decode_object_id gives back the type and the instance that
\* encode_bacnet_object_id wrote, for every type of ten bits and every instance
\* of 22 (src/bacdcode.c).
THEOREM ObjectIdRoundTrip ==
  ASSUME NEW type \in Nat, type < 1024, NEW instance \in Nat, instance < 4194304
  PROVE  ObjectIdOf(ObjectIdContent(<<type, instance>>)) = <<type, instance>>
<1> DEFINE word == type * 4194304 + instance
<1>1. word \in Unsigned32
  BY SMT DEF Unsigned32
<1>2. word \div 4194304 = type /\ word % 4194304 = instance
  BY SMT
<1>3. type % 1024 = type /\ instance % 4194304 = instance
  BY SMT
<1>4. ObjectIdContent(<<type, instance>>) = Octets(word, 4)
  BY <1>3, SMT DEF ObjectIdContent
<1>5. Number(Octets(word, 4)) = word
  BY <1>1, NumberOfOctets, SMT
<1> QED
  BY <1>2, <1>4, <1>5, SMT DEF ObjectIdOf
-----------------------------------------------------------------------------
(* Tags. *)

\* What is at the start of three sequences in a row, and after it.
Starts(s, t, u) ==
  /\ Len(s \o t) = Len(s) + Len(t)
  /\ s \o t \o u \in Seq(Int)
  /\ Len(s \o t \o u) = Len(s) + Len(t) + Len(u)
  /\ \A i \in 1..Len(s) : (s \o t \o u)[i] = s[i]
  /\ \A i \in 1..Len(t) : (s \o t \o u)[Len(s) + i] = t[i]

LEMMA Start ==
  ASSUME NEW s \in Seq(Int), NEW t \in Seq(Int), NEW u \in Seq(Int)
  PROVE  Starts(s, t, u)
<1>1. /\ s \o t \in Seq(Int) /\ Len(s \o t) = Len(s) + Len(t)
      /\ s \o t \o u \in Seq(Int) /\ Len(s \o t \o u) = Len(s) + Len(t) + Len(u)
  BY SMT
<1>2. \A i \in 1..Len(s) : (s \o t \o u)[i] = s[i]
  BY <1>1, SMT
<1>3. \A i \in 1..Len(t) : (s \o t \o u)[Len(s) + i] = t[i]
  BY <1>1, SMT
<1> QED
  BY <1>1, <1>2, <1>3 DEF Starts

\* What is between the first octet of the second sequence and the third one.
LEMMA Middle ==
  ASSUME NEW s \in Seq(Int), NEW t \in Seq(Int), NEW u \in Seq(Int), NEW first \in Int
  PROVE  SubSeq(s \o (<<first>> \o t) \o u, Len(s) + 2, Len(s) + 1 + Len(t)) = t
<1> DEFINE o == s \o (<<first>> \o t) \o u
           sub == SubSeq(o, Len(s) + 2, Len(s) + 1 + Len(t))
<1>1. /\ <<first>> \o t \in Seq(Int) /\ Len(<<first>> \o t) = 1 + Len(t)
      /\ \A i \in 1..Len(t) : (<<first>> \o t)[i + 1] = t[i]
  BY SMT
<1>2. /\ o \in Seq(Int) /\ Len(o) = Len(s) + 1 + Len(t) + Len(u)
      /\ \A i \in 1..(1 + Len(t)) : o[Len(s) + i] = (<<first>> \o t)[i]
  BY <1>1, Start DEF Starts
<1> HIDE DEF o
<1>3. Len(s) \in Nat /\ Len(t) \in Nat /\ Len(u) \in Nat
  BY SMT
<1>4. \A i \in (Len(s) + 2)..(Len(s) + 1 + Len(t)) : o[i] \in Int
  BY <1>2, <1>3, SMT
<1>5. /\ sub \in Seq(Int) /\ Len(sub) = Len(t)
      /\ \A i \in 1..Len(t) : sub[i] = o[Len(s) + 1 + i]
  <2> DEFINE m == Len(s) + 2
             n == Len(s) + 1 + Len(t)
  <2>1. m \in Int /\ n \in Int /\ n - m + 1 = Len(t)
        /\ (m <= n \/ Len(t) = 0) /\ \A i \in Int : m + i - 1 = Len(s) + 1 + i
    BY <1>3, SMT
  <2>2. \A i \in m..n : o[i] \in Int
    BY <1>4
  <2> HIDE DEF m, n
  <2>3. /\ SubSeq(o, m, n) \in Seq(Int)
        /\ Len(SubSeq(o, m, n)) = IF m <= n THEN n - m + 1 ELSE 0
        /\ \A i \in 1..(n - m + 1) : SubSeq(o, m, n)[i] = o[m + i - 1]
    BY <2>1, <2>2, SubSeqProperties
  <2>4. (IF m <= n THEN n - m + 1 ELSE 0) = Len(t)
    BY <1>3, <2>1, SMT
  <2>5. ASSUME NEW i \in 1..Len(t)
        PROVE  SubSeq(o, m, n)[i] = o[Len(s) + 1 + i]
    <3>1. i \in Int
      BY SMT
    <3>2. i \in 1..(n - m + 1)
      BY <2>1
    <3>3. m + i - 1 = Len(s) + 1 + i
      BY <2>1, <3>1
    <3>4. SubSeq(o, m, n)[i] = o[m + i - 1]
      BY <2>3, <3>2
    <3> QED
      BY <3>3, <3>4
  <2> QED
    BY <2>3, <2>4, <2>5 DEF m, n
<1> HIDE DEF sub
<1>6. \A i \in 1..Len(sub) : sub[i] = t[i]
  <2>1. ASSUME NEW k \in Nat, NEW n \in Nat, NEW i \in 1..k
        PROVE  i + 1 \in 1..(1 + k) /\ n + 1 + i = n + (i + 1)
    BY SMT
  <2>2. ASSUME NEW i \in 1..Len(t) PROVE sub[i] = t[i]
    <3>1. i + 1 \in 1..(1 + Len(t)) /\ Len(s) + 1 + i = Len(s) + (i + 1)
      BY <1>3, <2>1
    <3>2. sub[i] = o[Len(s) + (i + 1)]
      BY <1>5, <3>1
    <3>3. QED BY <1>1, <1>2, <3>1, <3>2
  <2>3. QED BY <1>5, <2>2
<1>7. sub = t
  BY <1>5, <1>6, SeqEqual
<1> QED
  BY <1>7 DEF sub, o

\* The first octets of a tag, and the fields they hold.
HasFields(s, number, context, low) ==
  /\ s \in Seq(Int) /\ Len(s) = IF number <= 14 THEN 1 ELSE 2
  /\ s[1] \in Nat
  /\ s[1] \div 16 = IF number <= 14 THEN number ELSE 15
  /\ s[1] % 8 = low
  /\ s[1] % 16 >= 8 <=> context
  /\ number > 14 => s[2] = number

\* Lead writes octets that have the fields it was given.
LEMMA LeadIs ==
  ASSUME NEW number \in Octet, NEW context \in BOOLEAN, NEW low \in Low
  PROVE  HasFields(Lead(number, context, low), number, context, low)
<1> DEFINE m == IF number <= 14 THEN number ELSE 15
           k == IF context THEN 8 ELSE 0
           x == 16 * m + k + low
<1>1. number \in Int /\ m \in 0..15 /\ k \in {0, 8} /\ low \in Int /\ x \in Nat
  <2>1. number \in Int /\ m \in 0..15 /\ low \in 0..7
    BY SMT DEF Octet, Low
  <2>2. k \in {0, 8}
    OBVIOUS
  <2> HIDE DEF m, k
  <2> QED
    BY <2>1, <2>2, SMT
<1>2. k = 8 <=> context
  OBVIOUS
<1>3. Lead(number, context, low)
        = <<x>> \o (IF number <= 14 THEN <<>> ELSE <<number>>)
  BY DEF Lead
<1> HIDE DEF k
<1>4. m = (IF number <= 14 THEN number ELSE 15)
  OBVIOUS
<1> HIDE DEF m
<1>5. x \div 16 = m /\ x % 8 = low /\ (x % 16 >= 8 <=> k = 8)
  BY <1>1, SMT DEF Low
<1> HIDE DEF x
<1>6. CASE number <= 14
  <2>1. Lead(number, context, low) = <<x>>
    BY <1>1, <1>3, <1>6, SMT
  <2> QED
    BY <1>1, <1>2, <1>4, <1>5, <1>6, <2>1, SMT DEF HasFields
<1>7. CASE number > 14
  <2>1. Lead(number, context, low) = <<x>> \o <<number>>
    BY <1>1, <1>3, <1>7, SMT
  <2> QED
    BY <1>1, <1>2, <1>4, <1>5, <1>7, <2>1, SMT DEF HasFields
<1> QED
  BY <1>1, <1>6, <1>7, SMT

\* What decode_tag_number_and_value finds in the first n octets of a tag.
LeadIsThere(o, n, number, context, low) ==
  /\ n \in Nat
  /\ o[1] % 8 = low
  /\ o[1] % 16 >= 8 <=> context
  /\ (IF o[1] \div 16 = 15 THEN 2 ELSE 1) = n
  /\ (IF n = 2 THEN o[2] ELSE o[1] \div 16) = number

\* The fields are found whatever follows them.
LEMMA FieldsAreFound ==
  ASSUME NEW s, NEW number \in Octet, NEW context \in BOOLEAN, NEW low \in Low,
         HasFields(s, number, context, low), NEW t \in Seq(Int), NEW u \in Seq(Int)
  PROVE  /\ LeadIsThere(s \o t \o u, Len(s), number, context, low)
         /\ Len(s \o t) = Len(s) + Len(t)
         /\ t # <<>> => (s \o t \o u)[Len(s) + 1] = t[1]
<1> DEFINE o == s \o t \o u
<1>1. s \in Seq(Int)
  BY DEF HasFields
<1>2. /\ Len(s \o t) = Len(s) + Len(t)
      /\ \A i \in 1..Len(s) : o[i] = s[i]
      /\ \A i \in 1..Len(t) : o[Len(s) + i] = t[i]
  BY <1>1, Start DEF Starts
<1> HIDE DEF o
<1>3. o[1] = s[1] /\ (number > 14 => o[2] = s[2])
  <2>1. 1 \in 1..Len(s) /\ (number > 14 => 2 \in 1..Len(s))
    BY SMT DEF HasFields
  <2> QED
    BY <1>2, <2>1
<1>4. /\ Len(s) \in Nat
      /\ o[1] % 8 = low
      /\ o[1] % 16 >= 8 <=> context
      /\ (IF o[1] \div 16 = 15 THEN 2 ELSE 1) = Len(s)
      /\ (IF Len(s) = 2 THEN o[2] ELSE o[1] \div 16) = number
  BY <1>3, SMT DEF HasFields, Octet
<1>5. t # <<>> => 1 \in 1..Len(t)
  BY SMT
<1> QED
  BY <1>2, <1>4, <1>5 DEF o, LeadIsThere

\* What it makes of octets that start with a tag.
TagReads(o, number, context, value, len) ==
  /\ DecodeTag(o) = [number |-> number, value |-> value, len |-> len]
  /\ IsContext(o) = context
  /\ ~IsOpening(o) /\ ~IsClosing(o)

Outcomes(o, n, number, context, low) ==
  /\ low < 5 => TagReads(o, number, context, low, n)
  /\ low = 5 /\ o[n + 1] # 254 /\ o[n + 1] # 255 =>
       TagReads(o, number, context, o[n + 1], n + 1)
  /\ low = 5 /\ o[n + 1] = 254 =>
       TagReads(o, number, context, Number(SubSeq(o, n + 2, n + 3)), n + 3)
  /\ low = 5 /\ o[n + 1] = 255 =>
       TagReads(o, number, context, Number(SubSeq(o, n + 2, n + 5)), n + 5)

\* decode_tag_number_and_value takes one of its four branches.
LEMMA TagIsRead ==
  ASSUME NEW o, NEW n, NEW number, NEW context \in BOOLEAN, NEW low \in Short,
         LeadIsThere(o, n, number, context, low)
  PROVE  Outcomes(o, n, number, context, low)
<1> DEFINE k == CASE low # 5 -> 0
                  [] low = 5 /\ o[n + 1] = 255 -> 5
                  [] low = 5 /\ o[n + 1] = 254 -> 3
                  [] OTHER -> 1
           value == CASE low < 5 -> low
                      [] low > 5 -> 0
                      [] low = 5 /\ k = 1 -> o[n + 1]
                      [] OTHER -> Number(SubSeq(o, n + 2, n + k))
<1>1. DecodeTag(o) = [number |-> number, value |-> value, len |-> n + k]
  BY DEF DecodeTag, LeadIsThere
<1>2. IsContext(o) = context /\ ~IsOpening(o) /\ ~IsClosing(o)
  <2>1. low # 6 /\ low # 7
    BY SMT DEF Short
  <2> QED
    BY <2>1 DEF LeadIsThere, IsContext, IsOpening, IsClosing
<1>3. ASSUME low < 5 PROVE k = 0 /\ value = low
  <2>1. low # 5
    BY <1>3, SMT
  <2>2. k = 0
    BY <2>1
  <2>3. ~(low > 5) /\ ~(low = 5 /\ k = 1)
    BY <1>3, <2>1, SMT DEF Short
  <2> HIDE DEF k
  <2>4. value = low
    BY <1>3, <2>3
  <2> QED
    BY <2>2, <2>4
<1>4. ASSUME low = 5 PROVE ~(low < 5) /\ ~(low > 5)
  BY <1>4, SMT
<1>5. ASSUME low = 5, o[n + 1] # 254, o[n + 1] # 255 PROVE k = 1 /\ value = o[n + 1]
  <2>1. k = 1
    BY <1>5
  <2> HIDE DEF k
  <2> QED
    BY <1>4, <1>5, <2>1
<1>6. 3 # 1 /\ 5 # 1 /\ 254 # 255
  BY SMT
<1>7. ASSUME low = 5, o[n + 1] = 254
      PROVE  k = 3 /\ value = Number(SubSeq(o, n + 2, n + 3))
  <2>1. k = 3
    BY <1>6, <1>7
  <2> HIDE DEF k
  <2> QED
    BY <1>4, <1>6, <1>7, <2>1
<1>8. ASSUME low = 5, o[n + 1] = 255
      PROVE  k = 5 /\ value = Number(SubSeq(o, n + 2, n + 5))
  <2>1. k = 5
    BY <1>6, <1>8
  <2> HIDE DEF k
  <2> QED
    BY <1>4, <1>6, <1>8, <2>1
<1>9. n + 0 = n
  BY SMT DEF LeadIsThere
<1> HIDE DEF k, value
<1> QED
  BY <1>1, <1>2, <1>3, <1>5, <1>7, <1>8, <1>9 DEF TagReads, Outcomes

\* An octet in front of a sequence.
LEMMA Prefixed ==
  ASSUME NEW first \in Int, NEW w \in Seq(Int)
  PROVE  /\ <<first>> \o w \in Seq(Int) /\ Len(<<first>> \o w) = 1 + Len(w)
         /\ (<<first>> \o w)[1] = first /\ <<first>> \o w # <<>>
  BY SMT

\* Octets s with the fields, a first octet for the length and more after it.
LEMMA Marked ==
  ASSUME NEW s, NEW number \in Octet, NEW context \in BOOLEAN, NEW low \in Short,
         HasFields(s, number, context, low),
         NEW first \in Int, NEW w \in Seq(Int), NEW u \in Seq(Int)
  PROVE  /\ LeadIsThere(s \o (<<first>> \o w) \o u, Len(s), number, context, low)
         /\ Len(s \o (<<first>> \o w)) = Len(s) + 1 + Len(w)
         /\ (s \o (<<first>> \o w) \o u)[Len(s) + 1] = first
         /\ SubSeq(s \o (<<first>> \o w) \o u, Len(s) + 2, Len(s) + 1 + Len(w)) = w
<1> DEFINE t == <<first>> \o w
<1>1. low \in Low
  BY SMT DEF Low, Short
<1>2. s \in Seq(Int)
  BY DEF HasFields
<1>3. t \in Seq(Int) /\ Len(t) = 1 + Len(w) /\ t[1] = first /\ t # <<>>
  BY Prefixed
<1>4. SubSeq(s \o t \o u, Len(s) + 2, Len(s) + 1 + Len(w)) = w
  BY <1>2, Middle
<1> HIDE DEF t
<1>5. /\ LeadIsThere(s \o t \o u, Len(s), number, context, low)
      /\ Len(s \o t) = Len(s) + Len(t)
      /\ (s \o t \o u)[Len(s) + 1] = t[1]
  <2>1. t \in Seq(Int)
    BY <1>3
  <2>2. t # <<>>
    BY <1>3
  <2> QED
    BY <1>1, <2>1, <2>2, FieldsAreFound
<1>6. Len(s) + Len(t) = Len(s) + 1 + Len(w)
  BY <1>2, <1>3, SMT
<1> QED
  BY <1>3, <1>4, <1>5, <1>6 DEF t

\* The two octets of a length above 253.
LEMMA NumberOfTwo ==
  ASSUME NEW v \in Unsigned32, v <= 65535
  PROVE  Number(Octets(v, 2)) = v
<1>1. v \in Nat /\ v < 65536
  BY SMT DEF Unsigned32
<1> QED
  BY <1>1, NumberOfOctets, SMT

\* The four octets of a length above 65535.
LEMMA NumberOfFour ==
  ASSUME NEW v \in Unsigned32
  PROVE  Number(Octets(v, 4)) = v
  BY NumberOfOctets, SMT

\* decode_tag_number_and_value gives back the number and the length that
\* encode_tag wrote, however many octets they took and whatever follows, uses
\* exactly those octets, and does not take the tag for one that opens or closes
\* a list (src/bacdcode.c).
THEOREM TagRoundTrip ==
  ASSUME NEW number \in Octet, NEW context \in BOOLEAN, NEW length \in Unsigned32,
         NEW u \in Seq(Int)
  PROVE  LET tag == EncodeTag(number, context, length)
         IN /\ DecodeTag(tag \o u)
                 = [number |-> number, value |-> length, len |-> Len(tag)]
            /\ IsContext(tag \o u) = context
            /\ ~IsOpening(tag \o u) /\ ~IsClosing(tag \o u)
<1> DEFINE tag == EncodeTag(number, context, length)
           five == 5
           long == Lead(number, context, five)
<1>1. length \in Nat
  BY SMT DEF Unsigned32
<1>2. five \in Short /\ five \in Low
  BY SMT DEF Low, Short
<1>3. five = 5 /\ ~(five < 5)
  BY SMT
<1>4. CASE length <= 4
  <2> DEFINE s == Lead(number, context, length)
  <2>1. length \in Low /\ length \in Short /\ length < 5
    BY <1>1, <1>4, SMT DEF Low, Short
  <2>2. HasFields(s, number, context, length)
    BY <2>1, LeadIs
  <2>3. tag = s \o <<>>
    <3> DEFINE none == <<>>
               two == <<254>> \o Octets(length, 2)
               four == <<255>> \o Octets(length, 4)
    <3>1. ~(4 < length) /\ ~(253 < length)
      BY <1>1, <1>4, SMT
    <3>2. EncodeTag(number, context, length)
            = Lead(number, context, IF length <= 4 THEN length ELSE 5)
                \o CASE length <= 4 -> none
                     [] 4 < length /\ length <= 253 -> <<length>>
                     [] 253 < length /\ length <= 65535 -> two
                     [] OTHER -> four
      BY DEF EncodeTag
    <3> HIDE DEF none, two, four
    <3>3. EncodeTag(number, context, length) = Lead(number, context, length) \o none
      BY <1>4, <3>1, <3>2
    <3> QED
      BY <3>3 DEF none
  <2> HIDE DEF s, tag
  <2>4. <<>> \in Seq(Int) /\ Len(<<>>) = 0
    BY SMT
  <2>5. /\ LeadIsThere(s \o <<>> \o u, Len(s), number, context, length)
        /\ Len(s \o <<>>) = Len(s) + Len(<<>>)
    <3>1. \A t \in Seq(Int) : /\ LeadIsThere(s \o t \o u, Len(s), number, context, length)
                             /\ Len(s \o t) = Len(s) + Len(t)
      BY <2>1, <2>2, FieldsAreFound
    <3>2. QED BY <2>4, <3>1
  <2>6. Len(tag) = Len(s)
    BY <2>3, <2>4, <2>5, SMT DEF LeadIsThere
  <2>7. Outcomes(s \o <<>> \o u, Len(s), number, context, length)
    BY <2>1, <2>5, TagIsRead
  <2>8. TagReads(tag \o u, number, context, length, Len(s))
    BY <2>1, <2>3, <2>7 DEF Outcomes
  <2> QED
    BY <2>6, <2>8 DEF TagReads, tag
<1> HIDE DEF five
<1>5. HasFields(long, number, context, five)
  BY <1>2, LeadIs
<1>6. CASE ~(length <= 4) /\ length <= 253
  <2>1. tag = long \o <<length>>
    <3> DEFINE none == <<>>
               one == <<length>>
               two == <<254>> \o Octets(length, 2)
               four == <<255>> \o Octets(length, 4)
    <3>1. ~(length <= 4) /\ 4 < length /\ ~(253 < length)
      BY <1>1, <1>6, SMT
    <3>2. EncodeTag(number, context, length)
            = Lead(number, context, IF length <= 4 THEN length ELSE 5)
                \o CASE length <= 4 -> none
                     [] 4 < length /\ length <= 253 -> one
                     [] 253 < length /\ length <= 65535 -> two
                     [] OTHER -> four
      BY DEF EncodeTag
    <3> HIDE DEF none, one, two, four, long
    <3>3. EncodeTag(number, context, length)
            = Lead(number, context, 5) \o one
      BY <1>6, <3>1, <3>2
    <3> QED
      BY <1>3, <3>3 DEF one, long
  <2> DEFINE t == <<length>>
  <2>2. Len(t) = 1 /\ t[1] = length
    BY <1>1, SMT
  <2>3. /\ LeadIsThere(long \o t \o u, Len(long), number, context, five)
        /\ Len(long \o t) = Len(long) + Len(t)
        /\ (long \o t \o u)[Len(long) + 1] = t[1]
    <3>2. t \in Seq(Int)
      BY <1>1, SMT
    <3>3. t # <<>>
      BY SMT
    <3> HIDE DEF long, tag, t
    <3> QED
      BY <1>2, <1>5, <3>2, <3>3, FieldsAreFound
  <2> HIDE DEF long, tag, t
  <2>4. length # 254 /\ length # 255
    BY <1>1, <1>6, SMT
  <2>5. TagReads(tag \o u, number, context, length, Len(long) + 1)
    <3> DEFINE o == long \o t \o u
    <3>1. LeadIsThere(o, Len(long), number, context, five)
      BY <2>3
    <3>2. o[Len(long) + 1] = length
      BY <2>2, <2>3
    <3>3. tag \o u = o
      BY <2>1 DEF t
    <3>4. Outcomes(o, Len(long), number, context, five)
      BY <1>2, <3>1, TagIsRead
    <3> HIDE DEF o
    <3> QED
      BY <1>3, <2>4, <3>2, <3>3, <3>4 DEF Outcomes
  <2>6. Len(tag) = Len(long) + 1
    BY <2>1, <2>2, <2>3 DEF t
  <2> QED
    BY <2>5, <2>6 DEF TagReads, tag
<1>7. CASE 253 < length /\ length <= 65535
  <2> DEFINE w == Octets(length, 2)
             first == 254
             o == long \o (<<first>> \o w) \o u
  <2>1. tag = long \o (<<first>> \o w)
    <3> DEFINE none == <<>>
               one == <<length>>
               two == <<254>> \o Octets(length, 2)
               four == <<255>> \o Octets(length, 4)
    <3>1. ~(length <= 4) /\ ~(length <= 253)
      BY <1>1, <1>7, SMT
    <3>2. EncodeTag(number, context, length)
            = Lead(number, context, IF length <= 4 THEN length ELSE 5)
                \o CASE length <= 4 -> none
                     [] 4 < length /\ length <= 253 -> one
                     [] 253 < length /\ length <= 65535 -> two
                     [] OTHER -> four
      BY DEF EncodeTag
    <3> HIDE DEF none, one, two, four, long
    <3>3. EncodeTag(number, context, length)
            = Lead(number, context, 5) \o two
      BY <1>7, <3>1, <3>2
    <3> QED
      BY <1>3, <3>3 DEF two, long
  <2>11. w \in Seq(Int)
    BY <1>1, OctetsSeq, SMT
  <2>2. Len(w) = 2
    BY <1>1, OctetsSeq, SMT
  <2>3. Number(w) = length
    BY <1>7, NumberOfTwo
  <2>4. first \in Int
    BY SMT
  <2>5. first = 254
    OBVIOUS
  <2> HIDE DEF long, tag, w, first
  <2>6. /\ LeadIsThere(o, Len(long), number, context, five)
        /\ Len(long \o (<<first>> \o w)) = Len(long) + 1 + Len(w)
        /\ o[Len(long) + 1] = first
        /\ SubSeq(o, Len(long) + 2, Len(long) + 1 + Len(w)) = w
    BY <1>2, <1>5, <2>11, <2>4, Marked
  <2> HIDE DEF o
  <2>7. Len(long) + 1 + Len(w) = Len(long) + 3
    BY <2>2, <2>6, SMT DEF LeadIsThere
  <2>8. SubSeq(o, Len(long) + 2, Len(long) + 3) = w
    BY <2>6, <2>7
  <2>9. TagReads(o, number, context, Number(SubSeq(o, Len(long) + 2, Len(long) + 3)),
              Len(long) + 3)
    <3>1. Outcomes(o, Len(long), number, context, five)
      BY <1>2, <2>6, TagIsRead
    <3> QED
      BY <1>3, <2>5, <2>6, <3>1 DEF Outcomes
  <2>10. tag \o u = o /\ Len(tag) = Len(long) + 3
    BY <2>1, <2>6, <2>7 DEF o
  <2> QED
    BY <2>3, <2>8, <2>9, <2>10 DEF TagReads, tag
<1>8. CASE 65535 < length
  <2> DEFINE w == Octets(length, 4)
             first == 255
             o == long \o (<<first>> \o w) \o u
  <2>1. tag = long \o (<<first>> \o w)
    <3> DEFINE none == <<>>
               one == <<length>>
               two == <<254>> \o Octets(length, 2)
               four == <<255>> \o Octets(length, 4)
    <3>1. ~(length <= 4) /\ ~(length <= 253) /\ ~(length <= 65535)
      BY <1>1, <1>8, SMT
    <3>2. EncodeTag(number, context, length)
            = Lead(number, context, IF length <= 4 THEN length ELSE 5)
                \o CASE length <= 4 -> none
                     [] 4 < length /\ length <= 253 -> one
                     [] 253 < length /\ length <= 65535 -> two
                     [] OTHER -> four
      BY DEF EncodeTag
    <3> HIDE DEF none, one, two, four, long
    <3>3. EncodeTag(number, context, length)
            = Lead(number, context, 5) \o four
      BY <1>8, <3>1, <3>2
    <3> QED
      BY <1>3, <3>3 DEF four, long
  <2>11. w \in Seq(Int)
    BY <1>1, OctetsSeq, SMT
  <2>2. Len(w) = 4
    BY <1>1, OctetsSeq, SMT
  <2>3. Number(w) = length
    BY <1>8, NumberOfFour
  <2>4. first \in Int
    BY SMT
  <2>5. first = 255
    OBVIOUS
  <2> HIDE DEF long, tag, w, first
  <2>6. /\ LeadIsThere(o, Len(long), number, context, five)
        /\ Len(long \o (<<first>> \o w)) = Len(long) + 1 + Len(w)
        /\ o[Len(long) + 1] = first
        /\ SubSeq(o, Len(long) + 2, Len(long) + 1 + Len(w)) = w
    BY <1>2, <1>5, <2>11, <2>4, Marked
  <2> HIDE DEF o
  <2>7. Len(long) + 1 + Len(w) = Len(long) + 5
    BY <2>2, <2>6, SMT DEF LeadIsThere
  <2>8. SubSeq(o, Len(long) + 2, Len(long) + 5) = w
    BY <2>6, <2>7
  <2>9. TagReads(o, number, context, Number(SubSeq(o, Len(long) + 2, Len(long) + 5)),
              Len(long) + 5)
    <3>1. Outcomes(o, Len(long), number, context, five)
      BY <1>2, <2>6, TagIsRead
    <3> QED
      BY <1>3, <2>5, <2>6, <3>1 DEF Outcomes
  <2>10. tag \o u = o /\ Len(tag) = Len(long) + 5
    BY <2>1, <2>6, <2>7 DEF o
  <2> QED
    BY <2>3, <2>8, <2>9, <2>10 DEF TagReads, tag
<1> QED
  BY <1>1, <1>4, <1>6, <1>7, <1>8, SMT

-----------------------------------------------------------------------------
(* The headers of the network layer. *)

\* The networks there may be, 0 for none, and the addresses of their stations.
Network == {n \in Nat : n < 65536}
Station == {adr \in Seq(Int) : Len(adr) <= MAX_MAC_LEN}

IsAddress(a) == a = Address(a.mac, a.net, a.adr) /\ a.net \in Network /\ a.adr \in Station

\* The specifier of an address, if it is there, and what it is read as.
Part(present, a) == IF present THEN Specifier(a) ELSE <<>>
ReadAs(present, a, rest) ==
  [net |-> IF present THEN a.net ELSE 0,
   len |-> IF present THEN Len(a.adr) ELSE 0,
   adr |-> IF present THEN a.adr ELSE <<>>,
   rest |-> rest]

\* The octets of o after the first k that are those of t.
LEMMA Slice ==
  ASSUME NEW o \in Seq(Int), NEW k \in Nat, NEW t \in Seq(Int),
         k + Len(t) <= Len(o), \A i \in 1..Len(t) : o[k + i] = t[i]
  PROVE  SubSeq(o, k + 1, k + Len(t)) = t
<1> DEFINE m == k + 1
           n == k + Len(t)
           sub == SubSeq(o, m, n)
<1>1. /\ Len(t) \in Nat /\ Len(o) \in Nat /\ m \in Int /\ n \in Int
      /\ n - m + 1 = Len(t) /\ (IF m <= n THEN n - m + 1 ELSE 0) = Len(t)
      /\ m..n \subseteq 1..Len(o)
  BY SMT
<1>2. \A i \in m..n : o[i] \in Int
  BY <1>1, ElementOfSeq
<1>3. \A i \in 1..Len(t) : m + i - 1 = k + i
  BY SMT
<1> HIDE DEF m, n
<1>4. /\ sub \in Seq(Int) /\ Len(sub) = IF m <= n THEN n - m + 1 ELSE 0
      /\ \A i \in 1..(n - m + 1) : sub[i] = o[m + i - 1]
  BY <1>1, <1>2, SubSeqProperties
<1>5. Len(sub) = Len(t) /\ \A i \in 1..Len(t) : sub[i] = t[i]
  BY <1>1, <1>3, <1>4
<1> HIDE DEF sub
<1>6. sub = t
  BY <1>4, <1>5, SeqEqual
<1> QED
  BY <1>6 DEF sub, m, n

\* What comes after the octets s.
IsRest(s, t) == Rest(s \o t, Len(s)) = t

LEMMA RestIs ==
  ASSUME NEW s \in Seq(Int), NEW t \in Seq(Int)
  PROVE  IsRest(s, t)
<1> DEFINE o == s \o t
<1>1. Len(s) \in Nat /\ Len(t) \in Nat
  BY SMT
<1>2. o \in Seq(Int) /\ Len(o) = Len(s) + Len(t)
  BY SMT
<1>3. \A i \in 1..Len(t) : o[Len(s) + i] = t[i]
  BY <1>1, <1>2, SMT
<1> HIDE DEF o
<1>4. Len(s) + Len(t) <= Len(o)
  BY <1>1, <1>2, SMT
<1>5. SubSeq(o, Len(s) + 1, Len(s) + Len(t)) = t
  BY <1>1, <1>2, <1>3, <1>4, Slice
<1> QED
  BY <1>2, <1>5 DEF IsRest, Rest, o

\* Two sequences of octets in a row are one.
LEMMA Joined ==
  ASSUME NEW s \in Seq(Int), NEW t \in Seq(Int)
  PROVE  s \o t \in Seq(Int)
  BY SMT

\* Three may be put together in any order.
IsAssociative(s, t, u) == (s \o t) \o u = s \o (t \o u)

LEMMA Associative ==
  ASSUME NEW s \in Seq(Int), NEW t \in Seq(Int), NEW u \in Seq(Int)
  PROVE  IsAssociative(s, t, u)
BY SMT DEF IsAssociative

\* Five too.
IsRegrouped(a, b, c, d, e) == (((a \o b) \o c) \o d) \o e = a \o (b \o (c \o (d \o e)))

LEMMA FiveParts ==
  ASSUME NEW a \in Seq(Int), NEW b \in Seq(Int), NEW c \in Seq(Int), NEW d \in Seq(Int),
         NEW e \in Seq(Int)
  PROVE  IsRegrouped(a, b, c, d, e)
<1>1. d \o e \in Seq(Int) /\ a \o b \in Seq(Int)
  BY Joined
<1>2. c \o (d \o e) \in Seq(Int) /\ (a \o b) \o c \in Seq(Int)
  BY <1>1, Joined
<1>3. /\ IsAssociative((a \o b) \o c, d, e) /\ IsAssociative(a \o b, c, d \o e)
      /\ IsAssociative(a, b, c \o (d \o e))
  BY <1>1, <1>2, Associative
<1>4. QED BY <1>3, Zenon DEF IsAssociative, IsRegrouped

\* A specifier that is there, with its network in two octets.
LEMMA SpecifierIs ==
  ASSUME NEW a, IsAddress(a)
  PROVE  /\ a.adr \in Seq(Int) /\ Len(a.adr) \in 0..7
         /\ Octets(a.net, 2) \in Seq(Int) /\ Len(Octets(a.net, 2)) = 2
         /\ Number(Octets(a.net, 2)) = a.net
         /\ Specifier(a) = (Octets(a.net, 2) \o <<Len(a.adr)>>) \o a.adr
         /\ Specifier(a) \in Seq(Int)
<1>1. a.net \in Int /\ a.net \in Unsigned32 /\ a.net <= 65535
  BY SMT DEF IsAddress, Network, Unsigned32
<1>2. a.adr \in Seq(Int) /\ Len(a.adr) \in 0..7
  <2>1. a.adr \in Station
    BY DEF IsAddress
  <2>2. a.adr \in Seq(Int) /\ Len(a.adr) <= 7
    BY <2>1, Zenon DEF Station, MAX_MAC_LEN
  <2>3. Len(a.adr) \in Nat
    BY <2>2, LenProperties
  <2>4. \A k \in Nat : k <= 7 => k \in 0..7
    BY SMT
  <2> QED
    BY <2>2, <2>3, <2>4
<1>3. Octets(a.net, 2) \in Seq(Int) /\ Len(Octets(a.net, 2)) = 2
  BY <1>1, OctetsSeq
<1>4. Number(Octets(a.net, 2)) = a.net
  BY <1>1, NumberOfTwo
<1>5. Specifier(a) = (Octets(a.net, 2) \o <<Len(a.adr)>>) \o a.adr
  BY DEF Specifier
<1>6. (Octets(a.net, 2) \o <<Len(a.adr)>>) \o a.adr \in Seq(Int)
  <2> DEFINE w == Octets(a.net, 2)
  <2> HIDE DEF w
  <2>1. w \in Seq(Int)
    BY <1>3 DEF w
  <2>2. (w \o <<Len(a.adr)>>) \o a.adr \in Seq(Int)
    BY <2>1, <1>2, SMT
  <2> QED
    BY <2>2 DEF w
<1> QED
  BY <1>2, <1>3, <1>4, <1>5, <1>6

\* What is found in the octets o of a specifier and the rest.
IsSplit(o, w, adr, rest) ==
  /\ SubSeq(o, 1, 2) = w
  /\ o[3] = Len(adr)
  /\ SubSeq(o, 4, o[3] + 3) = adr
  /\ Rest(o, o[3] + 3) = rest

\* Octets of a specifier: two, the length, as many as it says, and the rest.
LEMMA Pieces ==
  ASSUME NEW w \in Seq(Int), Len(w) = 2, NEW adr \in Seq(Int), NEW rest \in Seq(Int)
  PROVE  IsSplit(((w \o <<Len(adr)>>) \o adr) \o rest, w, adr, rest)
<1> DEFINE n == Len(adr)
           head == w \o <<n>>
           o == (head \o adr) \o rest
<1>1. n \in Nat
  BY SMT
<1> HIDE DEF n
<1>2. /\ head \in Seq(Int) /\ Len(head) = 3
      /\ head[1] = w[1] /\ head[2] = w[2] /\ head[3] = n
  <2>1. <<n>> \in Seq(Int) /\ Len(<<n>>) = 1 /\ <<n>>[1] = n
    BY <1>1, SMT
  <2>2. /\ head \in Seq(Int) /\ Len(head) = Len(w) + Len(<<n>>)
        /\ \A i \in 1..(Len(w) + Len(<<n>>)) :
             head[i] = IF i <= Len(w) THEN w[i] ELSE <<n>>[i - Len(w)]
    BY <2>1, ConcatProperties
  <2>3. /\ head[1] = w[1] /\ head[2] = w[2] /\ head[3] = <<n>>[1]
    <3> DEFINE last == <<n>>
    <3>1. Len(w) + Len(last) = 3 /\ Len(w) = 2
      BY <2>1
    <3> HIDE DEF last, head
    <3> QED
      BY <2>2, <3>1, SMT DEF last
  <2> QED
    BY <2>1, <2>2, <2>3
<1> HIDE DEF head
<1>3. head \o adr \in Seq(Int) /\ Len(head \o adr) = n + 3
  <2>1. /\ head \o adr \in Seq(Int) /\ Len(head \o adr) = Len(head) + Len(adr)
    BY <1>2, ConcatProperties
  <2>2. Len(head) + Len(adr) = n + 3
    BY <1>1, <1>2, SMT DEF n
  <2> QED
    BY <2>1, <2>2
<1>4. /\ o \in Seq(Int) /\ Len(o) = Len(rest) + n + 3
      /\ o[1] = w[1] /\ o[2] = w[2] /\ o[3] = n
      /\ \A i \in 1..n : o[i + 3] = adr[i]
  <2>1. /\ Len(head) = 3 /\ Len(adr) = n /\ Len(rest) \in Nat
        /\ o \in Seq(Int) /\ Len(o) = Len(head) + Len(adr) + Len(rest)
        /\ \A i \in 1..Len(head) : o[i] = head[i]
        /\ \A i \in 1..Len(adr) : o[Len(head) + i] = adr[i]
    <3>1. Starts(head, adr, rest) /\ Len(rest) \in Nat
      BY <1>2, Start, LenProperties
    <3>2. QED BY <1>2, <3>1, Zenon DEF Starts, n, o
  <2> HIDE DEF o
  <2>2. Len(o) = Len(rest) + n + 3
    BY <1>1, <2>1, SMT
  <2>3. ASSUME NEW i \in 1..n PROVE o[i + 3] = adr[i]
    <3>1. i \in 1..Len(adr) /\ Len(head) + i = i + 3
      BY <1>1, <2>1, SMT
    <3>2. QED BY <2>1, <3>1
  <2>4. o[1] = head[1] /\ o[2] = head[2] /\ o[3] = head[3]
    BY <2>1, SMT
  <2> QED
    BY <1>2, <2>1, <2>2, <2>3, <2>4
<1> HIDE DEF o
<1>5. SubSeq(o, 1, 2) = w
  <2>1. \A i \in 1..2 : o[0 + i] = w[i]
    BY <1>4, SMT
  <2>2. 0 + Len(w) <= Len(o)
    BY <1>1, <1>4, SMT
  <2>3. SubSeq(o, 0 + 1, 0 + Len(w)) = w
    BY <1>4, <2>1, <2>2, Slice
  <2> QED
    BY <2>3
<1>6. SubSeq(o, 4, n + 3) = adr
  <2>1. \A i \in 1..Len(adr) : o[3 + i] = adr[i]
    BY <1>4, SMT DEF n
  <2>2. 3 + Len(adr) <= Len(o)
    BY <1>4, SMT DEF n
  <2>3. SubSeq(o, 3 + 1, 3 + Len(adr)) = adr
    BY <1>4, <2>1, <2>2, Slice
  <2>4. 3 + Len(adr) = n + 3
    BY <1>1, SMT DEF n
  <2> QED
    BY <2>3, <2>4
<1>7. Rest(o, n + 3) = rest
  <2>1. IsRest(head \o adr, rest)
    BY <1>3, RestIs
  <2> QED
    BY <1>3, <2>1 DEF IsRest, o
<1> QED
  BY <1>4, <1>5, <1>6, <1>7 DEF IsSplit, o, head, n

\* A specifier is read as what was written, and so is none.
LEMMA SpecifierIsRead ==
  ASSUME NEW present \in BOOLEAN, NEW a, IsAddress(a), NEW rest \in Seq(Int)
  PROVE  Specified(present, Part(present, a) \o rest) = ReadAs(present, a, rest)
<1>1. CASE ~present
  <2>1. <<>> \o rest = rest
    BY SMT
  <2> QED
    BY <1>1, <2>1 DEF Specified, Part, ReadAs
<1>2. CASE present
  <2> DEFINE w == Octets(a.net, 2)
             o == ((w \o <<Len(a.adr)>>) \o a.adr) \o rest
  <2>1. /\ a.adr \in Seq(Int) /\ w \in Seq(Int) /\ Len(w) = 2 /\ Number(w) = a.net
        /\ Part(present, a) \o rest = o
    BY <1>2, SpecifierIs DEF Part
  <2> HIDE DEF w
  <2>2. IsSplit(o, w, a.adr, rest)
    BY <2>1, Pieces
  <2> HIDE DEF o
  <2> QED
    BY <1>2, <2>1, <2>2 DEF Specified, ReadAs, IsSplit
<1> QED
  BY <1>1, <1>2
-----------------------------------------------------------------------------
(* What is decoded is what was encoded. *)

\* npdu_decode of an NPDU from the address dest is for to the one it is from.
IsDecoded(npdu, dest, src, mac, apdu) ==
  /\ ~npdu.networkLayerMessage
  /\ npdu.ok
  /\ npdu.dest.net = dest.net
  /\ HasDestination(dest) => npdu.dest.adr = dest.adr
  /\ npdu.src = IF HasSource(src) THEN Address(mac, src.net, src.adr) ELSE Received(mac)
  /\ npdu.apdu = apdu

\* The bits of the control octet.
LEMMA ControlBits ==
  ASSUME NEW d \in BOOLEAN, NEW s \in BOOLEAN, NEW e \in BOOLEAN
  PROVE  LET control == (IF d THEN 32 ELSE 0) + (IF s THEN 8 ELSE 0) + (IF e THEN 4 ELSE 0)
         IN /\ control \in Nat
            /\ Bit(control, 32) = d /\ Bit(control, 8) = s /\ ~Bit(control, 128)
  BY SMT DEF Bit

\* What is found at the start of the octets o.
Begins(o, v, c, rest) == o[1] = v /\ o[2] = c /\ Rest(o, 2) = rest

LEMMA TwoOctets ==
  ASSUME NEW v \in Int, NEW c \in Int
  PROVE  <<v, c>> \in Seq(Int) /\ Len(<<v, c>>) = 2 /\ <<v, c>>[1] = v /\ <<v, c>>[2] = c
BY SMT

LEMMA BeginsWith ==
  ASSUME NEW first \in Seq(Int), NEW v, NEW c, Len(first) = 2, first[1] = v, first[2] = c,
         NEW rest \in Seq(Int)
  PROVE  Begins(first \o rest, v, c, rest)
<1>1. IsRest(first, rest)
  BY RestIs
<1>2. Rest(first \o rest, 2) = rest
  BY <1>1 DEF IsRest
<1>3. (first \o rest)[1] = v /\ (first \o rest)[2] = c
  <2>1. Len(rest) \in Nat
    BY LenProperties
  <2>2. 1 \in 1..(2 + Len(rest)) /\ 2 \in 1..(2 + Len(rest)) /\ 1 <= 2 /\ 2 <= 2
    BY <2>1, SMT
  <2>3. \A i \in 1..(Len(first) + Len(rest)) :
          (first \o rest)[i] = IF i <= Len(first) THEN first[i] ELSE rest[i - Len(first)]
    BY ConcatProperties
  <2> QED
    BY <2>2, <2>3
<1> QED
  BY <1>2, <1>3 DEF Begins

\* The header and the APDU, one part after the other.
LEMMA Parts ==
  ASSUME NEW d \in Seq(Int), NEW s \in Seq(Int), NEW h \in Seq(Int), NEW u \in Seq(Int),
         NEW v \in Int, NEW c \in Int
  PROVE  Begins((((<<v, c>> \o d) \o s) \o h) \o u, v, c, d \o (s \o (h \o u)))
<1>1. PICK first : first = <<v, c>>
  OBVIOUS
<1>2. first \in Seq(Int) /\ Len(first) = 2 /\ first[1] = v /\ first[2] = c
  BY <1>1, TwoOctets
<1>3. PICK rest : rest = d \o (s \o (h \o u))
  OBVIOUS
<1>4. rest \in Seq(Int) /\ (((first \o d) \o s) \o h) \o u = first \o rest
  <2>1. d \o (s \o (h \o u)) \in Seq(Int)
    BY Joined
  <2>2. IsRegrouped(first, d, s, h, u)
    BY <1>2, FiveParts
  <2>3. QED BY <1>3, <2>1, <2>2, Zenon DEF IsRegrouped
<1>5. Begins(first \o rest, v, c, rest)
  BY <1>2, <1>4, BeginsWith
<1> QED
  BY <1>1, <1>3, <1>4, <1>5, Zenon

\* npdu_decode gives back the network and the station an NPDU is for and from,
\* and the APDU, whatever the datalink said of the sender but its address, and
\* however many octets the parts of the header took (src/npdu.c).
THEOREM NpduRoundTrip ==
  ASSUME NEW dest, IsAddress(dest), NEW src, IsAddress(src), NEW mac,
         NEW expectingReply \in BOOLEAN, NEW apdu \in Seq(Int)
  PROVE  IsDecoded(DecodeNpdu(EncodeNpdu(dest, src, expectingReply) \o apdu, Received(mac)),
                   dest, src, mac, apdu)
<1> DEFINE d == HasDestination(dest)
           s == HasSource(src)
           control == (IF d THEN 32 ELSE 0) + (IF s THEN 8 ELSE 0)
                        + (IF expectingReply THEN 4 ELSE 0)
           hops == IF d THEN <<HOP_COUNT_DEFAULT>> ELSE <<>>
           forWhom == Part(d, dest)
           fromWhom == Part(s, src)
           after == hops \o apdu
           middle == fromWhom \o after
           o == (((<<BACNET_PROTOCOL_VERSION, control>> \o forWhom) \o fromWhom) \o hops)
                  \o apdu
           to == ReadAs(d, dest, middle)
           from == ReadAs(s, src, after)
<1>1. d \in BOOLEAN /\ s \in BOOLEAN
  BY DEF HasDestination, HasSource
<1>2. /\ control \in Nat
      /\ Bit(control, 32) = d /\ Bit(control, 8) = s /\ ~Bit(control, 128)
  BY <1>1, ControlBits
<1>3. forWhom \in Seq(Int) /\ fromWhom \in Seq(Int)
  BY SpecifierIs, EmptySeq DEF Part
<1>4. hops \in Seq(Int)
  BY SMT DEF HOP_COUNT_DEFAULT
<1>5. EncodeNpdu(dest, src, expectingReply) \o apdu = o
  BY DEF EncodeNpdu, Part
<1>6. Rest(after, IF d THEN 1 ELSE 0) = apdu
  <2>1. IsRest(hops, apdu)
    BY <1>4, RestIs
  <2>2. Len(hops) = IF d THEN 1 ELSE 0
    BY SMT
  <2> HIDE DEF hops, d
  <2> QED
    BY <2>1, <2>2 DEF IsRest
<1>7. control \in Int /\ BACNET_PROTOCOL_VERSION \in Int
  BY <1>2, SMT DEF BACNET_PROTOCOL_VERSION
<1> HIDE DEF control, hops, forWhom, fromWhom
<1>8. Begins(o, BACNET_PROTOCOL_VERSION, control, forWhom \o middle)
  BY <1>3, <1>4, <1>7, Parts
<1>9. after \in Seq(Int)
  BY <1>4, Joined
<1> HIDE DEF o, after
<1>10. middle \in Seq(Int)
  BY <1>3, <1>9, Joined
<1> HIDE DEF d, s, middle
<1>11. Specified(d, forWhom \o middle) = to
  BY <1>1, <1>10, SpecifierIsRead DEF forWhom
<1>12. Specified(s, middle) = from
  BY <1>1, <1>9, SpecifierIsRead DEF middle, fromWhom
<1>13. /\ to.rest = middle /\ to.net = (IF d THEN dest.net ELSE 0)
       /\ to.adr = (IF d THEN dest.adr ELSE <<>>)
       /\ to.len = (IF d THEN Len(dest.adr) ELSE 0)
  BY DEF ReadAs
<1>14. /\ from.rest = after /\ from.net = (IF s THEN src.net ELSE 0)
       /\ from.adr = (IF s THEN src.adr ELSE <<>>)
       /\ from.len = (IF s THEN Len(src.adr) ELSE 0)
  BY DEF ReadAs
<1>15. to.len <= MAX_MAC_LEN /\ from.len <= MAX_MAC_LEN
  <2>1. Len(dest.adr) \in 0..7 /\ Len(src.adr) \in 0..7
    BY SpecifierIs
  <2>2. \A k \in 0..7 : k <= 7
    BY SMT
  <2>3. 0 <= 7
    BY SMT
  <2> QED
    BY <1>13, <1>14, <2>1, <2>2, <2>3 DEF MAX_MAC_LEN
<1> HIDE DEF to, from
<1> DEFINE npdu == DecodeNpdu(o, Received(mac))
<1>16. /\ ~npdu.networkLayerMessage
       /\ npdu.ok = TRUE
       /\ npdu.dest = Address(<<>>, to.net, to.adr)
       /\ npdu.src = Address(mac, from.net, from.adr)
       /\ npdu.apdu = Rest(from.rest, Hops(to))
  <2>1. o[2] = control /\ Rest(o, 2) = forWhom \o middle
    BY <1>8 DEF Begins
  <2>2. /\ ~Bit(o[2], 128)
        /\ Specified(Bit(o[2], 32), Rest(o, 2)) = to
        /\ Specified(Bit(o[2], 8), to.rest) = from
    BY <1>2, <1>11, <1>12, <1>13, <2>1
  <2>3. Received(mac).mac = mac /\ Received(mac).net # BACNET_BROADCAST_NETWORK
    BY SMT DEF Received, Address, BACNET_BROADCAST_NETWORK
  <2> QED
    BY <1>15, <2>2, <2>3 DEF DecodeNpdu
<1>17. Hops(to) = IF d THEN 1 ELSE 0
  BY <1>13 DEF Hops, d, HasDestination
<1>18. npdu.apdu = apdu
  BY <1>6, <1>14, <1>16, <1>17
<1>19. npdu.dest.net = dest.net /\ (d => npdu.dest.adr = dest.adr)
  BY <1>13, <1>16 DEF Address, d, HasDestination
<1>20. npdu.src = IF s THEN Address(mac, src.net, src.adr) ELSE Received(mac)
  BY <1>14, <1>16 DEF Received
<1> HIDE DEF npdu
<1>21. IsDecoded(npdu, dest, src, mac, apdu)
  BY <1>16, <1>18, <1>19, <1>20 DEF IsDecoded, d, s
<1> QED
  BY <1>5, <1>21 DEF npdu
-----------------------------------------------------------------------------
(* The way back. *)

\* The station of a client: on the subnet of the server, or in another network.
IsClient(c) == IsAddress(c) /\ c.mac # <<>> /\ c.net # BACNET_BROADCAST_NETWORK
                /\ (c.net = 0 <=> c.adr = <<>>)

\* The reply to the address a request came from is sent to the router the
\* request came by, and is for the network and the station of the client and
\* nobody else; the handlers see the APDU of the client and the client sees
\* theirs (src/npdu.c, src/bvlc.c, main/handler/h_npdu.c).
THEOREM RepliesGoBack ==
  ASSUME NEW client, IsClient(client), NEW server,
         NEW expectingReply \in BOOLEAN, NEW request \in Seq(Int), NEW reply \in Seq(Int)
  PROVE  LET asked == DecodeNpdu(EncodeNpdu(MyAddress(server), client, expectingReply)
                                   \o request, Received(client.mac))
             sent == SendPdu(asked.src, EncodeNpdu(asked.src, MyAddress(server), FALSE) \o reply)
             told == DecodeNpdu(sent.octets, Received(server))
         IN /\ asked.src = client /\ asked.apdu = request
            /\ sent.kind = "unicast" /\ sent.mac = client.mac
            /\ told.dest.net = client.net /\ (client.net # 0 => told.dest.adr = client.adr)
            /\ told.apdu = reply
<1> DEFINE me == MyAddress(server)
           asked == DecodeNpdu(EncodeNpdu(me, client, expectingReply) \o request,
                               Received(client.mac))
           sent == SendPdu(asked.src, EncodeNpdu(asked.src, me, FALSE) \o reply)
           told == DecodeNpdu(EncodeNpdu(client, me, FALSE) \o reply, Received(server))
<1>1. IsAddress(client) /\ IsAddress(me) /\ ~HasSource(me)
  <2>1. me = Address(server, 0, <<>>)
    BY DEF MyAddress
  <2>2. 0 \in Network
    BY SMT DEF Network
  <2>3. <<>> \in Station
    BY SMT DEF Station, MAX_MAC_LEN
  <2>4. me.mac = server /\ me.net = 0 /\ me.adr = <<>>
    BY <2>1 DEF Address
  <2> HIDE DEF me
  <2> QED
    BY <2>1, <2>2, <2>3, <2>4 DEF IsAddress, IsClient, HasSource
<1> HIDE DEF me
<1>2. IsDecoded(asked, me, client, client.mac, request)
  BY <1>1, NpduRoundTrip
<1>3. IsDecoded(told, client, me, server, reply)
  BY <1>1, NpduRoundTrip
<1> HIDE DEF asked, told
<1>4. asked.src = client
  <2>1. client = Address(client.mac, client.net, client.adr)
    BY <1>1 DEF IsAddress
  <2>2. CASE HasSource(client)
    BY <1>2, <2>1, <2>2 DEF IsDecoded
  <2>3. CASE ~HasSource(client)
    BY <1>2, <2>1, <2>3 DEF IsDecoded, HasSource, Received, IsClient
  <2> QED
    BY <2>2, <2>3
<1>5. /\ sent.kind = "unicast" /\ sent.mac = client.mac
      /\ sent.octets = EncodeNpdu(client, me, FALSE) \o reply
  <2>1. ~(client.net > 0 /\ client.adr = <<>>)
    BY SMT DEF IsClient
  <2> QED
    BY <1>4, <2>1 DEF SendPdu, IsClient
<1>6. asked.apdu = request
  BY <1>2 DEF IsDecoded
<1>7. /\ told.dest.net = client.net /\ (client.net # 0 => told.dest.adr = client.adr)
      /\ told.apdu = reply
  BY <1>3 DEF IsDecoded, HasDestination
<1> QED
  BY <1>4, <1>5, <1>6, <1>7 DEF asked, told, me
-----------------------------------------------------------------------------
(* The device: its properties, its name, and the loops that write them.    *)

\* The device has the properties device.c has variables for.
IsComplete(d) == d = [p \in Stored |-> d[p]]

\* No sensor of s has the name of the device.
HasOwnName(d, s) == \A i \in DOMAIN s : s[i].name # d[PROP_OBJECT_NAME]

\* r is what the loops do in their first n rounds.
IsRun(r, n, start, s) ==
  /\ r = [i \in 0..n |-> r[i]]
  /\ r[0] = start
  /\ \A i \in 0..n : i # 0 => r[i] = Round(r[i - 1], s)

\* There is one, however many rounds there are.
LEMMA RunsExist ==
  ASSUME NEW start, NEW s, NEW n \in Nat
  PROVE  \E r : IsRun(r, n, start, s)
<1> DEFINE Missing == {k \in Nat : ~ \E r : IsRun(r, k, start, s)}
<1>1. SUFFICES Missing = {}
  OBVIOUS
<1>2. SUFFICES ASSUME Missing # {} PROVE FALSE
  OBVIOUS
<1>3. PICK k \in Missing : \A j \in Missing : k <= j
  BY <1>2, LeastNatural
<1>4. CASE k = 0
  <2>1. IsRun([i \in 0..0 |-> start], 0, start, s)
    BY DEF IsRun
  <2>2. QED BY <1>4, <2>1
<1>5. CASE k # 0
  <2>1. k - 1 \in Nat /\ k - 1 \notin Missing
    BY <1>3, <1>5
  <2>2. PICK r : IsRun(r, k - 1, start, s)
    BY <2>1
  <2> DEFINE q == [i \in 0..k |-> IF i = k THEN Round(r[k - 1], s) ELSE r[i]]
  <2>3. q = [i \in 0..k |-> q[i]] /\ q[0] = start
    BY <1>5, <2>2 DEF IsRun
  <2>4. ASSUME NEW i \in 0..k, i # 0 PROVE q[i] = Round(q[i - 1], s)
    <3>1. i - 1 \in 0..k /\ i - 1 # k /\ q[i - 1] = r[i - 1]
      BY <1>5, <2>1, <2>4
    <3>2. CASE i = k
      BY <3>1, <3>2
    <3>3. CASE i # k
      <4>1. i \in 0..(k - 1) /\ q[i] = r[i]
        BY <2>1, <3>3
      <4>2. r[i] = Round(r[i - 1], s)
        BY <2>2, <2>4, <4>1 DEF IsRun
      <4>3. QED BY <3>1, <4>1, <4>2
    <3>4. QED BY <3>2, <3>3
  <2>5. IsRun(q, k, start, s)
    BY <2>3, <2>4 DEF IsRun
  <2>6. QED BY <2>5
<1>6. QED BY <1>4, <1>5

\* A longer run begins as a shorter one.
LEMMA RunsAgree ==
  ASSUME NEW start, NEW s, NEW n \in Nat, NEW m \in Nat, NEW r, NEW q,
         IsRun(r, n, start, s), IsRun(q, m, start, s), NEW i \in Nat, i <= n, i <= m
  PROVE  r[i] = q[i]
<1> DEFINE Apart == {j \in Nat : j <= n /\ j <= m /\ r[j] # q[j]}
<1>1. SUFFICES ASSUME Apart # {} PROVE FALSE
  OBVIOUS
<1>2. PICK k \in Apart : \A j \in Apart : k <= j
  BY <1>1, LeastNatural
<1>3. k # 0
  BY <1>2 DEF IsRun
<1>4. k - 1 \in Nat /\ k - 1 \notin Apart
  BY <1>2, <1>3
<1>5. r[k - 1] = q[k - 1]
  BY <1>2, <1>4
<1>6. r[k] = Round(r[k - 1], s) /\ q[k] = Round(q[k - 1], s)
  <2>1. k \in 0..n /\ k \in 0..m
    BY <1>2
  <2>2. QED BY <2>1, <1>3 DEF IsRun
<1>7. QED BY <1>2, <1>5, <1>6

\* So that Rounds is what its definition says: every round follows the one before.
LEMMA RoundsAre ==
  ASSUME NEW start, NEW s
  PROVE  /\ Rounds(start, s)[0] = start
         /\ \A n \in Nat : Rounds(start, s)[n + 1] = Round(Rounds(start, s)[n], s)
<1> DEFINE Run(n) == CHOOSE r : IsRun(r, n, start, s)
           f == [n \in Nat |-> Run(n)[n]]
           Recursive(g) == g = [n \in Nat |-> IF n = 0 THEN start ELSE Round(g[n - 1], s)]
<1>1. \A n \in Nat : IsRun(Run(n), n, start, s)
  BY RunsExist
<1>2. ASSUME NEW n \in Nat
      PROVE  f[n] = IF n = 0 THEN start ELSE Round(f[n - 1], s)
  <2> HIDE DEF Run
  <2>1. CASE n = 0
    BY <1>1, <2>1 DEF IsRun
  <2>2. CASE n # 0
    <3>1. n - 1 \in Nat /\ n - 1 <= n
      BY <2>2
    <3>2. Run(n)[n] = Round(Run(n)[n - 1], s)
      BY <1>1, <2>2 DEF IsRun
    <3>3. Run(n)[n - 1] = Run(n - 1)[n - 1]
      BY <1>1, <3>1, RunsAgree
    <3>4. QED BY <2>2, <3>1, <3>2, <3>3
  <2>3. QED BY <2>1, <2>2
<1>3. Recursive(f)
  <2> HIDE DEF Run
  <2>1. \A n \in Nat : n # 0 => n - 1 \in Nat
    OBVIOUS
  <2> QED BY <1>2, <2>1
<1>4. Rounds(start, s) = CHOOSE g : Recursive(g)
  BY DEF Rounds
<1>5. Recursive(Rounds(start, s))
  <2> HIDE DEF f, Recursive
  <2> QED BY <1>3, <1>4
<1>6. QED
  <2> HIDE DEF f
  <2> DEFINE g == Rounds(start, s)
  <2>1. g = [n \in Nat |-> IF n = 0 THEN start ELSE Round(g[n - 1], s)]
    BY <1>5
  <2> HIDE DEF g
  <2>2. g[0] = start
    BY <2>1
  <2>3. ASSUME NEW n \in Nat PROVE g[n + 1] = Round(g[n], s)
    <3>1. n + 1 \in Nat /\ n + 1 # 0 /\ (n + 1) - 1 = n
      OBVIOUS
    <3>2. g[n + 1] = Round(g[(n + 1) - 1], s)
      BY <2>1, <3>1
    <3>3. QED BY <3>1, <3>2
  <2>4. QED BY <2>2, <2>3 DEF g
-----------------------------------------------------------------------------
(* The names of the objects. *)

\* The Object_List has the device and the sensors (Device_Object_List_Count).
LEMMA ListDomain ==
  ASSUME NEW d, NEW s \in Seq(Sensor)
  PROVE  DOMAIN ObjectList(d, s) = 1..(Len(s) + 1)
  BY DEF ObjectList

\* A name is accepted if it is the device's own or no sensor has it.
LEMMA NameIsAccepted ==
  ASSUME NEW d, NEW s \in Seq(Sensor), NEW name
  PROVE  NameObjection(d, s, name) = <<>>
           <=> \/ d[PROP_OBJECT_NAME] = name
               \/ \A i \in DOMAIN s : s[i].name # name
<1>1. DOMAIN ObjectList(d, s) = 1..(Len(s) + 1) /\ Len(s) \in Nat
  BY ListDomain
<1>2. 1 \in PlacesNamed(d, s, name) <=> d[PROP_OBJECT_NAME] = name
  BY <1>1 DEF PlacesNamed, NameOf
<1>3. ASSUME NEW i \in 1..Len(s)
      PROVE  i + 1 \in PlacesNamed(d, s, name) <=> s[i].name = name
  <2>1. i + 1 \in 1..(Len(s) + 1) /\ i + 1 # 1 /\ (i + 1) - 1 = i
    BY <1>1
  <2>2. NameOf(d, s, i + 1) = s[i].name
    BY <2>1 DEF NameOf
  <2>3. QED BY <1>1, <2>1, <2>2 DEF PlacesNamed
<1>4. ASSUME NEW j \in PlacesNamed(d, s, name), j # 1
      PROVE  j - 1 \in 1..Len(s) /\ s[j - 1].name = name
  BY <1>1, <1>4 DEF PlacesNamed, NameOf
<1>5. PlacesNamed(d, s, name) = {}
        <=> d[PROP_OBJECT_NAME] # name /\ \A i \in 1..Len(s) : s[i].name # name
  <2>1. ASSUME PlacesNamed(d, s, name) = {}
        PROVE  d[PROP_OBJECT_NAME] # name /\ \A i \in 1..Len(s) : s[i].name # name
    BY <1>2, <1>3, <2>1
  <2>2. ASSUME d[PROP_OBJECT_NAME] # name, \A i \in 1..Len(s) : s[i].name # name
        PROVE  PlacesNamed(d, s, name) = {}
    BY <1>2, <1>4, <2>2
  <2>3. QED BY <2>1, <2>2
<1>6. NameObjection(d, s, name) = <<>>
        <=> PlacesNamed(d, s, name) = {} \/ 1 \in PlacesNamed(d, s, name)
  BY DEF NameObjection
<1>7. DOMAIN s = 1..Len(s)
  OBVIOUS
<1>8. QED BY <1>2, <1>5, <1>6, <1>7

\* So that devices that have names of their own accept the same names.
LEMMA SameNamesAreAccepted ==
  ASSUME NEW a, NEW b, NEW s \in Seq(Sensor), HasOwnName(a, s), HasOwnName(b, s),
         NEW name
  PROVE  NameObjection(a, s, name) = NameObjection(b, s, name)
<1>1. ASSUME NEW d, HasOwnName(d, s)
      PROVE  NameObjection(d, s, name) = <<>> <=> \A i \in DOMAIN s : s[i].name # name
  <2>1. NameObjection(d, s, name) = <<>>
          <=> \/ d[PROP_OBJECT_NAME] = name
              \/ \A i \in DOMAIN s : s[i].name # name
    BY NameIsAccepted
  <2>2. d[PROP_OBJECT_NAME] = name => \A i \in DOMAIN s : s[i].name # name
    BY <1>1 DEF HasOwnName
  <2>3. QED BY <2>1, <2>2
<1>2. \A d : NameObjection(d, s, name) \in {<<>>, <<"PROPERTY", "DUPLICATE_NAME">>}
  BY DEF NameObjection
<1>3. NameObjection(a, s, name) = <<>> <=> NameObjection(b, s, name) = <<>>
  BY <1>1
<1>4. QED BY <1>2, <1>3
-----------------------------------------------------------------------------
(* A write. *)

\* What a write that is accepted leaves.
LEMMA WhatIsWritten ==
  ASSUME NEW d, IsComplete(d), NEW s, NEW w,
         Objection(d, s, w, DecodeApplicationData(w.value)) = <<>>
  PROVE  LET data == Narrowed(w.property, DecodeApplicationData(w.value).data)
             after == WriteLocal(d, s, w)
         IN /\ w.property \in Stored \ {PROP_DATABASE_REVISION}
            /\ after.error = <<>>
            /\ IsComplete(after.device)
            /\ after.device[w.property] = data
            /\ \A p \in Stored \ {w.property, PROP_DATABASE_REVISION} :
                 after.device[p] = d[p]
<1> DEFINE v == DecodeApplicationData(w.value)
<1>1. w.property \in Stored /\ w.property \notin Denied
  BY DEF Objection
<1>2. w.property # PROP_DATABASE_REVISION
  BY <1>1 DEF Denied
<1> DEFINE x == Narrowed(w.property, v.data)
           y == IF Renames(d, w.property, v.data) THEN <<d[PROP_DATABASE_REVISION][1] + 1>>
                ELSE d[PROP_DATABASE_REVISION]
           e == [d EXCEPT ![w.property] = x, ![PROP_DATABASE_REVISION] = y]
<1>3. PROP_DATABASE_REVISION \in Stored /\ DOMAIN d = Stored
  BY DEF Stored, IsComplete
<1>4. WriteLocal(d, s, w) = Granted(e)
  BY <1>1, <1>2, <1>3 DEF WriteLocal
<1> HIDE DEF x, y, v
<1>5. /\ DOMAIN e = Stored
      /\ e[w.property] = x
      /\ \A p \in Stored \ {w.property, PROP_DATABASE_REVISION} : e[p] = d[p]
  BY <1>1, <1>2, <1>3
<1>6. e = [p \in DOMAIN e |-> e[p]]
  OBVIOUS
<1> HIDE DEF e
<1>7. QED BY <1>1, <1>2, <1>4, <1>5, <1>6 DEF IsComplete, Granted, x, v

\* A write that is not accepted leaves the device as it is.
LEMMA WhatIsRefused ==
  ASSUME NEW d, NEW s, NEW w
  PROVE  Objection(d, s, w, DecodeApplicationData(w.value)) # <<>> =>
           /\ WriteLocal(d, s, w).device = d
           /\ WriteLocal(d, s, w).error = Objection(d, s, w, DecodeApplicationData(w.value))
  BY DEF WriteLocal, Refused

\* What is not the device's cannot be written (Analog_Input_Write_Property).
LEMMA ElsewhereIsRefused ==
  ASSUME NEW d, NEW s, NEW w, ~IsDevice(d, w.object)
  PROVE  /\ WriteProperty(d, s, w).device = d
         /\ WriteProperty(d, s, w).error =
              IF IsSensor(s, w.object) THEN SensorObjection(w, DecodeApplicationData(w.value))
              ELSE <<"OBJECT", "UNKNOWN_OBJECT">>
  BY DEF WriteProperty, Refused

\* What is the device's is not a sensor's.
LEMMA OwnIsWritten ==
  ASSUME NEW d, NEW s, NEW w, IsDevice(d, w.object)
  PROVE  WriteProperty(d, s, w) = WriteLocal(d, s, w)
<1>1. ~IsSensor(s, w.object)
  BY DEF IsDevice, IsSensor, OBJECT_DEVICE, OBJECT_ANALOG_INPUT
<1>2. QED BY <1>1 DEF WriteProperty

\* The name is kept as it is sent.
LEMMA NameIsKept ==
  ASSUME NEW data
  PROVE  Narrowed(PROP_OBJECT_NAME, data) = data
<1>1. /\ PROP_OBJECT_NAME # PROP_NUMBER_OF_APDU_RETRIES
      /\ PROP_OBJECT_NAME \notin {PROP_APDU_TIMEOUT, PROP_VENDOR_IDENTIFIER}
      /\ PROP_OBJECT_NAME \notin Texts \ {PROP_OBJECT_NAME}
  BY DEF PROP_OBJECT_NAME, PROP_NUMBER_OF_APDU_RETRIES, PROP_APDU_TIMEOUT,
         PROP_VENDOR_IDENTIFIER
<1>2. QED BY <1>1 DEF Narrowed

\* A name is written only if the device may have it.
LEMMA WrittenNameIsAccepted ==
  ASSUME NEW d, NEW s, NEW w, NEW v, Objection(d, s, w, v) = <<>>,
         w.property = PROP_OBJECT_NAME
  PROVE  NameObjection(d, s, v.data) = <<>>
<1>1. /\ PROP_OBJECT_NAME # PROP_OBJECT_IDENTIFIER
      /\ PROP_OBJECT_NAME # PROP_SYSTEM_STATUS
      /\ PROP_OBJECT_NAME \in Texts
  BY DEF PROP_OBJECT_NAME, PROP_OBJECT_IDENTIFIER, PROP_SYSTEM_STATUS, Texts
<1>2. QED BY <1>1 DEF Objection

\* Whatever is written, the device keeps its properties and a name of its own
\* (Device_Write_Property, device.c).
LEMMA WriteKeeps ==
  ASSUME NEW d, NEW s \in Seq(Sensor), NEW w, IsComplete(d)
  PROVE  /\ IsComplete(WriteProperty(d, s, w).device)
         /\ HasOwnName(d, s) => HasOwnName(WriteProperty(d, s, w).device, s)
<1> DEFINE v == DecodeApplicationData(w.value)
           after == WriteProperty(d, s, w)
<1>1. CASE after.device = d
  BY <1>1
<1>2. CASE IsDevice(d, w.object) /\ Objection(d, s, w, v) = <<>>
  <2>1. /\ IsComplete(after.device)
        /\ after.device[w.property] = Narrowed(w.property, v.data)
        /\ \A p \in Stored \ {w.property, PROP_DATABASE_REVISION} : after.device[p] = d[p]
    BY <1>2, OwnIsWritten, WhatIsWritten
  <2>2. CASE w.property = PROP_OBJECT_NAME
    <3>1. after.device[PROP_OBJECT_NAME] = v.data
      BY <2>1, <2>2, NameIsKept
    <3>2. NameObjection(d, s, v.data) = <<>>
      BY <1>2, <2>2, WrittenNameIsAccepted
    <3>3. HasOwnName(d, s) => \A i \in DOMAIN s : s[i].name # v.data
      BY <3>2, NameIsAccepted DEF HasOwnName
    <3>4. QED BY <2>1, <3>1, <3>3 DEF HasOwnName
  <2>3. CASE w.property # PROP_OBJECT_NAME
    <3>1. PROP_OBJECT_NAME \in Stored /\ PROP_OBJECT_NAME # PROP_DATABASE_REVISION
      BY DEF Stored, Texts, PROP_OBJECT_NAME, PROP_DATABASE_REVISION
    <3>2. QED BY <2>1, <2>3, <3>1 DEF HasOwnName
  <2>4. QED BY <2>2, <2>3
<1>3. QED
  <2>1. CASE ~IsDevice(d, w.object)
    BY <1>1, <2>1, ElsewhereIsRefused
  <2>2. CASE IsDevice(d, w.object) /\ Objection(d, s, w, v) # <<>>
    BY <1>1, <2>2, OwnIsWritten, WhatIsRefused
  <2>3. QED BY <1>2, <2>1, <2>2
-----------------------------------------------------------------------------
(* Two devices that a client cannot tell apart by what they accept: with    *)
(* names of their own, or one and the same.                                *)

Alike(a, b, s, named) ==
  /\ IsComplete(a) /\ IsComplete(b)
  /\ a[PROP_OBJECT_IDENTIFIER] = b[PROP_OBJECT_IDENTIFIER]
  /\ IF named THEN HasOwnName(a, s) /\ HasOwnName(b, s) ELSE a = b

\* The properties of b that are not those of a are still the ones of c.
EqualOr(a, b, c) ==
  \A p \in Stored \ {PROP_DATABASE_REVISION} : a[p] = b[p] \/ b[p] = c[p]

\* Both refuse the same writes, for the same reason.
LEMMA SameObjection ==
  ASSUME NEW s \in Seq(Sensor), NEW named \in BOOLEAN, NEW a, NEW b,
         Alike(a, b, s, named), NEW w, NEW v
  PROVE  Objection(a, s, w, v) = Objection(b, s, w, v)
<1>1. CASE named
  <2>1. NameObjection(a, s, v.data) = NameObjection(b, s, v.data)
    BY <1>1, SameNamesAreAccepted DEF Alike
  <2>2. QED BY <2>1 DEF Objection
<1>2. CASE ~named
  BY <1>2 DEF Alike
<1>3. QED BY <1>1, <1>2

\* The same write has the same effect on both (Device_Write_Property).
LEMMA SameWrite ==
  ASSUME NEW s \in Seq(Sensor), NEW named \in BOOLEAN, NEW a, NEW b, NEW c, NEW w,
         Alike(a, b, s, named), EqualOr(a, b, c)
  PROVE  LET x == WriteProperty(a, s, w)
             y == WriteProperty(b, s, w)
         IN /\ x.error = y.error
            /\ Alike(x.device, y.device, s, named)
            /\ EqualOr(x.device, y.device, c)
<1> DEFINE v == DecodeApplicationData(w.value)
           x == WriteProperty(a, s, w)
           y == WriteProperty(b, s, w)
<1>1. /\ IsComplete(x.device) /\ IsComplete(y.device)
      /\ IF named THEN HasOwnName(x.device, s) /\ HasOwnName(y.device, s)
                  ELSE x.device = y.device
  BY WriteKeeps DEF Alike
<1>2. IsDevice(a, w.object) <=> IsDevice(b, w.object)
  BY DEF Alike, IsDevice
<1>3. Objection(a, s, w, v) = Objection(b, s, w, v)
  BY SameObjection
<1>4. CASE IsDevice(a, w.object) /\ Objection(a, s, w, v) = <<>>
  <2> DEFINE data == Narrowed(w.property, v.data)
  <2>1. /\ w.property \in Stored \ {PROP_DATABASE_REVISION}
        /\ x.error = <<>>
        /\ x.device[w.property] = data
        /\ \A p \in Stored \ {w.property, PROP_DATABASE_REVISION} : x.device[p] = a[p]
    BY <1>4, OwnIsWritten, WhatIsWritten DEF Alike
  <2>2. /\ y.error = <<>>
        /\ y.device[w.property] = data
        /\ \A p \in Stored \ {w.property, PROP_DATABASE_REVISION} : y.device[p] = b[p]
    <3>1. IsDevice(b, w.object) /\ Objection(b, s, w, v) = <<>> /\ IsComplete(b)
      BY <1>2, <1>3, <1>4 DEF Alike
    <3>2. QED BY <3>1, OwnIsWritten, WhatIsWritten
  <2>3. PROP_OBJECT_IDENTIFIER \in Stored \ {PROP_DATABASE_REVISION}
    BY DEF Stored, PROP_OBJECT_IDENTIFIER, PROP_DATABASE_REVISION
  <2> HIDE DEF data, x, y
  <2>4. x.device[PROP_OBJECT_IDENTIFIER] = y.device[PROP_OBJECT_IDENTIFIER]
    BY <2>1, <2>2, <2>3 DEF Alike
  <2>5. EqualOr(x.device, y.device, c)
    BY <2>1, <2>2 DEF EqualOr
  <2>6. QED BY <1>1, <2>1, <2>2, <2>4, <2>5 DEF Alike, x, y
<1>5. CASE ~ (IsDevice(a, w.object) /\ Objection(a, s, w, v) = <<>>)
  <2>1. x.device = a /\ y.device = b /\ x.error = y.error
    <3>1. CASE IsDevice(a, w.object)
      BY <1>2, <1>3, <1>5, <3>1, OwnIsWritten, WhatIsRefused
    <3>2. CASE ~IsDevice(a, w.object)
      BY <1>2, <3>2, ElsewhereIsRefused
    <3>3. QED BY <3>1, <3>2
  <2>2. QED BY <2>1
<1>6. QED BY <1>4, <1>5
-----------------------------------------------------------------------------
(* The loops of WritePropertyMultiple. *)

\* The loops have got to the same place on devices that are alike.
InStep(l, m, s, c, named) ==
  /\ l = Position(l.device, l.object, l.rest, l.reply)
  /\ m = Position(m.device, l.object, l.rest, l.reply)
  /\ Alike(l.device, m.device, s, named)
  /\ EqualOr(l.device, m.device, c)

\* Any place of the loops is the same place on both.
LEMMA PositionsInStep ==
  ASSUME NEW s, NEW c, NEW named \in BOOLEAN, NEW a, NEW b,
         Alike(a, b, s, named), EqualOr(a, b, c), NEW object, NEW rest, NEW reply
  PROVE  InStep(Position(a, object, rest, reply), Position(b, object, rest, reply),
                s, c, named)
  BY DEF InStep, Position

\* They go on to the same object (wpm_decode_object_id).
LEMMA NextObjectInStep ==
  ASSUME NEW s, NEW c, NEW named \in BOOLEAN, NEW l, NEW m, InStep(l, m, s, c, named)
  PROVE  InStep(NextObject(l), NextObject(m), s, c, named)
<1>1. /\ l = Position(l.device, l.object, l.rest, l.reply)
      /\ m = Position(m.device, l.object, l.rest, l.reply)
      /\ Alike(l.device, m.device, s, named)
      /\ EqualOr(l.device, m.device, c)
  BY DEF InStep
<1>2. \A reply :
        /\ [l EXCEPT !.reply = reply] = Position(l.device, l.object, l.rest, reply)
        /\ [m EXCEPT !.reply = reply] = Position(m.device, l.object, l.rest, reply)
  BY <1>1 DEF Position
<1>4. m.rest = l.rest
  BY <1>1 DEF Position
<1>5. CASE \/ Len(l.rest) <= 5 \/ DecodeTag(l.rest).number # 0
           \/ ~IsOpening(Rest(l.rest, 5)) \/ DecodeTag(Rest(l.rest, 5)).number # 1
  <2> DEFINE reply == Reject(Lacking(l.rest, 5))
  <2>1. /\ NextObject(l) = [l EXCEPT !.reply = reply]
        /\ NextObject(m) = [m EXCEPT !.reply = reply]
    BY <1>4, <1>5 DEF NextObject
  <2>2. QED BY <1>1, <1>2, <2>1, PositionsInStep
<1>6. CASE ~ (\/ Len(l.rest) <= 5 \/ DecodeTag(l.rest).number # 0
              \/ ~IsOpening(Rest(l.rest, 5)) \/ DecodeTag(Rest(l.rest, 5)).number # 1)
  <2> DEFINE object == ObjectIdOf(SubSeq(l.rest, 2, 5))
             rest == Rest(l.rest, 6)
  <2>1. /\ NextObject(l) = Position(l.device, object, rest, Ack)
        /\ NextObject(m) = Position(m.device, object, rest, Ack)
    BY <1>4, <1>6 DEF NextObject
  <2>2. QED BY <1>1, <2>1, PositionsInStep
<1>7. QED BY <1>5, <1>6

\* They write the same property or stop for the same reason.
LEMMA NextPropertyInStep ==
  ASSUME NEW s \in Seq(Sensor), NEW c, NEW named \in BOOLEAN, NEW l, NEW m,
         InStep(l, m, s, c, named)
  PROVE  InStep(NextProperty(l, s), NextProperty(m, s), s, c, named)
<1> DEFINE f == PropertyValue(l.rest, 0)
           w == WriteTo(l.object, f)
           x == WriteProperty(l.device, s, w)
           y == WriteProperty(m.device, s, w)
           closes == IsClosing(f.rest) /\ DecodeTag(f.rest).number = 1
<1>1. /\ l = Position(l.device, l.object, l.rest, l.reply)
      /\ m = Position(m.device, l.object, l.rest, l.reply)
      /\ Alike(l.device, m.device, s, named)
      /\ EqualOr(l.device, m.device, c)
  BY DEF InStep
<1>2. m.rest = l.rest /\ m.object = l.object
  BY <1>1 DEF Position
<1>3. x.error = y.error /\ Alike(x.device, y.device, s, named) /\ EqualOr(x.device, y.device, c)
  BY <1>1, SameWrite
<1>4. CASE ~WellFormed(f)
  <2> DEFINE reply == Reject(Lacking(l.rest, 0))
  <2>1. /\ NextProperty(l, s) = [l EXCEPT !.reply = reply]
        /\ NextProperty(m, s) = [m EXCEPT !.reply = reply]
    BY <1>2, <1>4 DEF NextProperty
  <2>2. /\ [l EXCEPT !.reply = reply] = Position(l.device, l.object, l.rest, reply)
        /\ [m EXCEPT !.reply = reply] = Position(m.device, l.object, l.rest, reply)
    BY <1>1 DEF Position
  <2>3. QED BY <1>1, <2>1, <2>2, PositionsInStep
<1>5. CASE WellFormed(f)
  <2> DEFINE object == IF x.error = <<>> /\ closes THEN NoObject ELSE l.object
             rest == IF x.error = <<>> /\ closes THEN Rest(f.rest, 1) ELSE f.rest
             reply == IF x.error = <<>> THEN Ack ELSE ErrorAt(x.error, w)
  <2>1. NextProperty(l, s) = Position(x.device, object, rest, reply)
    BY <1>5 DEF NextProperty
  <2>2. NextProperty(m, s) = Position(y.device, object, rest, reply)
    BY <1>2, <1>3, <1>5 DEF NextProperty
  <2> HIDE DEF x, y, object, rest, reply
  <2>3. QED BY <1>3, <2>1, <2>2, PositionsInStep
<1>6. QED BY <1>4, <1>5

\* So they do in every round.
LEMMA RoundInStep ==
  ASSUME NEW s \in Seq(Sensor), NEW c, NEW named \in BOOLEAN, NEW l, NEW m,
         InStep(l, m, s, c, named)
  PROVE  InStep(Round(l, s), Round(m, s), s, c, named)
<1>1. m.rest = l.rest /\ m.object = l.object /\ m.reply = l.reply
  BY DEF InStep, Position
<1>2. IsOver(m) <=> IsOver(l)
  BY <1>1 DEF IsOver
<1>3. QED BY <1>1, <1>2, NextObjectInStep, NextPropertyInStep DEF Round

\* The same request has the same effect on both, wherever it ends
\* (handler_write_property_multiple).
LEMMA SameWrites ==
  ASSUME NEW s \in Seq(Sensor), NEW c, NEW named \in BOOLEAN, NEW a, NEW b,
         NEW octets, Len(octets) \in Nat,
         Alike(a, b, s, named), EqualOr(a, b, c)
  PROVE  LET x == WriteObjects(a, s, octets)
             y == WriteObjects(b, s, octets)
         IN /\ x.reply = y.reply
            /\ Alike(x.device, y.device, s, named)
            /\ EqualOr(x.device, y.device, c)
<1> DEFINE first(d) == NextObject(Position(d, NoObject, octets, Ack))
           l(n) == Rounds(first(a), s)[n]
           m(n) == Rounds(first(b), s)[n]
           Astray == {n \in Nat : ~InStep(l(n), m(n), s, c, named)}
<1>1. InStep(l(0), m(0), s, c, named)
  <2>1. InStep(first(a), first(b), s, c, named)
    BY PositionsInStep, NextObjectInStep
  <2> HIDE DEF first
  <2>2. QED BY <2>1, RoundsAre
<1>2. ASSUME NEW n \in Nat, InStep(l(n), m(n), s, c, named)
      PROVE  InStep(l(n + 1), m(n + 1), s, c, named)
  <2> HIDE DEF first
  <2>1. l(n + 1) = Round(l(n), s) /\ m(n + 1) = Round(m(n), s)
    BY RoundsAre
  <2> HIDE DEF l, m
  <2>2. QED BY <1>2, <2>1, RoundInStep
<1> HIDE DEF l, m
<1>3. Astray = {}
  <2>1. SUFFICES ASSUME Astray # {} PROVE FALSE
    OBVIOUS
  <2>2. PICK k \in Astray : \A j \in Astray : k <= j
    BY <2>1, LeastNatural
  <2>3. k # 0
    BY <1>1, <2>2
  <2>4. k - 1 \in Nat /\ k - 1 \notin Astray /\ (k - 1) + 1 = k
    BY <2>2, <2>3
  <2>5. QED BY <1>2, <2>2, <2>4
<1>4. InStep(l(Len(octets)), m(Len(octets)), s, c, named)
  BY <1>3
<1>5. /\ WriteObjects(a, s, octets) = Outcome(l(Len(octets)).device, l(Len(octets)).reply)
      /\ WriteObjects(b, s, octets) = Outcome(m(Len(octets)).device, m(Len(octets)).reply)
  BY DEF WriteObjects, l, m
<1>6. l(Len(octets)).reply = m(Len(octets)).reply
  BY <1>4 DEF InStep, Position
<1>7. QED BY <1>4, <1>5, <1>6 DEF InStep, Outcome
-----------------------------------------------------------------------------
(* The handlers, and what the specification says of them. *)

\* A request of octets has the same reply and the same effect on both devices
\* (handler_write_property, handler_write_property_multiple).
LEMMA SameOutcome ==
  ASSUME NEW s \in Seq(Sensor), NEW c, NEW named \in BOOLEAN, NEW a, NEW b,
         Alike(a, b, s, named), EqualOr(a, b, c),
         NEW request, Len(request.octets) \in Nat
  PROVE  /\ request.service # "READ_PROPERTY" =>
              Handle(a, s, request).reply = Handle(b, s, request).reply
         /\ Alike(Handle(a, s, request).device, Handle(b, s, request).device, s, named)
         /\ EqualOr(Handle(a, s, request).device, Handle(b, s, request).device, c)
<1> DEFINE x == Handle(a, s, request)
           y == Handle(b, s, request)
<1>1. CASE request.service = "WRITE_PROPERTY"
  <2> DEFINE w == WriteOf(request.octets)
             u == WriteProperty(a, s, w)
             t == WriteProperty(b, s, w)
  <2>1. u.error = t.error /\ Alike(u.device, t.device, s, named) /\ EqualOr(u.device, t.device, c)
    BY SameWrite
  <2>2. x = HandleWrite(a, s, request) /\ y = HandleWrite(b, s, request)
    BY <1>1 DEF Handle
  <2>3. CASE request.segmented
    BY <1>1, <2>2, <2>3 DEF HandleWrite, Outcome
  <2>4. CASE ~request.segmented /\ ~WellFormed(w)
    BY <1>1, <2>2, <2>4 DEF HandleWrite, Outcome
  <2>5. CASE ~request.segmented /\ WellFormed(w)
    <3> DEFINE reply == IF u.error = <<>> THEN Ack ELSE Error(u.error)
    <3>1. x = Outcome(u.device, reply) /\ y = Outcome(t.device, reply)
      BY <2>1, <2>2, <2>5 DEF HandleWrite
    <3> HIDE DEF x, y, u, t, reply
    <3>2. x.device = u.device /\ y.device = t.device /\ x.reply = y.reply
      BY <3>1 DEF Outcome
    <3>3. Alike(x.device, y.device, s, named) /\ EqualOr(x.device, y.device, c)
      BY <2>1, <3>2
    <3>4. QED BY <3>2, <3>3 DEF x, y
  <2>6. QED BY <2>3, <2>4, <2>5
<1>2. CASE request.service = "WRITE_PROP_MULTIPLE"
  <2>1. /\ x = HandleWriteMultiple(a, s, request)
        /\ y = HandleWriteMultiple(b, s, request)
    BY <1>2 DEF Handle
  <2>2. CASE request.segmented
    BY <2>1, <2>2 DEF HandleWriteMultiple, Outcome
  <2>3. CASE ~request.segmented
    <3>1. /\ x = WriteObjects(a, s, request.octets)
          /\ y = WriteObjects(b, s, request.octets)
      BY <2>1, <2>3 DEF HandleWriteMultiple
    <3>2. QED BY <3>1, SameWrites
  <2>4. QED BY <2>2, <2>3
<1>3. CASE request.service = "READ_PROPERTY"
  BY <1>3 DEF Handle, Outcome
<1>4. CASE request.service \notin {"READ_PROPERTY", "WRITE_PROPERTY", "WRITE_PROP_MULTIPLE"}
  BY <1>4 DEF Handle, Outcome
<1>5. QED BY <1>1, <1>2, <1>3, <1>4

\* What the requests of the clients leave of the device and the table.
IsServing == IsComplete(device) /\ sensors \in SensorLists

\* The table of sensors is a list.
LEMMA Lists ==
  ASSUME sensors \in SensorLists
  PROVE  sensors \in Seq(Sensor)
  BY SensorListsAreLists

\* A request has a length, segmented or not.
LEMMA RequestLengths ==
  ASSUME NEW r \in Requests, NEW segmented
  PROVE  /\ Len(r.octets) \in Nat
         /\ Len([r EXCEPT !.segmented = segmented].octets) \in Nat
<1>1. r.octets \in Seq(0..255)
  BY RequestsAreOctets
<1>2. [r EXCEPT !.segmented = segmented].octets = r.octets
  OBVIOUS
<1>3. QED BY <1>1, <1>2

\* The device has all its properties after any request, with the name of a
\* sensor or without.
LEMMA ServingIsInductive ==
  Spec => []IsServing
<1>1. Init => IsServing
  BY DEF Init, IsServing, IsComplete
<1>2. IsServing /\ [Next]_vars => IsServing'
  <2> SUFFICES ASSUME IsServing, [Next]_vars PROVE IsServing'
    OBVIOUS
  <2>1. IsComplete(device) /\ sensors \in SensorLists /\ sensors \in Seq(Sensor)
    BY Lists DEF IsServing
  <2>2. CASE Receive
    <3>1. PICK r \in Requests, segmented \in BOOLEAN :
            /\ device' = Handle(device, sensors, [r EXCEPT !.segmented = segmented]).device
            /\ sensors' = sensors
      BY <2>2 DEF Receive
    <3> DEFINE request == [r EXCEPT !.segmented = segmented]
    <3>2. Len(request.octets) \in Nat
      BY RequestLengths
    <3> HIDE DEF request
    <3>3. Alike(device, device, sensors, FALSE) /\ EqualOr(device, device, device)
      BY <2>1 DEF Alike, EqualOr
    <3>4. LET x == Handle(device, sensors, request)
          IN Alike(x.device, x.device, sensors, FALSE)
      BY <2>1, <3>2, <3>3, SameOutcome
    <3>5. IsComplete(device')
      BY <3>1, <3>4 DEF Alike, request
    <3>6. QED BY <2>1, <3>1, <3>5 DEF IsServing
  <2>3. CASE Rebuild
    BY <2>1, <2>3 DEF Rebuild, IsServing
  <2>4. CASE Page
    BY <2>1, <2>4 DEF Page, IsServing
  <2>5. CASE Restart
    BY <2>1, <2>5 DEF Restart, IsServing
  <2>6. CASE UNCHANGED vars
    BY <2>1, <2>6 DEF vars, IsServing
  <2>7. QED BY <2>2, <2>3, <2>4, <2>5, <2>6 DEF Next
<1>3. QED BY <1>1, <1>2, PTL DEF Spec

\* No request, of any octets, gives the device the name of a sensor.
THEOREM NamesAreNotTaken == Spec => []NamesStayUnique
<1>1. IsServing => NamesStayUnique
  <2> SUFFICES ASSUME IsServing, NamesAreUnique(device), NEW r \in Requests
               PROVE  NamesAreUnique(Handle(device, sensors, r).device)
    BY DEF NamesStayUnique
  <2>1. sensors \in Seq(Sensor) /\ Len(r.octets) \in Nat
    BY Lists, RequestLengths DEF IsServing
  <2>2. Alike(device, device, sensors, TRUE) /\ EqualOr(device, device, device)
    BY DEF IsServing, NamesAreUnique, HasOwnName, Alike, EqualOr
  <2>3. LET x == Handle(device, sensors, r) IN Alike(x.device, x.device, sensors, TRUE)
    BY <2>1, <2>2, SameOutcome
  <2>4. QED BY <2>3 DEF Alike, HasOwnName, NamesAreUnique
<1>2. QED BY <1>1, ServingIsInductive, PTL

\* On a device that has the number of another, a write leaves what it leaves on
\* the other, or what was there.
LEMMA Again ==
  ASSUME NEW s \in Seq(Sensor), NEW d, NEW e, NEW request, Len(request.octets) \in Nat,
         request.service # "READ_PROPERTY",
         Alike(d, d, s, TRUE), Alike(e, e, s, TRUE),
         e[PROP_OBJECT_IDENTIFIER] = d[PROP_OBJECT_IDENTIFIER]
  PROVE  /\ Handle(d, s, request).reply = Handle(e, s, request).reply
         /\ EqualOr(Handle(d, s, request).device, Handle(e, s, request).device, e)
<1>1. Alike(d, e, s, TRUE) /\ EqualOr(d, e, e)
  BY DEF Alike, EqualOr
<1>2. TRUE \in BOOLEAN
  OBVIOUS
<1>3. ASSUME NEW named \in BOOLEAN, Alike(d, e, s, named)
      PROVE  /\ Handle(d, s, request).reply = Handle(e, s, request).reply
             /\ EqualOr(Handle(d, s, request).device, Handle(e, s, request).device, e)
  BY <1>1, <1>3, SameOutcome
<1>4. QED BY <1>1, <1>2, <1>3

\* A request that is executed twice has the reply and the effect of one that is
\* executed once.
THEOREM RetriesDoNoHarm == Spec => []RetriesAreHarmless
<1>1. IsServing => RetriesAreHarmless
  <2> DEFINE once(r) == Handle(device, sensors, r)
             twice(r) == Handle(once(r).device, sensors, r)
  <2>1. SUFFICES ASSUME IsServing, NamesAreUnique(device),
                        NEW r \in WriteRequests \cup MultipleRequests,
                        once(r).device[PROP_OBJECT_IDENTIFIER]
                          = device[PROP_OBJECT_IDENTIFIER]
                 PROVE  /\ twice(r).reply = once(r).reply
                        /\ \A p \in Stored \ {PROP_DATABASE_REVISION} :
                             twice(r).device[p] = once(r).device[p]
    BY DEF RetriesAreHarmless
  <2>2. r \in Requests
    BY DEF Requests
  <2>3. sensors \in Seq(Sensor) /\ Len(r.octets) \in Nat
    BY <2>1, <2>2, Lists, RequestLengths DEF IsServing
  <2>4. r.service # "READ_PROPERTY"
    BY DEF WriteRequests, MultipleRequests, Request
  <2>5. Alike(device, device, sensors, TRUE) /\ EqualOr(device, device, device)
    BY <2>1 DEF IsServing, NamesAreUnique, HasOwnName, Alike, EqualOr
  <2>6. Alike(once(r).device, once(r).device, sensors, TRUE)
    BY <2>3, <2>5, SameOutcome
  <2> DEFINE e == once(r).device
             x == Handle(device, sensors, r)
             y == Handle(e, sensors, r)
  <2>7. e[PROP_OBJECT_IDENTIFIER] = device[PROP_OBJECT_IDENTIFIER]
    BY <2>1
  <2>8. Alike(e, e, sensors, TRUE)
    BY <2>6
  <2> HIDE DEF e
  <2>10. x.reply = y.reply /\ EqualOr(x.device, y.device, e)
    BY <2>3, <2>4, <2>5, <2>7, <2>8, Again
  <2>11. x = once(r) /\ y = twice(r) /\ e = once(r).device
    BY DEF e
  <2> HIDE DEF x, y, once, twice
  <2>12. QED BY <2>10, <2>11 DEF EqualOr
<1>2. QED BY <1>1, ServingIsInductive, PTL
=============================================================================
