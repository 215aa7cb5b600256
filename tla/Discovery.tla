------------------------------ MODULE Discovery ------------------------------
(***************************************************************************)
(* Discovery of the device and of its objects: Who-Is and I-Am, Who-Has    *)
(* and I-Have (main/handler/h_whois.c, h_whohas.c, s_iam.c, s_ihave.c and  *)
(* the encodings in src/).  The handlers change nothing, so they are       *)
(* operators on the state of PropertyServer: the broadcast they send, or   *)
(* Silence.                                                                *)
(***************************************************************************)
EXTENDS PropertyServer

CONSTANTS Ranges   \* pairs <<low, high>> of device numbers that are asked for

Silence == <<>>
NoRange == <<-1, -1>>
SEGMENTATION_NONE == 3
-----------------------------------------------------------------------------
(* Who-Is. *)

\* whois_encode_apdu, after the header.
WhoIsRequest(range) ==
  IF range = NoRange THEN <<>>
  ELSE ContextUnsigned(0, range[1]) \o ContextUnsigned(1, range[2])

\* The two numbers a request may start with.
RangeOf(octets) ==
  LET Pair(low, high) == [range |-> <<Number(low.content), Number(high.content)>>,
                          rest |-> high.rest]
      From(low) == Pair(low, Field(low.rest))
  IN From(Field(octets))

\* The application values of a message.
Values(vs) == FlattenSeq([i \in DOMAIN vs |-> EncodeApplicationData(vs[i])])

\* iam_encode_apdu, after the header.
IAm(d) ==
  Values(<<[tag |-> Tag.OBJECT_ID, data |-> d[PROP_OBJECT_IDENTIFIER]],
           [tag |-> Tag.UNSIGNED_INT, data |-> <<MAX_APDU>>],
           [tag |-> Tag.ENUMERATED, data |-> <<SEGMENTATION_NONE>>],
           [tag |-> Tag.UNSIGNED_INT, data |-> d[PROP_VENDOR_IDENTIFIER]]>>)

\* Mutant: the last number of the range is left out.
InRangeOpen(d, range) ==
  range[1] <= d[PROP_OBJECT_IDENTIFIER][2] /\ d[PROP_OBJECT_IDENTIFIER][2] < range[2]

InRange(d, range) ==
  range[1] <= d[PROP_OBJECT_IDENTIFIER][2] /\ d[PROP_OBJECT_IDENTIFIER][2] <= range[2]

\* handler_who_is with whois_decode_service_request.
HandleWhoIs(d, octets) ==
  IF octets = <<>> \/ InRange(d, RangeOf(octets).range) THEN IAm(d) ELSE Silence
-----------------------------------------------------------------------------
(* Who-Has. *)

\* whohas_encode_apdu, after the header, of an object or of a name.
WhoHasRequest(range, what) ==
  WhoIsRequest(range) \o IF "name" \in DOMAIN what THEN ContextText(3, what.name)
                                                   ELSE ContextObjectId(2, what.object)

\* ihave_encode_apdu, after the header.
IHave(d, object, name) ==
  Values(<<[tag |-> Tag.OBJECT_ID, data |-> d[PROP_OBJECT_IDENTIFIER]],
           [tag |-> Tag.OBJECT_ID, data |-> object],
           [tag |-> Tag.CHARACTER_STRING, data |-> name]>>)

\* Device_Object_Name_Copy, of the device or of an input that there is: the
\* name of an input that there is not is read outside the table.
NameCopy(d, s, object) ==
  CASE IsDevice(d, object) -> d[PROP_OBJECT_NAME]
    [] IsSensor(s, object) -> SensorAt(s, object).name
    [] OTHER -> Silence

\* match_name_or_object.
Match(d, s, octets) ==
  LET First(places) == CHOOSE i \in places : \A j \in places : i <= j
      Named(name, places) ==
        IF places = {} THEN Silence ELSE IHave(d, ObjectList(d, s)[First(places)], name)
      Is(object, name) == IF name = Silence THEN Silence ELSE IHave(d, object, name)
      ByName(name) == Named(name, PlacesNamed(d, s, name))
      ByObject(object) == Is(object, NameCopy(d, s, object))
      By(what) == CASE what.number = 3 -> ByName(what.content)
                    [] what.number = 2 -> ByObject(ObjectIdOf(what.content))
                    [] OTHER -> Silence
  IN By(Field(octets))

\* handler_who_has with whohas_decode_service_request.
HandleWhoHas(d, s, octets) ==
  LET limited == DecodeTag(octets).number = 0
      Within(f) == IF limited /\ ~InRange(d, f.range) THEN Silence
                   ELSE Match(d, s, IF limited THEN f.rest ELSE octets)
  IN Within(RangeOf(octets))
-----------------------------------------------------------------------------
(* Properties. *)

RECURSIVE ValuesOf(_)
\* The data of the application values in a message.
ValuesOf(octets) ==
  IF octets = <<>> THEN <<>>
  ELSE <<DecodeApplicationData(octets).data>>
         \o ValuesOf(Rest(octets, ApplicationDataLen(octets)))

\* What ReadProperty tells of an object.
ReadOut(object, p) ==
  DecodeApplicationData(HandleRead(device, sensors, Request("READ_PROPERTY",
    ReadRequest([object |-> object, property |-> p, index |-> BACNET_ARRAY_ALL]))).octets).data

\* What is announced is what is read.  In every range that holds its number,
\* and in no other, the device answers Who-Is with the number, the size and
\* the vendor that its properties have, and Who-Has with its own number, an
\* object of its Object_List and the name that ReadProperty gives for that
\* object: for every object of the list when asked for the object, for every
\* name of the list when asked for the name, and for no other name.
DiscoveryAgrees ==
  LET Told(octets) == ValuesOf(octets)
      Announced == <<PROP_MAX_APDU_LENGTH_ACCEPTED, PROP_SEGMENTATION_SUPPORTED,
                     PROP_VENDOR_IDENTIFIER>>
      Holds(range, asked, number, names, read) ==
        /\ Told(HandleWhoIs(device, WhoIsRequest(range)))
             = IF asked THEN <<number>> \o [i \in 1..3 |-> read[<<number, Announced[i]>>]]
               ELSE <<>>
        /\ \A what \in [object : DOMAIN names]
                         \cup [name : Range(names) \cup {<<0, 35>>}] :
             \E told \in {Told(HandleWhoHas(device, sensors, WhoHasRequest(range, what)))} :
               IF asked /\ what # [name |-> <<0, 35>>]
               THEN \E o \in DOMAIN names :
                      /\ told = <<number, o, names[o]>>
                      /\ what \in {[object |-> o], [name |-> names[o]]}
               ELSE told = <<>>
      Read(number, objects, read) ==
        \A range \in Ranges \cup {NoRange} :
          Holds(range, range = NoRange \/ number[2] \in range[1]..range[2], number,
                [o \in objects |-> read[<<o, PROP_OBJECT_NAME>>]], read)
      Listing(number, objects) ==
        Read(number, objects,
             [q \in ({number} \X Range(Announced)) \cup (objects \X {PROP_OBJECT_NAME})
                |-> ReadOut(q[1], q[2])])
  IN Quiet => Listing(device[PROP_OBJECT_IDENTIFIER], Range(ObjectList(device, sensors)))
=============================================================================
