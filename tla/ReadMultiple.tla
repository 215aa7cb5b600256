----------------------------- MODULE ReadMultiple -----------------------------
(***************************************************************************)
(* ReadPropertyMultiple: main/handler/h_rpm.c and src/rpm.c.  A request    *)
(* refers to any number of properties of any number of objects, and its    *)
(* reply has, for each of them and in the same order, the value or the     *)
(* error that ReadProperty would give.  Nothing is changed by it, so the   *)
(* handler is an operator on the state of PropertyServer.                  *)
(***************************************************************************)
EXTENDS PropertyServer

CONSTANTS MultipleReads   \* sequences of references a client may ask for

PROP_ALL == 8
PROP_OPTIONAL == 80
PROP_REQUIRED == 105

\* The property lists of the object types that have objects here.
Required(type) ==
  CASE type = OBJECT_DEVICE ->
         <<PROP_OBJECT_IDENTIFIER, PROP_OBJECT_NAME, PROP_OBJECT_TYPE,
           PROP_SYSTEM_STATUS, PROP_VENDOR_NAME, PROP_VENDOR_IDENTIFIER,
           PROP_MODEL_NAME, PROP_FIRMWARE_REVISION,
           PROP_APPLICATION_SOFTWARE_VERSION, PROP_PROTOCOL_VERSION,
           PROP_PROTOCOL_REVISION, PROP_PROTOCOL_SERVICES_SUPPORTED,
           PROP_PROTOCOL_OBJECT_TYPES_SUPPORTED, PROP_OBJECT_LIST,
           PROP_MAX_APDU_LENGTH_ACCEPTED, PROP_SEGMENTATION_SUPPORTED,
           PROP_APDU_TIMEOUT, PROP_NUMBER_OF_APDU_RETRIES,
           PROP_DEVICE_ADDRESS_BINDING, PROP_DATABASE_REVISION>>
    [] type = OBJECT_ANALOG_INPUT ->
         <<PROP_OBJECT_IDENTIFIER, PROP_OBJECT_NAME, PROP_OBJECT_TYPE,
           PROP_PRESENT_VALUE, PROP_STATUS_FLAGS, PROP_DESCRIPTION>>
    [] OTHER -> <<>>
Optional(type) ==
  IF type = OBJECT_DEVICE
  THEN <<PROP_DESCRIPTION, PROP_LOCAL_TIME, PROP_UTC_OFFSET, PROP_LOCAL_DATE,
         PROP_DAYLIGHT_SAVINGS_STATUS, PROP_LOCATION, PROP_ACTIVE_COV_SUBSCRIPTIONS>>
  ELSE <<>>
-----------------------------------------------------------------------------
(* The request. *)

\* rpm_encode_apdu, after the header: references to one object share its list.
ReadMultipleRequest(refs) ==
  LET Same(i, j) == {i, j} \subseteq DOMAIN refs /\ refs[i].object = refs[j].object
      Part(i) ==
        (IF Same(i - 1, i) THEN <<>>
         ELSE ContextObjectId(0, refs[i].object) \o OpeningTag(1))
          \o ContextUnsigned(0, refs[i].property)
          \o (IF refs[i].index # BACNET_ARRAY_ALL
              THEN ContextUnsigned(1, refs[i].index) ELSE <<>>)
          \o IF Same(i, i + 1) THEN <<>> ELSE ClosingTag(1)
  IN FlattenSeq([i \in DOMAIN refs |-> Part(i)])

\* rpm_decode_object_property.
ReferenceOf(octets) ==
  LET Reference(p, index, rest) ==
        [property |-> Number(p.content), index |-> index, rest |-> rest]
      Indexed(p, i) == IF i.number = 1 THEN Reference(p, Number(i.content), i.rest)
                       ELSE Reference(p, BACNET_ARRAY_ALL, p.rest)
      At(p) ==
        IF ~IsContext(octets) \/ p.number # 0 \/ p.rest = <<>> THEN Malformed
        ELSE IF IsContext(p.rest) /\ ~IsClosing(p.rest) THEN Indexed(p, Field(p.rest))
        ELSE Reference(p, BACNET_ARRAY_ALL, p.rest)
  IN At(Field(octets))
-----------------------------------------------------------------------------
(* The reply, to which everything is appended if it still fits. *)

TooBig == <<>>

\* memcopy into a buffer of MAX_APDU octets.
Appended(reply, octets) ==
  IF reply = TooBig \/ Len(reply) + Len(octets) > MAX_APDU THEN TooBig
  ELSE reply \o octets

\* The numbers of the classes and of the codes of errors.
ErrorClass == [OBJECT |-> 1, PROPERTY |-> 2, RESOURCES |-> 3]
ErrorCode ==
  [INVALID_DATA_TYPE |-> 9, NO_SPACE_TO_WRITE_PROPERTY |-> 20, UNKNOWN_OBJECT |-> 31,
   UNKNOWN_PROPERTY |-> 32, VALUE_OUT_OF_RANGE |-> 37, WRITE_ACCESS_DENIED |-> 40,
   CHARACTER_SET_NOT_SUPPORTED |-> 41, INVALID_ARRAY_INDEX |-> 42,
   OPTIONAL_FUNCTIONALITY_NOT_SUPPORTED |-> 45, DUPLICATE_NAME |-> 48,
   PROPERTY_IS_NOT_AN_ARRAY |-> 50]
ErrorNumbers(error) == <<ErrorClass[error[1]], ErrorCode[error[2]]>>

\* encode_application_enumerated of both.
ErrorPair(error) ==
  LET Enumerated(n) == EncodeApplicationData([tag |-> Tag.ENUMERATED, data |-> <<n>>])
      n == ErrorNumbers(error)
  IN Enumerated(n[1]) \o Enumerated(n[2])

\* Mutant: the index of an element is not repeated in the reply.
AnswerHeadUnindexed(property, index) == ContextUnsigned(2, property)

\* rpm_ack_encode_apdu_object_property.
AnswerHead(property, index) ==
  ContextUnsigned(2, property)
    \o IF index # BACNET_ARRAY_ALL THEN ContextUnsigned(3, index) ELSE <<>>

\* rpm_ack_encode_apdu_object_property_error.
AnswerError(error) == OpeningTag(5) \o ErrorPair(error) \o ClosingTag(5)

\* RPM_Encode_Property, of what was found: for a value one octet more must fit
\* than there is.
Answered(reply, r, found) ==
  LET Answer(begun) ==
        IF begun = TooBig THEN TooBig
        ELSE IF found.error = <<>>
        THEN IF Len(begun) + Len(found.octets) + 2 < MAX_APDU
             THEN begun \o OpeningTag(4) \o found.octets \o ClosingTag(4) ELSE TooBig
        ELSE IF found.error[1] = "ABORT" THEN TooBig
        ELSE Appended(begun, AnswerError(found.error))
  IN Answer(Appended(reply, AnswerHead(r.property, r.index)))

\* RPM_Object_Property and RPM_Object_Property_Count: what ALL, REQUIRED and
\* OPTIONAL stand for.
Special == {PROP_ALL, PROP_REQUIRED, PROP_OPTIONAL}
Listed(type, special) ==
  (IF special \in {PROP_ALL, PROP_REQUIRED} THEN Required(type) ELSE <<>>)
    \o (IF special \in {PROP_ALL, PROP_OPTIONAL} THEN Optional(type) ELSE <<>>)

\* The properties a reference asks for: a list of properties has no elements.
Properties(r) ==
  IF r.property \in Special /\ r.index = BACNET_ARRAY_ALL
  THEN Listed(r.object[1], r.property) ELSE <<r.property>>
Find(d, s, r) ==
  IF r.property \in Special THEN NotFound(<<"PROPERTY", "PROPERTY_IS_NOT_AN_ARRAY">>)
                            ELSE ReadProperty(d, s, r)

\* One reference of handler_read_property_multiple.
ReferenceAnswered(d, s, reply, r) ==
  LET Of(p) == [r EXCEPT !.property = p]
      found == [one \in {Of(p) : p \in Range(Properties(r))} |-> Find(d, s, one)]
  IN FoldLeft(LAMBDA so, p :
                IF so = TooBig THEN TooBig ELSE Answered(so, Of(p), found[Of(p)]),
              reply, Properties(r))
-----------------------------------------------------------------------------
(* The handler. *)

RECURSIVE AnswerList(_, _, _, _, _)
\* The inner loop: the references to an object, up to the closing tag.
AnswerList(d, s, object, octets, reply) ==
  LET Stop(answer) == [rest |-> <<>>, reply |-> answer]
      Closed(f, so) == IF so = TooBig THEN Stop(Abort("SEGMENTATION_NOT_SUPPORTED"))
                       ELSE [rest |-> Rest(f.rest, 1), reply |-> Result(so)]
      Go(f, so) ==
        IF so = TooBig THEN Stop(Abort("SEGMENTATION_NOT_SUPPORTED"))
        ELSE IF IsClosing(f.rest) /\ DecodeTag(f.rest).number = 1
        THEN Closed(f, Appended(so, ClosingTag(1)))
        ELSE AnswerList(d, s, object, f.rest, so)
      Decoded(f) ==
        IF ~WellFormed(f) THEN Stop(Reject("INVALID_TAG"))
        ELSE Go(f, ReferenceAnswered(d, s, reply,
                     [object |-> object, property |-> f.property, index |-> f.index]))
  IN Decoded(ReferenceOf(octets))

RECURSIVE AnswerObjects(_, _, _, _)
\* The outer loop: the objects of the request.
AnswerObjects(d, s, octets, reply) ==
  LET After(list) ==
        IF list.reply.kind # "ComplexAck" \/ list.rest = <<>> THEN list.reply
        ELSE AnswerObjects(d, s, list.rest, list.reply.octets)
      Object(object, begun) ==
        IF begun = TooBig THEN Abort("SEGMENTATION_NOT_SUPPORTED")
        ELSE After(AnswerList(d, s, object, Rest(octets, 6), begun))
      Begin(object) ==
        Object(object, Appended(reply, ContextObjectId(0, object) \o OpeningTag(1)))
  IN IF Len(octets) < 5 THEN Reject("MISSING_REQUIRED_PARAMETER")
     ELSE IF \/ ~IsContext(octets) \/ DecodeTag(octets).number # 0
             \/ ~IsOpening(Rest(octets, 5)) \/ DecodeTag(Rest(octets, 5)).number # 1
     THEN Reject("INVALID_TAG")
     ELSE Begin(Resolved(d, ObjectIdOf(SubSeq(octets, 2, 5))))

\* handler_read_property_multiple: the reply begins with the type of the PDU,
\* the invoke ID, here 1, and the service.
HandleReadMultiple(d, s, request) ==
  LET Sent(reply) ==
        IF reply.kind = "ComplexAck" /\ Len(reply.octets) > request.maxResp
        THEN Abort("SEGMENTATION_NOT_SUPPORTED") ELSE reply
  IN IF request.segmented THEN Abort("SEGMENTATION_NOT_SUPPORTED")
     ELSE Sent(AnswerObjects(d, s, request.octets, <<48, 1, 14>>))
-----------------------------------------------------------------------------
(* The reply as the client of this repository reads it (h_rpm_a.c). *)

RECURSIVE ResultsOf(_, _)
\* The answers in what is left of a reply, the first of them for this object:
\* rpm_ack_decode_object_id, _object_property and _object_end, and the value
\* or the error that follows a property.
ResultsOf(object, octets) ==
  LET At(p, index, after) ==
        LET n == DataLen(Rest(after, 1))
        IN <<[object |-> object, property |-> Number(p.content), index |-> index,
              failed |-> DecodeTag(after).number = 5,
              octets |-> SubSeq(after, 2, n + 1)]>>
             \o ResultsOf(object, Rest(after, n + 2))
      Indexed(p, i) == IF i.number = 3 THEN At(p, Number(i.content), i.rest)
                       ELSE At(p, BACNET_ARRAY_ALL, p.rest)
      Property(p) == IF IsOpening(p.rest) THEN At(p, BACNET_ARRAY_ALL, p.rest)
                     ELSE Indexed(p, Field(p.rest))
  IN IF octets = <<>> THEN <<>>
     ELSE IF IsClosing(octets) THEN ResultsOf(object, Rest(octets, 1))
     ELSE IF DecodeTag(octets).number = 0
     THEN ResultsOf(ObjectIdOf(SubSeq(octets, 2, 5)), Rest(octets, 6))
     ELSE Property(Field(octets))
-----------------------------------------------------------------------------
(* Properties. *)

\* What the references of a request mean, one property each.
Meant(d, refs) ==
  LET Each(r) == [i \in DOMAIN Properties(r) |->
                    [object |-> Resolved(d, r.object), property |-> Properties(r)[i],
                     index |-> r.index]]
  IN FlattenSeq([i \in DOMAIN refs |-> Each(refs[i])])

\* A reference asked for alone, with ReadProperty; a list of properties has no
\* elements.
Alone(r) ==
  IF r.property \in Special THEN Error(<<"PROPERTY", "PROPERTY_IS_NOT_AN_ARRAY">>)
  ELSE HandleRead(device, sensors, Request("READ_PROPERTY", ReadRequest(r)))

\* The octets a complete reply has: a header, and an identifier and two tags
\* for each object; for each property its number, its index, and the value or
\* two enumerated numbers between two tags.
ReplyLen(refs, meant, alone) ==
  LET objects == {i \in DOMAIN refs : i = 1 \/ refs[i].object # refs[i - 1].object}
      Size(reply) == IF reply.kind = "ComplexAck" THEN Len(reply.octets) ELSE 4
      Room(i) == Len(AnswerHead(meant[i].property, meant[i].index)) + 2 + Size(alone[i])
  IN FoldLeftDomain(LAMBDA n, i : n + Room(i), 3 + 7 * Cardinality(objects), meant)

\* The two numbers of an error.
NumbersOf(octets) ==
  DecodeApplicationData(octets).data
    \o DecodeApplicationData(Rest(octets, ApplicationDataLen(octets))).data

\* ReadPropertyMultiple (h_rpm.c) answers every reference, in the order asked,
\* with exactly the value or the error that ReadProperty (h_rp.c) gives for it
\* at that moment, wherever the reference stands in the request and whatever
\* the others are, wildcards and lists of properties included; and it refuses
\* only what the client or the buffer could not take as a whole.
MultipleReadsAgree ==
  LET Agrees(result, r, alone) ==
        /\ <<result.object, result.property, result.index>>
             = <<r.object, r.property, r.index>>
        /\ IF result.failed
           THEN /\ alone.kind = "Error"
                /\ NumbersOf(result.octets) = ErrorNumbers(alone.error)
           ELSE alone = Result(result.octets)
      Complete(meant, alone, results) ==
        /\ Len(results) = Len(meant)
        /\ \A i \in DOMAIN meant : Agrees(results[i], meant[i], alone[i])
      Right(reply, meant, alone, size, max) ==
        IF size > max \/ \E i \in DOMAIN alone : alone[i].kind = "Abort"
        THEN reply = Abort("SEGMENTATION_NOT_SUPPORTED")
        ELSE /\ reply.kind = "ComplexAck"
             /\ Len(reply.octets) = size
             /\ Complete(meant, alone, ResultsOf(<<>>, Rest(reply.octets, 3)))
      Limited(refs, max) ==
        [Request("READ_PROP_MULTIPLE", ReadMultipleRequest(refs)) EXCEPT !.maxResp = max]
  IN Quiet => \A refs \in MultipleReads :
       \A meant \in {Meant(device, refs)} :
         \A alone \in {[i \in DOMAIN meant |-> Alone(meant[i])]}, max \in {50, MAX_APDU} :
           \A reply \in {HandleReadMultiple(device, sensors, Limited(refs, max))} :
             Right(reply, meant, alone, ReplyLen(refs, meant, alone), max)
=============================================================================
