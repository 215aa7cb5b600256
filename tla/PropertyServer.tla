--------------------------- MODULE PropertyServer ---------------------------
(***************************************************************************)
(* The device object (main/object/device.c) and the services that read and *)
(* write its properties and those of the analog inputs: ReadProperty,      *)
(* WriteProperty and WritePropertyMultiple, from the octets of the request *)
(* to the reply.                                                           *)
(*                                                                         *)
(* Every handler runs in the main thread, between its two operations on    *)
(* the semaphore of the object table, so a request is one step.  Several   *)
(* clients send requests; one of them reads the Object_List element by     *)
(* element, with a Database_Revision before and after, the way a client    *)
(* does that cannot take the list in one reply.  The refresh thread        *)
(* replaces the table of sensors between two requests.                     *)
(***************************************************************************)
EXTENDS Codec, SequencesExt

CONSTANTS
  Writes,       \* writes a client may ask for, one by one
  Multiples,    \* sequences of writes a client may ask for at once
  Reads,        \* reads a client may ask for
  SensorLists,  \* what the backend may answer: sequences of sensors
  Instance,     \* the instance number the server is started with
  Clock,        \* the time, the date, the offset and whether it is summer
  MaxRevision   \* bound of the model on Database_Revision

\* A sensor as the refresh thread fills it in.
Sensor ==
  [instance : Nat, name : Seq(Nat), description : Seq(Nat), value : Seq(Nat),
   uploaded : Seq(Nat)]
ASSUME SensorListsAreLists == SensorLists \subseteq Seq(Sensor)

\* BACNET_PROPERTY_ID.
PROP_APDU_TIMEOUT == 11
PROP_APPLICATION_SOFTWARE_VERSION == 12
PROP_CHANGE_OF_STATE_TIME == 16
PROP_DAYLIGHT_SAVINGS_STATUS == 24
PROP_DESCRIPTION == 28
PROP_DEVICE_ADDRESS_BINDING == 30
PROP_FIRMWARE_REVISION == 44
PROP_LOCAL_DATE == 56
PROP_LOCAL_TIME == 57
PROP_LOCATION == 58
PROP_MAX_APDU_LENGTH_ACCEPTED == 62
PROP_MAX_INFO_FRAMES == 63
PROP_MAX_MASTER == 64
PROP_MODEL_NAME == 70
PROP_NUMBER_OF_APDU_RETRIES == 73
PROP_OBJECT_IDENTIFIER == 75
PROP_OBJECT_LIST == 76
PROP_OBJECT_NAME == 77
PROP_OBJECT_TYPE == 79
PROP_PRESENT_VALUE == 85
PROP_PRIORITY_ARRAY == 87
PROP_PROTOCOL_OBJECT_TYPES_SUPPORTED == 96
PROP_PROTOCOL_SERVICES_SUPPORTED == 97
PROP_PROTOCOL_VERSION == 98
PROP_SEGMENTATION_SUPPORTED == 107
PROP_STATE_TEXT == 110
PROP_STATUS_FLAGS == 111
PROP_SYSTEM_STATUS == 112
PROP_UNITS == 117
PROP_UTC_OFFSET == 119
PROP_VENDOR_IDENTIFIER == 120
PROP_VENDOR_NAME == 121
PROP_PROTOCOL_REVISION == 139
PROP_ACTIVE_COV_SUBSCRIPTIONS == 152
PROP_DATABASE_REVISION == 155

OBJECT_ANALOG_INPUT == 0
OBJECT_DEVICE == 8
BACNET_MAX_INSTANCE == 4194303
BACNET_ARRAY_ALL == -1
BACNET_MAX_PRIORITY == 16
BACNET_NO_PRIORITY == 0

\* The texts a client can write.
Texts == {PROP_OBJECT_NAME, PROP_LOCATION, PROP_DESCRIPTION, PROP_MODEL_NAME}

\* The properties of the device that are variables of device.c and apdu.c.
Stored ==
  Texts \cup {PROP_OBJECT_IDENTIFIER, PROP_SYSTEM_STATUS, PROP_VENDOR_IDENTIFIER,
              PROP_APDU_TIMEOUT, PROP_NUMBER_OF_APDU_RETRIES,
              PROP_DATABASE_REVISION}

\* The properties of the device no client can write, the ones of an MS/TP node,
\* which this one is not, included.
Denied ==
  {PROP_OBJECT_TYPE, PROP_VENDOR_NAME, PROP_FIRMWARE_REVISION,
   PROP_APPLICATION_SOFTWARE_VERSION, PROP_LOCAL_TIME, PROP_UTC_OFFSET,
   PROP_LOCAL_DATE, PROP_DAYLIGHT_SAVINGS_STATUS, PROP_PROTOCOL_VERSION,
   PROP_PROTOCOL_REVISION, PROP_PROTOCOL_SERVICES_SUPPORTED,
   PROP_PROTOCOL_OBJECT_TYPES_SUPPORTED, PROP_OBJECT_LIST,
   PROP_MAX_APDU_LENGTH_ACCEPTED, PROP_SEGMENTATION_SUPPORTED,
   PROP_DEVICE_ADDRESS_BINDING, PROP_DATABASE_REVISION,
   PROP_ACTIVE_COV_SUBSCRIPTIONS, PROP_MAX_INFO_FRAMES, PROP_MAX_MASTER}

VARIABLES
  device,   \* the data of the stored properties of the device
  sensors,  \* the object table: the instance, the texts and the value of each
            \* sensor
  pages,    \* what the client that reads the Object_List has been told so far
  rebuilt   \* the table has been replaced since that client began

vars == <<device, sensors, pages, rebuilt>>
-----------------------------------------------------------------------------
(* What the clients send, with the encoders of this repository. *)

\* rp_encode_apdu, after the header.
ReadRequest(r) ==
  ContextObjectId(0, r.object) \o ContextUnsigned(1, r.property)
    \o IF r.index # BACNET_ARRAY_ALL THEN ContextUnsigned(2, r.index) ELSE <<>>

\* wp_encode_apdu, after the header.
WriteRequest(w) ==
  ContextObjectId(0, w.object) \o ContextUnsigned(1, w.property)
    \o (IF w.index # BACNET_ARRAY_ALL THEN ContextUnsigned(2, w.index) ELSE <<>>)
    \o OpeningTag(3) \o EncodeApplicationData(w.value) \o ClosingTag(3)
    \o IF w.priority # BACNET_NO_PRIORITY THEN ContextUnsigned(4, w.priority)
                                          ELSE <<>>

\* wpm_encode_apdu, after the header: consecutive writes to an object share
\* its list.  The priority is encoded and then written over.
MultipleRequest(ws) ==
  LET Same(i, j) == {i, j} \subseteq DOMAIN ws /\ ws[i].object = ws[j].object
      Part(i) ==
        (IF Same(i - 1, i) THEN <<>>
         ELSE ContextObjectId(0, ws[i].object) \o OpeningTag(1))
          \o ContextUnsigned(0, ws[i].property)
          \o (IF ws[i].index # BACNET_ARRAY_ALL THEN ContextUnsigned(1, ws[i].index)
              ELSE <<>>)
          \o OpeningTag(2) \o EncodeApplicationData(ws[i].value) \o ClosingTag(2)
          \o IF Same(i, i + 1) THEN <<>> ELSE ClosingTag(1)
  IN FlattenSeq([i \in DOMAIN ws |-> Part(i)])
-----------------------------------------------------------------------------
(* Decoding of the services. *)

\* bacapp_data_len, of values that are all application tagged: the octets
\* before the closing tag, past[i] of them from the place i.
DataLen(octets) ==
  LET past[i \in DOMAIN octets] ==
        LET at == Rest(octets, i - 1)
        IN IF IsClosing(at) THEN 0
           ELSE LET n == ApplicationDataLen(at) IN n + past[i + n]
  IN past[1]

\* A property, its index and the value that octets have between two tags.
Between(property, index, octets) ==
  LET Of(n) == [property |-> property, index |-> index,
                value |-> SubSeq(octets, 2, n + 1), rest |-> Rest(octets, n + 2)]
  IN Of(DataLen(Rest(octets, 1)))

Malformed == [rest |-> <<>>]
WellFormed(f) == f # Malformed

\* What wp_decode_service_request and wpm_decode_object_property have in
\* common: the property p, the index i if it is there, and the octets of the
\* value, in fields numbered from base; "rest" is what follows the value.
PropertyValueAt(p, i, base) ==
  LET indexed == i.number = base + 1
      octets == IF indexed THEN i.rest ELSE p.rest
  IN IF \/ p.number # base
        \/ ~IsOpening(octets) \/ DecodeTag(octets).number # base + 2
     THEN Malformed
     ELSE Between(Number(p.content),
                  IF indexed THEN Number(i.content) ELSE BACNET_ARRAY_ALL, octets)
PropertyValue(octets, base) ==
  LET At(p) == PropertyValueAt(p, Field(p.rest), base) IN At(Field(octets))

WriteTo(object, f) ==
  [object |-> object, property |-> f.property, index |-> f.index, value |-> f.value]

\* wp_decode_service_request: the priority is checked and not used.
WriteOf(octets) ==
  LET Priority(p) == IF p.number = 4 THEN Number(p.content) ELSE BACNET_MAX_PRIORITY
      Checked(f) ==
        IF \/ ~WellFormed(f)
           \/ f.rest # <<>> /\ Priority(Field(f.rest)) \notin 1..BACNET_MAX_PRIORITY
        THEN Malformed ELSE WriteTo(ObjectIdOf(SubSeq(octets, 2, 5)), f)
  IN IF ~IsContext(octets) \/ DecodeTag(octets).number # 0 THEN Malformed
     ELSE Checked(PropertyValue(Rest(octets, 5), 1))

\* rp_decode_service_request: what is asked for, or why it is rejected.
ReadOf(octets) ==
  LET Refused(reason) == [reject |-> reason]
      Read(p, index) ==
        [object |-> ObjectIdOf(SubSeq(octets, 2, 5)), property |-> Number(p.content),
         index |-> index]
      Indexed(p, i) ==
        IF i.number # 2 \/ i.content = <<>> THEN Refused("INVALID_TAG")
        ELSE IF i.rest # <<>> THEN Refused("TOO_MANY_ARGUMENTS")
        ELSE Read(p, Number(i.content))
      At(p) == IF p.number # 1 THEN Refused("INVALID_TAG")
               ELSE IF p.rest = <<>> THEN Read(p, BACNET_ARRAY_ALL)
               ELSE Indexed(p, Field(p.rest))
  IN IF Len(octets) < 7 THEN Refused("MISSING_REQUIRED_PARAMETER")
     ELSE IF ~IsContext(octets) \/ DecodeTag(octets).number # 0 THEN Refused("INVALID_TAG")
     ELSE At(Field(Rest(octets, 5)))
-----------------------------------------------------------------------------
(* The object table. *)

\* Device_Object_List_Identifier for every index: the device, then the sensors.
ObjectList(d, s) ==
  <<d[PROP_OBJECT_IDENTIFIER]>>
    \o [i \in DOMAIN s |-> <<OBJECT_ANALOG_INPUT, s[i].instance>>]

\* The name of the i-th object of the list.
NameOf(d, s, i) == IF i = 1 THEN d[PROP_OBJECT_NAME] ELSE s[i - 1].name

\* Mutant: the loop ends before the last object.
PlacesNamedShort(d, s, name) ==
  {i \in 1..(Len(ObjectList(d, s)) - 1) : NameOf(d, s, i) = name}

\* Device_Valid_Object_Name: the places of the list that have the name, the
\* first of which is the answer.
PlacesNamed(d, s, name) == {i \in DOMAIN ObjectList(d, s) : NameOf(d, s, i) = name}

IsDevice(d, object) == object = <<OBJECT_DEVICE, d[PROP_OBJECT_IDENTIFIER][2]>>
IsSensor(s, object) ==
  /\ object[1] = OBJECT_ANALOG_INPUT
  /\ \E i \in DOMAIN s : s[i].instance = object[2]
SensorAt(s, object) == s[SelectInSeq(s, LAMBDA x : x.instance = object[2])]
-----------------------------------------------------------------------------
(* Reading. *)

Found(octets) == [error |-> <<>>, octets |-> octets]
NotFound(error) == [error |-> error, octets |-> <<>>]

PropertyTag(p) ==
  CASE p = PROP_OBJECT_IDENTIFIER -> Tag.OBJECT_ID
    [] p \in Texts \cup {PROP_VENDOR_NAME, PROP_FIRMWARE_REVISION,
                        PROP_APPLICATION_SOFTWARE_VERSION, PROP_STATE_TEXT,
                        PROP_CHANGE_OF_STATE_TIME} -> Tag.CHARACTER_STRING
    [] p \in {PROP_SYSTEM_STATUS, PROP_OBJECT_TYPE, PROP_SEGMENTATION_SUPPORTED,
             PROP_UNITS} -> Tag.ENUMERATED
    [] p \in {PROP_PROTOCOL_SERVICES_SUPPORTED, PROP_STATUS_FLAGS,
             PROP_PROTOCOL_OBJECT_TYPES_SUPPORTED} -> Tag.BIT_STRING
    [] p = PROP_PRESENT_VALUE -> Tag.REAL
    [] p = PROP_LOCAL_TIME -> Tag.TIME
    [] p = PROP_LOCAL_DATE -> Tag.DATE
    [] p = PROP_UTC_OFFSET -> Tag.SIGNED_INT
    [] p = PROP_DAYLIGHT_SAVINGS_STATUS -> Tag.BOOLEAN
    [] OTHER -> Tag.UNSIGNED_INT

Encoded(p, data) == EncodeApplicationData([tag |-> PropertyTag(p), data |-> data])

\* A bit string of the given length with these bits set.
BitsAt(set, length) == [i \in 1..length |-> IF i - 1 \in set THEN 1 ELSE 0]

\* The data of a property of the device that is neither stored nor a list.
FixedData(s, p) ==
  CASE p = PROP_OBJECT_TYPE -> <<OBJECT_DEVICE>>
    [] p \in {PROP_VENDOR_NAME, PROP_FIRMWARE_REVISION,
             PROP_APPLICATION_SOFTWARE_VERSION} -> <<0, 49, 46, 48>>
    [] p = PROP_PROTOCOL_VERSION -> <<1>>
    [] p = PROP_PROTOCOL_REVISION -> <<12>>
    [] p = PROP_PROTOCOL_SERVICES_SUPPORTED ->
         BitsAt({5, 12, 14, 15, 16, 26, 28, 33, 34, 35}, 40)
    [] p = PROP_PROTOCOL_OBJECT_TYPES_SUPPORTED ->
         BitsAt({OBJECT_DEVICE} \cup IF s = <<>> THEN {} ELSE {OBJECT_ANALOG_INPUT}, 51)
    [] p = PROP_MAX_APDU_LENGTH_ACCEPTED -> <<MAX_APDU>>
    [] p = PROP_SEGMENTATION_SUPPORTED -> <<3>>
    [] p = PROP_LOCAL_TIME -> Clock.time
    [] p = PROP_LOCAL_DATE -> Clock.date
    [] p = PROP_UTC_OFFSET -> <<Clock.offset>>
    [] p = PROP_DAYLIGHT_SAVINGS_STATUS -> <<Clock.dst>>
    [] OTHER -> <<>>

\* The case PROP_OBJECT_LIST of Device_Read_Property_Local.
ReadObjectList(d, s, index) ==
  LET list == ObjectList(d, s)
      Identifiers(ids) ==
        FlattenSeq([i \in DOMAIN ids |-> Encoded(PROP_OBJECT_IDENTIFIER, ids[i])])
  IN IF index = 0 THEN Found(Encoded(PROP_DATABASE_REVISION, <<Len(list)>>))
     ELSE IF index \notin DOMAIN list \cup {BACNET_ARRAY_ALL}
     THEN NotFound(<<"PROPERTY", "INVALID_ARRAY_INDEX">>)
     ELSE IF index = BACNET_ARRAY_ALL /\ Len(list) > 1 /\ 5 * Len(list) >= MAX_APDU
     THEN NotFound(<<"ABORT", "SEGMENTATION_NOT_SUPPORTED">>)
     ELSE Found(Identifiers(IF index = BACNET_ARRAY_ALL THEN list ELSE <<list[index]>>))

\* Device_Read_Property_Local.  Two lists are empty here: nothing ever enters
\* the address cache, and no client of this module subscribes to changes.
ReadLocal(d, s, r) ==
  LET data == IF r.property \in Stored THEN d[r.property] ELSE FixedData(s, r.property)
      empty == {PROP_DEVICE_ADDRESS_BINDING, PROP_ACTIVE_COV_SUBSCRIPTIONS}
  IN IF r.property = PROP_OBJECT_LIST THEN ReadObjectList(d, s, r.index)
     ELSE IF data = <<>> /\ r.property \notin empty
     THEN NotFound(<<"PROPERTY", "UNKNOWN_PROPERTY">>)
     ELSE IF r.index # BACNET_ARRAY_ALL
     THEN NotFound(<<"PROPERTY", "PROPERTY_IS_NOT_AN_ARRAY">>)
     ELSE Found(IF r.property \in empty THEN <<>> ELSE Encoded(r.property, data))

\* Analog_Input_Read_Property, for the one kind of sensor there is, which never
\* times out (get_device_timeout).
ReadSensor(sensor, r) ==
  LET data ==
        CASE r.property = PROP_OBJECT_IDENTIFIER -> r.object
          [] r.property = PROP_OBJECT_NAME -> sensor.name
          [] r.property = PROP_DESCRIPTION -> sensor.description
          [] r.property = PROP_OBJECT_TYPE -> <<OBJECT_ANALOG_INPUT>>
          [] r.property = PROP_PRESENT_VALUE -> sensor.value
          [] r.property = PROP_STATUS_FLAGS -> <<0, 0, 0, 0>>
          [] r.property = PROP_UNITS -> <<95>>
          [] r.property = PROP_STATE_TEXT -> <<0, 79, 110>>
          [] r.property = PROP_CHANGE_OF_STATE_TIME -> sensor.uploaded
          [] OTHER -> <<>>
  IN IF data = <<>> THEN NotFound(<<"PROPERTY", "UNKNOWN_PROPERTY">>)
     ELSE IF r.index # BACNET_ARRAY_ALL
     THEN NotFound(<<"PROPERTY", "PROPERTY_IS_NOT_AN_ARRAY">>)
     ELSE Found(Encoded(r.property, data))

\* Device_Read_Property.
ReadProperty(d, s, r) ==
  CASE IsDevice(d, r.object) -> ReadLocal(d, s, r)
    [] IsSensor(s, r.object) -> ReadSensor(SensorAt(s, r.object), r)
    [] OTHER -> NotFound(<<"OBJECT", "UNKNOWN_OBJECT">>)
-----------------------------------------------------------------------------
(* Writing. *)

Granted(d) == [device |-> d, error |-> <<>>]
Refused(d, error) == [device |-> d, error |-> error]

MaxLength(p) == CASE p = PROP_OBJECT_NAME -> MAX_APDU - 7
                  [] p = PROP_MODEL_NAME -> 32
                  [] OTHER -> 64

\* WPValidateString: of the texts only the name must be filled and printable.
TextObjection(p, data) ==
  LET chars == Tail(data)
  IN CASE Head(data) # 0 -> <<"PROPERTY", "CHARACTER_SET_NOT_SUPPORTED">>
       [] /\ Head(data) = 0 /\ p = PROP_OBJECT_NAME
          /\ chars = <<>> \/ \E i \in DOMAIN chars : chars[i] \notin 32..126 ->
            <<"PROPERTY", "VALUE_OUT_OF_RANGE">>
       [] Head(data) = 0 /\ Len(chars) > MaxLength(p) ->
            <<"RESOURCES", "NO_SPACE_TO_WRITE_PROPERTY">>
       [] OTHER -> <<>>

\* Mutant: the object's own name is a duplicate too.
NameObjectionAny(d, s, name) ==
  IF PlacesNamed(d, s, name) = {} THEN <<>> ELSE <<"PROPERTY", "DUPLICATE_NAME">>

\* The name is another object's; writing an object's name again is allowed.
NameObjection(d, s, name) ==
  LET places == PlacesNamed(d, s, name)
  IN IF places = {} \/ 1 \in places THEN <<>>
     ELSE <<"PROPERTY", "DUPLICATE_NAME">>

\* Device_Set_System_Status for a status that comes from outside.
StatusObjection(status) ==
  CASE status \in {0, 1, 4} -> <<>>
    [] status \in {2, 3, 5} ->
         <<"PROPERTY", "OPTIONAL_FUNCTIONALITY_NOT_SUPPORTED">>
    [] OTHER -> <<"PROPERTY", "VALUE_OUT_OF_RANGE">>

\* Why Device_Write_Property_Local refuses a write, in the order it looks.
Objection(d, s, w, v) ==
  IF ~v.ok THEN <<"PROPERTY", "VALUE_OUT_OF_RANGE">>
  ELSE IF w.property # PROP_OBJECT_LIST /\ w.index # BACNET_ARRAY_ALL
  THEN <<"PROPERTY", "PROPERTY_IS_NOT_AN_ARRAY">>
  ELSE IF w.property \in Denied
  THEN <<"PROPERTY", "WRITE_ACCESS_DENIED">>
  ELSE IF w.property \notin Stored THEN <<"PROPERTY", "UNKNOWN_PROPERTY">>
  ELSE IF v.tag # PropertyTag(w.property) THEN <<"PROPERTY", "INVALID_DATA_TYPE">>
  ELSE IF w.property = PROP_OBJECT_IDENTIFIER
  THEN IF v.data[1] = OBJECT_DEVICE THEN <<>>
       ELSE <<"PROPERTY", "VALUE_OUT_OF_RANGE">>
  ELSE IF w.property = PROP_SYSTEM_STATUS THEN StatusObjection(v.data[1])
  ELSE IF w.property \notin Texts THEN <<>>
  ELSE IF TextObjection(w.property, v.data) # <<>>
  THEN TextObjection(w.property, v.data)
  ELSE IF w.property = PROP_OBJECT_NAME THEN NameObjection(d, s, v.data)
  ELSE <<>>

\* Mutant: the numbers are kept as they are.
NarrowedNot(p, data) == data

\* What becomes of the data: casts to the width of the variable, and C strings
\* that end at the first zero.
Narrowed(p, data) ==
  CASE p = PROP_NUMBER_OF_APDU_RETRIES -> <<data[1] % 256>>
    [] p \in {PROP_APDU_TIMEOUT, PROP_VENDOR_IDENTIFIER} -> <<data[1] % 65536>>
    [] p \in Texts \ {PROP_OBJECT_NAME} ->
         LET zeros == {i \in 2..Len(data) : data[i] = 0}
         IN IF zeros = {} THEN data
            ELSE SubSeq(data, 1, (CHOOSE i \in zeros : \A j \in zeros : i <= j) - 1)
    [] OTHER -> data

\* Mutant: a new number is not counted.
RenamesName(d, p, data) == p = PROP_OBJECT_NAME /\ data # d[PROP_OBJECT_NAME]

\* Whether the write changes the database of objects: Device_Set_Object_Name
\* counts only a new name, Device_Set_Object_Instance_Number any number.
Renames(d, p, data) ==
  \/ p = PROP_OBJECT_IDENTIFIER
  \/ p = PROP_OBJECT_NAME /\ data # d[PROP_OBJECT_NAME]

\* Device_Write_Property_Local.
WriteLocal(d, s, w) ==
  LET Written(v) ==
        [d EXCEPT ![w.property] = Narrowed(w.property, v.data),
                  ![PROP_DATABASE_REVISION] =
                     IF Renames(d, w.property, v.data) THEN <<@[1] + 1>> ELSE @]
      Unless(objection, v) ==
        IF objection # <<>> THEN Refused(d, objection) ELSE Granted(Written(v))
      Decoded(v) == Unless(Objection(d, s, w, v), v)
  IN Decoded(DecodeApplicationData(w.value))

\* Analog_Input_Write_Property: no property of a sensor can be written.
SensorObjection(w, v) ==
  CASE ~v.ok -> <<"PROPERTY", "VALUE_OUT_OF_RANGE">>
    [] v.ok /\ w.property # PROP_PRIORITY_ARRAY /\ w.index # BACNET_ARRAY_ALL ->
         <<"PROPERTY", "PROPERTY_IS_NOT_AN_ARRAY">>
    [] OTHER -> <<"PROPERTY", "WRITE_ACCESS_DENIED">>

\* Device_Write_Property.
WriteProperty(d, s, w) ==
  CASE IsDevice(d, w.object) -> WriteLocal(d, s, w)
    [] IsSensor(s, w.object) ->
         Refused(d, SensorObjection(w, DecodeApplicationData(w.value)))
    [] OTHER -> Refused(d, <<"OBJECT", "UNKNOWN_OBJECT">>)
-----------------------------------------------------------------------------
(* The handlers: the device they leave and the reply they send. *)

Request(service, octets) ==
  [service |-> service, octets |-> octets, segmented |-> FALSE, maxResp |-> MAX_APDU]

Outcome(d, reply) == [device |-> d, reply |-> reply]
Ack == [kind |-> "SimpleAck"]
Abort(reason) == [kind |-> "Abort", reason |-> reason]
Reject(reason) == [kind |-> "Reject", reason |-> reason]
Error(error) == [kind |-> "Error", error |-> error]
ErrorAt(error, w) ==
  [kind |-> "Error", error |-> error,
   at |-> <<w.object, w.property, w.index>>]
Result(octets) == [kind |-> "ComplexAck", octets |-> octets]

\* The octets of a ComplexAck around the value.
AckLen(r) ==
  3 + Len(ContextObjectId(0, r.object)) + Len(ContextUnsigned(1, r.property))
    + (IF r.index = BACNET_ARRAY_ALL THEN 0 ELSE Len(ContextUnsigned(2, r.index)))
    + Len(OpeningTag(3)) + Len(ClosingTag(3))

\* Instance 4194303 is whatever device is asked.
Resolved(d, object) ==
  IF object = <<OBJECT_DEVICE, BACNET_MAX_INSTANCE>> THEN d[PROP_OBJECT_IDENTIFIER]
                                                     ELSE object

\* handler_read_property.
HandleRead(d, s, request) ==
  LET Reply(r, found) ==
        IF found.error = <<>>
        THEN IF AckLen(r) + Len(found.octets) > request.maxResp
             THEN Abort("SEGMENTATION_NOT_SUPPORTED") ELSE Result(found.octets)
        ELSE IF found.error[1] = "ABORT" THEN Abort(found.error[2])
        ELSE Error(found.error)
      ReplyTo(r) == Reply(r, ReadProperty(d, s, r))
      Decoded(asked) ==
        IF "reject" \in DOMAIN asked THEN Reject(asked.reject)
        ELSE ReplyTo([asked EXCEPT !.object = Resolved(d, @)])
  IN IF request.segmented THEN Abort("SEGMENTATION_NOT_SUPPORTED")
     ELSE Decoded(ReadOf(request.octets))

\* handler_write_property.
HandleWrite(d, s, request) ==
  LET Written(to) == Outcome(to.device, IF to.error = <<>> THEN Ack ELSE Error(to.error))
      Decoded(w) == IF WellFormed(w) THEN Written(WriteProperty(d, s, w))
                                     ELSE Outcome(d, Abort("OTHER"))
  IN IF request.segmented THEN Outcome(d, Abort("SEGMENTATION_NOT_SUPPORTED"))
     ELSE Decoded(WriteOf(request.octets))

\* handler_write_property_multiple has a loop over the objects of the request
\* and, in it, one over the properties of an object.  Where they have got to:
\* the device, the object whose properties are being written, if any, the
\* octets that are left, and the reply so far.
NoObject == <<>>
Position(d, object, rest, reply) ==
  [device |-> d, object |-> object, rest |-> rest, reply |-> reply]

\* Both loops have ended: at the first property that fails, or with the request.
IsOver(l) == l.reply # Ack \/ (l.object = NoObject /\ l.rest = <<>>)

\* Why octets are rejected of which more than len are needed.
Lacking(octets, len) ==
  IF Len(octets) <= len THEN "MISSING_REQUIRED_PARAMETER" ELSE "INVALID_TAG"

\* A round of the outer loop begins: the next object and its opening tag.
NextObject(l) ==
  IF \/ Len(l.rest) <= 5 \/ DecodeTag(l.rest).number # 0
     \/ ~IsOpening(Rest(l.rest, 5)) \/ DecodeTag(Rest(l.rest, 5)).number # 1
  THEN [l EXCEPT !.reply = Reject(Lacking(l.rest, 5))]
  ELSE Position(l.device, ObjectIdOf(SubSeq(l.rest, 2, 5)), Rest(l.rest, 6), Ack)

\* Mutant: an error does not end the loop.
NextPropertyOn(l, s) ==
  LET Written(f, to) ==
        IF IsClosing(f.rest) THEN Position(to.device, NoObject, Rest(f.rest, 1), Ack)
        ELSE Position(to.device, l.object, f.rest, Ack)
      Decoded(f) == Written(f, WriteProperty(l.device, s, WriteTo(l.object, f)))
  IN Decoded(PropertyValue(l.rest, 0))

\* A round of the inner loop: a property is written; the closing tag ends it.
NextProperty(l, s) ==
  LET Closes(octets) == IsClosing(octets) /\ DecodeTag(octets).number = 1
      Written(f, w, to) ==
        IF to.error # <<>> THEN Position(to.device, l.object, f.rest, ErrorAt(to.error, w))
        ELSE IF Closes(f.rest) THEN Position(to.device, NoObject, Rest(f.rest, 1), Ack)
        ELSE Position(to.device, l.object, f.rest, Ack)
      Decoded(f) ==
        IF WellFormed(f)
        THEN Written(f, WriteTo(l.object, f), WriteProperty(l.device, s, WriteTo(l.object, f)))
        ELSE [l EXCEPT !.reply = Reject(Lacking(l.rest, 0))]
  IN Decoded(PropertyValue(l.rest, 0))

Round(l, s) ==
  IF IsOver(l) THEN l ELSE IF l.object = NoObject THEN NextObject(l) ELSE NextProperty(l, s)

\* Where the loops are after n rounds.
Rounds(start, s) ==
  LET after[n \in Nat] == IF n = 0 THEN start ELSE Round(after[n - 1], s)
  IN after

\* The loops of handler_write_property_multiple, the outer of which begins in
\* any case: every round takes octets away.
WriteObjects(d, s, octets) ==
  LET start == NextObject(Position(d, NoObject, octets, Ack))
      Ended(end) == Outcome(end.device, end.reply)
  IN Ended(Rounds(start, s)[Len(octets)])

\* handler_write_property_multiple: of a segmented request nothing is decoded,
\* no error is recorded, and it is acknowledged.
HandleWriteMultiple(d, s, request) ==
  IF request.segmented THEN Outcome(d, Ack) ELSE WriteObjects(d, s, request.octets)

\* apdu_handler, of confirmed requests, and handler_unrecognized_service.
Handle(d, s, request) ==
  CASE request.service = "READ_PROPERTY" -> Outcome(d, HandleRead(d, s, request))
    [] request.service = "WRITE_PROPERTY" -> HandleWrite(d, s, request)
    [] request.service = "WRITE_PROP_MULTIPLE" -> HandleWriteMultiple(d, s, request)
    [] OTHER -> Outcome(d, Reject("UNRECOGNIZED_SERVICE"))
-----------------------------------------------------------------------------
(* The steps. *)

ReadRequests == {Request("READ_PROPERTY", ReadRequest(r)) : r \in Reads}
WriteRequests == {Request("WRITE_PROPERTY", WriteRequest(w)) : w \in Writes}

\* Whole, and with a second object cut short after its first octets.
MultipleRequests ==
  {Request("WRITE_PROP_MULTIPLE", MultipleRequest(ws)) : ws \in Multiples}
    \cup {Request("WRITE_PROP_MULTIPLE",
                  MultipleRequest(ws) \o ContextObjectId(0, <<OBJECT_DEVICE, Instance>>))
          : ws \in Multiples}

Requests == ReadRequests \cup WriteRequests \cup MultipleRequests
ASSUME RequestsAreOctets == \A r \in Requests : r.octets \in Seq(0..255)

\* Device_Init and Device_Set_Object_Instance_Number, called by main.
Init ==
  /\ device = [p \in Stored |->
       CASE p = PROP_OBJECT_IDENTIFIER -> <<OBJECT_DEVICE, Instance>>
         [] p = PROP_OBJECT_NAME -> <<0, 111, 99>>
         [] p = PROP_MODEL_NAME -> <<0, 71, 78, 85>>
         [] p = PROP_LOCATION -> <<0, 85, 83, 65>>
         [] p = PROP_DESCRIPTION -> <<0, 115>>
         [] p = PROP_SYSTEM_STATUS -> <<0>>
         [] p = PROP_VENDOR_IDENTIFIER -> <<260>>
         [] p = PROP_APDU_TIMEOUT -> <<3000>>
         [] p = PROP_NUMBER_OF_APDU_RETRIES -> <<3>>
         [] p = PROP_DATABASE_REVISION -> <<1>>]
  /\ sensors \in SensorLists
  /\ pages = <<>>
  /\ rebuilt = FALSE

\* A request of any client is executed.
Receive ==
  \E r \in Requests, segmented \in BOOLEAN :
    /\ device' = Handle(device, sensors, [r EXCEPT !.segmented = segmented]).device
    /\ device'[PROP_DATABASE_REVISION][1] <= MaxRevision
    /\ UNCHANGED <<sensors, pages, rebuilt>>

\* The refresh thread has fetched another list of sensors.
Rebuild ==
  /\ sensors' \in SensorLists
  /\ rebuilt' = (pages # <<>>)
  /\ UNCHANGED <<device, pages>>

\* The client asks for the revision, the length of the list, its elements, and
\* the revision again.
Finished == Len(pages) >= 2 /\ Len(pages) = pages[2][1] + 3

NextRead ==
  LET p == IF \/ Len(pages) = 0
              \/ Len(pages) > 1 /\ Len(pages) = pages[2][1] + 2
           THEN PROP_DATABASE_REVISION ELSE PROP_OBJECT_LIST
  IN [object |-> <<OBJECT_DEVICE, BACNET_MAX_INSTANCE>>, property |-> p,
      index |-> IF p = PROP_OBJECT_LIST THEN Len(pages) - 1 ELSE BACNET_ARRAY_ALL]

Page ==
  /\ ~Finished
  /\ \E reply \in {HandleRead(device, sensors,
                               Request("READ_PROPERTY", ReadRequest(NextRead)))} :
       \/ /\ reply.kind = "ComplexAck"
          /\ pages' = Append(pages, DecodeApplicationData(reply.octets).data)
          /\ UNCHANGED rebuilt
       \/ /\ reply.kind # "ComplexAck"
          /\ pages' = <<>>
          /\ rebuilt' = FALSE
  /\ UNCHANGED <<device, sensors>>

\* It gives up, or has the list.
Restart ==
  /\ pages # <<>>
  /\ pages' = <<>>
  /\ rebuilt' = FALSE
  /\ UNCHANGED <<device, sensors>>

Next == Receive \/ Rebuild \/ Page \/ Restart

Spec == Init /\ [][Next]_vars
-----------------------------------------------------------------------------
(* Properties. *)

\* The variables keep within their types, whatever number or text was written:
\* retries in 8 bits, timeout and vendor in 16, texts in their arrays, the
\* instance in 22 bits.
TypeOK ==
  /\ DOMAIN device = Stored
  /\ device[PROP_OBJECT_IDENTIFIER] \in {OBJECT_DEVICE} \X (0..BACNET_MAX_INSTANCE)
  /\ device[PROP_NUMBER_OF_APDU_RETRIES][1] \in 0..255
  /\ device[PROP_APDU_TIMEOUT][1] \in 0..65535
  /\ device[PROP_VENDOR_IDENTIFIER][1] \in 0..65535
  /\ device[PROP_SYSTEM_STATUS][1] \in {0, 1, 4}
  /\ \A p \in Texts : device[p][1] = 0 /\ Len(device[p]) - 1 <= MaxLength(p)
  /\ device[PROP_DATABASE_REVISION][1] \in 1..MaxRevision
  /\ sensors \in SensorLists
  /\ rebuilt \in BOOLEAN

\* What a client can see of the device once it knows its number.
Seen(d, p) ==
  HandleRead(d, sensors, Request("READ_PROPERTY", ReadRequest(
    [object |-> d[PROP_OBJECT_IDENTIFIER], property |-> p, index |-> BACNET_ARRAY_ALL])))

\* The properties of the handlers do not depend on the client that reads the
\* list, so they are stated where it reads nothing.
Quiet == pages = <<>>

\* Whether the variable of the property can hold the value.
Fits(w) == Narrowed(w.property, w.value.data) = w.value.data

\* A client that has got a SimpleAck for a write (h_wp.c) and then reads the
\* property (h_rp.c) is told the very value it has written, through both
\* codings, if the property can hold it; and no other property has changed
\* but the Database_Revision.
AcknowledgedWritesAreReadBack ==
  LET Kept(w, before, after) ==
        /\ Fits(w) => DecodeApplicationData(after[w.property].octets).data = w.value.data
        /\ \A p \in Stored \ {w.property, PROP_DATABASE_REVISION} : after[p] = before[p]
      ReadBack(w, outcome) ==
        outcome.reply = Ack =>
          \E view \in {[d \in {device, outcome.device} |-> [p \in Stored |-> Seen(d, p)]]} :
            Kept(w, view[device], view[outcome.device])
  IN Quiet => \A w \in Writes :
       ReadBack(w, HandleWrite(device, sensors,
                               Request("WRITE_PROPERTY", WriteRequest(w))))

\* The device after the first n writes of a sequence, each on its own.
AfterWrites(ws, n) ==
  FoldLeft(LAMBDA d, w : HandleWrite(d, sensors,
                           Request("WRITE_PROPERTY", WriteRequest(w))).device,
           device, SubSeq(ws, 1, n))

\* WritePropertyMultiple (h_wpm.c) does what the same writes would do one by
\* one, up to the first that fails: an acknowledgement says all are in effect,
\* an error names the first that is not, and no later one has been done.  A
\* request whose last object is cut short is rejected although the writes
\* before it are in effect.
ErrorsNameTheFirstUnwritten ==
  LET Alone(d, w) ==
        HandleWrite(d, sensors, Request("WRITE_PROPERTY", WriteRequest(w))).reply
      Whole(ws, outcome, after) ==
        IF outcome.reply = Ack
        THEN /\ outcome.device = after[Len(ws)]
             /\ \A n \in DOMAIN ws : Alone(after[n - 1], ws[n]) = Ack
        ELSE \E n \in DOMAIN ws :
               /\ outcome.device = after[n - 1]
               /\ outcome.reply.kind = "Error"
               /\ outcome.reply.at = <<ws[n].object, ws[n].property, ws[n].index>>
               /\ Alone(outcome.device, ws[n]) = Error(outcome.reply.error)
      Cut(outcome, cut) ==
        /\ cut.device = outcome.device
        /\ outcome.reply = Ack => cut.reply.kind = "Reject"
      Holds(ws, outcomes) ==
        /\ Whole(ws, outcomes[1], [n \in 0..Len(ws) |-> AfterWrites(ws, n)])
        /\ Cut(outcomes[1], outcomes[2])
      Ends == <<(* whole *) <<>>, (* cut *) ContextObjectId(0, <<OBJECT_DEVICE, Instance>>)>>
  IN Quiet => \A ws \in Multiples :
       Holds(ws, [i \in 1..2 |-> HandleWriteMultiple(device, sensors,
               Request("WRITE_PROP_MULTIPLE", MultipleRequest(ws) \o Ends[i]))])

NamesAreUnique(d) ==
  \A i \in DOMAIN sensors : sensors[i].name # d[PROP_OBJECT_NAME]

\* A client that has lost the reply sends its request again (tsm.c), and the
\* server does not recognise it.  Executing it twice gives the same reply and
\* the same properties as executing it once, but for the revision, unless the
\* request has given the device another number, or the backend a sensor the
\* name of the device: what was the device's own name is then a duplicate.
RetriesAreHarmless ==
  LET Same(once, twice) ==
        once.device[PROP_OBJECT_IDENTIFIER] = device[PROP_OBJECT_IDENTIFIER] =>
         /\ twice.reply = once.reply
         /\ \A p \in Stored \ {PROP_DATABASE_REVISION} :
              twice.device[p] = once.device[p]
  IN Quiet /\ NamesAreUnique(device) =>
       \A r \in WriteRequests \cup MultipleRequests :
         \A once \in {Handle(device, sensors, r)} :
           \A twice \in {Handle(once.device, sensors, r)} : Same(once, twice)

\* "All the object names in a device must be unique" (device.c): no request
\* makes the device's name that of a sensor, the last of the list included.
\* The backend can, with a sensor that has the device's name.
NamesStayUnique ==
  Quiet /\ NamesAreUnique(device) =>
    \A r \in Requests : NamesAreUnique(Handle(device, sensors, r).device)

\* A client that has read the list element by element and found the same
\* Database_Revision before and after has the list as it is, in spite of the
\* writes in between, unless the table of sensors was replaced meanwhile: the
\* refresh thread does not count its changes in the Database_Revision.
PagedListIsTrue ==
  [][ ~Finished /\ Finished' /\ ~rebuilt /\ pages'[1] = pages'[Len(pages')] =>
        SubSeq(pages', 3, Len(pages') - 1) = ObjectList(device, sensors) ]_vars
=============================================================================
