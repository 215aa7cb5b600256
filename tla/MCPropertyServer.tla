-------------------------- MODULE MCPropertyServer --------------------------
(* Instance of PropertyServer, ReadMultiple, Discovery and Datagrams for TLC. *)
EXTENDS Datagrams

DeviceOf(n) == <<OBJECT_DEVICE, n>>
Text(chars) == [tag |-> Tag.CHARACTER_STRING, data |-> <<0>> \o chars]
Unsigned(n) == [tag |-> Tag.UNSIGNED_INT, data |-> <<n>>]
Enumerated(n) == [tag |-> Tag.ENUMERATED, data |-> <<n>>]
ObjectId(id) == [tag |-> Tag.OBJECT_ID, data |-> id]

\* A property of the device with number 1, written without index or priority.
W(p, v) == [object |-> DeviceOf(1), property |-> p, index |-> BACNET_ARRAY_ALL,
            value |-> v, priority |-> BACNET_NO_PRIORITY]

\* The longest name that ReadProperty can still put into a reply.
ALongName == [i \in 1..1459 |-> 65]
Input(n) ==
  [instance |-> n, name |-> <<0, 64 + n>>, description |-> <<0, 96 + n>>,
   value |-> <<65, 160, 0, n>>, uploaded |-> <<0, 49>>]
MCClock == [time |-> <<12, 30, 0, 0>>, date |-> <<119, 6, 14, 5>>,
            offset |-> -480, dst |-> 1]

MCSensorLists == {<<>>, <<Input(1)>>, <<Input(2), Input(1)>>}

MCWrites ==
  {W(PROP_OBJECT_IDENTIFIER, ObjectId(DeviceOf(2))),
   W(PROP_OBJECT_IDENTIFIER, ObjectId(DeviceOf(1))),
   [W(PROP_OBJECT_IDENTIFIER, ObjectId(DeviceOf(1))) EXCEPT !.object = DeviceOf(2)],
   W(PROP_OBJECT_IDENTIFIER, ObjectId(<<OBJECT_ANALOG_INPUT, 1>>)),
   W(PROP_OBJECT_NAME, Text(ALongName)),
   W(PROP_OBJECT_NAME, Text(<<65>>)),
   W(PROP_OBJECT_NAME, Text(<<>>)),
   W(PROP_OBJECT_NAME, Text(<<10>>)),
   W(PROP_OBJECT_NAME, Unsigned(1)),
   [W(PROP_OBJECT_NAME, Text(<<111, 99>>)) EXCEPT !.priority = 8],
   [W(PROP_OBJECT_NAME, Text(<<67>>)) EXCEPT !.priority = 17],
   [W(PROP_OBJECT_NAME, Text(<<67>>)) EXCEPT !.index = 1],
   [W(PROP_OBJECT_NAME, Text(<<67>>)) EXCEPT !.object = DeviceOf(BACNET_MAX_INSTANCE)],
   W(PROP_DESCRIPTION, Text(<<97, 0, 98>>)),
   W(PROP_DESCRIPTION, [tag |-> Tag.CHARACTER_STRING, data |-> <<4, 0, 97>>]),
   W(PROP_MODEL_NAME, Text([i \in 1..33 |-> 97])),
   W(PROP_VENDOR_IDENTIFIER, Unsigned(256)),
   W(PROP_NUMBER_OF_APDU_RETRIES, Unsigned(259)),
   W(PROP_APDU_TIMEOUT, Unsigned(68536)),
   W(PROP_SYSTEM_STATUS, Enumerated(0)),
   W(PROP_SYSTEM_STATUS, Enumerated(3)),
   W(PROP_SYSTEM_STATUS, Enumerated(300)),
   W(PROP_VENDOR_IDENTIFIER, [tag |-> Tag.SIGNED_INT, data |-> <<-2>>]),
   [W(PROP_OBJECT_LIST, ObjectId(DeviceOf(1))) EXCEPT !.index = 1],
   W(PROP_PRESENT_VALUE, [tag |-> Tag.NULL, data |-> <<>>]),
   [W(PROP_PRESENT_VALUE, [tag |-> Tag.REAL, data |-> <<65, 160, 0, 0>>])
      EXCEPT !.object = <<OBJECT_ANALOG_INPUT, 1>>, !.priority = 16],
   [W(PROP_PRESENT_VALUE, [tag |-> Tag.REAL, data |-> <<65, 160, 0>>])
      EXCEPT !.object = <<OBJECT_ANALOG_INPUT, 1>>]}

MCMultiples ==
  LET name == W(PROP_OBJECT_NAME, Text(<<67>>))
      vendor == W(PROP_VENDOR_IDENTIFIER, Unsigned(256))
      status == W(PROP_SYSTEM_STATUS, Enumerated(3))
      number == W(PROP_OBJECT_IDENTIFIER, ObjectId(DeviceOf(2)))
      value == [W(PROP_PRESENT_VALUE, [tag |-> Tag.BOOLEAN, data |-> <<1>>])
                  EXCEPT !.object = <<OBJECT_ANALOG_INPUT, 1>>]
  IN {<<name, vendor>>, <<name, status, vendor>>, <<vendor, value, name>>,
      <<number, vendor>>,
      <<W(PROP_OBJECT_NAME, Text(<<65>>)), name>>,
      <<[W(PROP_OBJECT_LIST, ObjectId(DeviceOf(1))) EXCEPT !.index = 2], name>>}

MCReads ==
  {[object |-> o, property |-> p, index |-> i] :
     o \in {DeviceOf(1), DeviceOf(BACNET_MAX_INSTANCE), <<OBJECT_ANALOG_INPUT, 1>>},
     p \in {PROP_OBJECT_LIST, PROP_OBJECT_TYPE, PROP_PRESENT_VALUE},
     i \in {BACNET_ARRAY_ALL, 0, 2}}

\* A reference, by default to the whole of a property.
R(o, p) == [object |-> o, property |-> p, index |-> BACNET_ARRAY_ALL]
RI(o, p, i) == [R(o, p) EXCEPT !.index = i]

MCMultipleReads ==
  LET any == DeviceOf(BACNET_MAX_INSTANCE)
      input == <<OBJECT_ANALOG_INPUT, 1>>
  IN {<<R(any, PROP_OBJECT_NAME)>>,
      <<R(any, PROP_ALL)>>,
      <<R(input, PROP_ALL), R(any, PROP_DATABASE_REVISION)>>,
      <<RI(any, PROP_OBJECT_LIST, 0), RI(any, PROP_OBJECT_LIST, 2),
        R(DeviceOf(1), PROP_OBJECT_LIST), RI(DeviceOf(1), PROP_OBJECT_TYPE, 1)>>,
      <<R(DeviceOf(2), PROP_REQUIRED)>>,
      <<R(any, PROP_OPTIONAL), R(input, PROP_OPTIONAL), RI(input, PROP_ALL, 1),
        R(input, PROP_UNITS), R(input, PROP_STATE_TEXT),
        R(input, PROP_CHANGE_OF_STATE_TIME), R(input, PROP_LOCATION)>>,
      <<R(<<19, 1>>, PROP_ALL), R(<<19, 1>>, PROP_OBJECT_NAME)>>}

\* One on the server's subnet, two behind the same router, with an Ethernet
\* address and with a one-octet address, and one that is itself behind a
\* router of the first kind but takes less.
MCClients ==
  LET Client(host, net, adr, max) ==
        [mac |-> <<10, 0, 0, host, 186, 192>>, net |-> net, adr |-> adr, maxApdu |-> max]
  IN {Client(2, 0, <<>>, 1476), Client(3, 5, <<2, 0, 0, 0, 0, 9>>, 1476),
      Client(3, 5, <<2>>, 480), Client(3, 65534, <<1, 2, 3, 4, 5, 6, 7>>, 50)}

MCOrders ==
  LET any == DeviceOf(BACNET_MAX_INSTANCE)
      Read(r) == Request("READ_PROPERTY", ReadRequest(r))
      Write(w) == Request("WRITE_PROPERTY", WriteRequest(w))
  IN {Read(R(any, PROP_OBJECT_NAME)), Read(RI(any, PROP_OBJECT_LIST, 2)),
      Write(W(PROP_VENDOR_IDENTIFIER, Unsigned(256))),
      Write(W(PROP_OBJECT_NAME, Text(<<10>>))),
      Request("WRITE_PROP_MULTIPLE",
        MultipleRequest(<<W(PROP_OBJECT_NAME, Text(<<67>>)),
                          W(PROP_SYSTEM_STATUS, Enumerated(3))>>)),
      Request("READ_PROP_MULTIPLE",
        ReadMultipleRequest(<<R(any, PROP_ALL), RI(any, PROP_OBJECT_LIST, 0)>>)),
      Request("REINITIALIZE_DEVICE", <<>>),
      Request("WHO_IS", WhoIsRequest(NoRange)),
      Request("WHO_HAS", WhoHasRequest(NoRange, [name |-> <<0, 65>>])),
      Request("WHO_HAS", WhoHasRequest(NoRange, [object |-> any]))}

MCRanges == {<<0, 1>>, <<1, 1>>, <<2, 4194303>>, <<300, 256>>}
=============================================================================
