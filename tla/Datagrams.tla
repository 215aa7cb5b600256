------------------------------ MODULE Datagrams ------------------------------
(***************************************************************************)
(* The server from datagram to datagram: the network layer, apdu_handler   *)
(* (src/apdu.c), the handlers of PropertyServer, ReadMultiple and          *)
(* Discovery, and the headers of their replies.                            *)
(***************************************************************************)
EXTENDS ReadMultiple, Discovery, NetworkLayer

CONSTANTS
  Clients,    \* records mac, net, adr, maxApdu
  Orders      \* requests that are sent by each of them, with Request

ServerMac == <<10, 0, 0, 1, 186, 192>>

ServiceChoice ==
  [READ_PROPERTY |-> 12, READ_PROP_MULTIPLE |-> 14, WRITE_PROPERTY |-> 15,
   WRITE_PROP_MULTIPLE |-> 16, REINITIALIZE_DEVICE |-> 20]
SERVICE_UNCONFIRMED_WHO_HAS == 7
SERVICE_UNCONFIRMED_WHO_IS == 8
-----------------------------------------------------------------------------
(* The header of a request. *)

\* encode_max_segs_max_apdu with max_segs 0, decode_max_apdu.
ApduSizes == <<50, 128, 206, 480, 1024, 1476>>
EncodeMaxApdu(max) == CHOOSE k \in 0..5 : ApduSizes[k + 1] = max
DecodeMaxApdu(octet) == IF octet % 16 < 6 THEN ApduSizes[(octet % 16) + 1] ELSE 0

\* rp_encode_apdu and the like: the type of the PDU, what the client accepts,
\* the invoke ID and the service.
ConfirmedApdu(request, max, invokeId) ==
  <<0, EncodeMaxApdu(max), invokeId, ServiceChoice[request.service]>> \o request.octets

\* apdu_decode_confirmed_service_request: a segment has two octets more.
DecodeConfirmed(apdu) ==
  LET segmented == Bit(apdu[1], 8)
      len == IF segmented THEN 5 ELSE 3
      known == {s \in DOMAIN ServiceChoice : ServiceChoice[s] = apdu[len + 1]}
  IN [service |-> IF known = {} THEN "OTHER" ELSE CHOOSE s \in known : TRUE,
      segmented |-> segmented, maxResp |-> DecodeMaxApdu(apdu[2]), invokeId |-> apdu[3],
      octets |-> Rest(apdu, len + 1)]
-----------------------------------------------------------------------------
(* The APDU of a reply. *)

\* rp_ack_encode_apdu_init and _object_property_end around the value.
ReadPropertyAck(r, octets) ==
  ContextObjectId(0, r.object) \o ContextUnsigned(1, r.property)
    \o (IF r.index = BACNET_ARRAY_ALL THEN <<>> ELSE ContextUnsigned(2, r.index))
    \o OpeningTag(3) \o octets \o ClosingTag(3)

\* wpm_error_ack_encode_apdu, after the header.
WriteMultipleError(error, at) ==
  OpeningTag(0) \o ErrorPair(error) \o ClosingTag(0)
    \o OpeningTag(1) \o ContextObjectId(0, at[1]) \o ContextUnsigned(1, at[2])
    \o (IF at[3] = BACNET_ARRAY_ALL THEN <<>> ELSE ContextUnsigned(2, at[3]))
    \o ClosingTag(1)

AbortReason == [OTHER |-> 0, SEGMENTATION_NOT_SUPPORTED |-> 4]
RejectReason ==
  [INVALID_TAG |-> 4, MISSING_REQUIRED_PARAMETER |-> 5, TOO_MANY_ARGUMENTS |-> 7,
   UNRECOGNIZED_SERVICE |-> 9]

\* encode_simple_ack, bacerror_encode_apdu, reject_encode_apdu,
\* abort_encode_apdu, and the acknowledgements of the two reads.
ReplyApdu(d, request, reply) ==
  LET Header(type) == <<type, request.invokeId, ServiceChoice[request.service]>>
      Asked(r) == [r EXCEPT !.object = Resolved(d, @)]
  IN CASE reply.kind = "SimpleAck" -> Header(32)
       [] reply.kind = "ComplexAck" ->
            Header(48) \o IF request.service = "READ_PROP_MULTIPLE"
                          THEN Rest(reply.octets, 3)
                          ELSE ReadPropertyAck(Asked(ReadOf(request.octets)), reply.octets)
       [] reply.kind = "Error" ->
            Header(80) \o IF "at" \in DOMAIN reply
                          THEN WriteMultipleError(reply.error, reply.at)
                          ELSE ErrorPair(reply.error)
       [] reply.kind = "Reject" -> <<96, request.invokeId, RejectReason[reply.reason]>>
       [] reply.kind = "Abort" -> <<113, request.invokeId, AbortReason[reply.reason]>>
-----------------------------------------------------------------------------
(* From datagram to datagram. *)

\* What apdu_handler makes of the first octets of a request; it ignores an
\* unconfirmed one it has no handler for.  (What answers do is in Tsm, Cov.)
DecodeApdu(apdu) ==
  CASE apdu[1] \div 16 = PDU_TYPE_CONFIRMED_SERVICE_REQUEST -> DecodeConfirmed(apdu)
    [] apdu[1] \div 16 = 1 ->
         [service |-> CASE apdu[2] = SERVICE_UNCONFIRMED_WHO_IS -> "WHO_IS"
                        [] apdu[2] = SERVICE_UNCONFIRMED_WHO_HAS -> "WHO_HAS"
                        [] OTHER -> "IGNORED",
          octets |-> Rest(apdu, 2)]
    [] OTHER -> [service |-> "IGNORED", octets |-> <<>>]

Announcement(choice, octets) == [kind |-> "Announcement", choice |-> choice, octets |-> octets]

\* apdu_handler: the handler a request goes to.
HandleApdu(d, s, request) ==
  CASE request.service = "READ_PROP_MULTIPLE" -> Outcome(d, HandleReadMultiple(d, s, request))
    [] request.service = "WHO_IS" -> Outcome(d, Announcement(0, HandleWhoIs(d, request.octets)))
    [] request.service = "WHO_HAS" -> Outcome(d, Announcement(1, HandleWhoHas(d, s, request.octets)))
    [] request.service = "IGNORED" -> Outcome(d, Announcement(0, Silence))
    [] OTHER -> Handle(d, s, request)

\* A handler sends its reply to the source of the request; Send_I_Am and
\* Send_I_Have send to everyone, if there is something to say.
Sent(d, src, request, reply) ==
  LET Datagram(dest, apdu) ==
        SendPdu(dest, EncodeNpdu(dest, MyAddress(ServerMac), FALSE) \o apdu)
  IN IF reply.kind = "Announcement"
     THEN IF reply.octets = Silence THEN <<>>
          ELSE <<Datagram(BroadcastAddress(ServerMac), <<16, reply.choice>> \o reply.octets)>>
     ELSE <<Datagram(src, ReplyApdu(d, request, reply))>>

Served(d, s, src, request) ==
  {[device |-> outcome.device, sent |-> Sent(d, src, request, outcome.reply)] :
     outcome \in {HandleApdu(d, s, request)}}

\* One round of the loop in server(): what may come of a datagram.
Serve(d, s, datagram) ==
  UNION {IF Passes(datagram.octets, npdu)
         THEN UNION {Served(d, s, npdu.src, request) : request \in {DecodeApdu(npdu.apdu)}}
         ELSE {[device |-> d, sent |-> <<>>]} :
           npdu \in {DecodeNpdu(datagram.octets, Received(datagram.mac))}}
-----------------------------------------------------------------------------
(* Properties. *)

\* rp_ack_decode_service_request, as the client of this repository reads it.
AckOf(octets) ==
  LET Read(p, index, rest) ==
        [object |-> ObjectIdOf(SubSeq(octets, 2, 5)), property |-> Number(p.content),
         index |-> index, value |-> SubSeq(rest, 2, Len(rest) - 1)]
      Indexed(p, i) == IF i.number = 2 THEN Read(p, Number(i.content), i.rest)
                       ELSE Read(p, BACNET_ARRAY_ALL, p.rest)
      Property(p) == IF IsOpening(p.rest) THEN Read(p, BACNET_ARRAY_ALL, p.rest)
                     ELSE Indexed(p, Field(p.rest))
  IN Property(Field(Rest(octets, 5)))

\* An order as a client sends it, by its router if it has one, to the server
\* alone or to every network.
IsSearch(order) == order.service \in {"WHO_IS", "WHO_HAS"}
Ordered(c, order, everyone, invokeId) ==
  LET apdu == IF IsSearch(order)
              THEN <<16, IF order.service = "WHO_IS" THEN SERVICE_UNCONFIRMED_WHO_IS
                                                     ELSE SERVICE_UNCONFIRMED_WHO_HAS>>
                     \o order.octets
              ELSE ConfirmedApdu(order, c.maxApdu, invokeId)
      to == IF everyone THEN BroadcastAddress(ServerMac) ELSE MyAddress(ServerMac)
  IN [mac |-> c.mac,
      octets |-> EncodeNpdu(to, Address(c.mac, c.net, c.adr), ~IsSearch(order)) \o apdu]

\* What a datagram of the server tells the one that receives it.
Told(sent) == DecodeNpdu(sent.octets, Received(ServerMac))

\* Every confirmed request is answered once, to the address it came from and,
\* through the router it came by, to the network and the station of the client
\* (npdu.c, h_npdu.c, bvlc.c); with the invoke ID of the request (apdu.c); in no
\* more octets than this client takes, else by an abort that says so; and
\* otherwise with the same octets whichever client asks, with what was asked
\* for and its value in them.  The same request to everyone is ignored.  A
\* search is answered to everyone, whoever asks and however.
RepliesReachTheirClients ==
  LET invokeId == 7
      Reaches(c, sent) ==
        /\ Len(sent) = 1
        /\ sent[1].kind = "unicast" /\ sent[1].mac = c.mac
        /\ Told(sent[1]).dest.net = c.net /\ Told(sent[1]).dest.adr = c.adr
        /\ Told(sent[1]).apdu[2] = invokeId
      Fitting(apdu, max) ==
        IF Len(apdu) <= max THEN apdu
        ELSE <<113, invokeId, AbortReason.SEGMENTATION_NOT_SUPPORTED>>
      Echoes(r, apdu) ==
        apdu[1] = 48 => AckOf(Rest(apdu, 3)) = r @@ [value |-> ReadProperty(device, sensors, r).octets]
      AsFor(c, alone, full) ==
        /\ Reaches(c, alone.sent)
        /\ alone.device = full.device
        /\ Told(alone.sent[1]).apdu = Fitting(Told(full.sent[1]).apdu, c.maxApdu)
      Holds(order, most, answers) ==
        IF IsSearch(order)
        THEN \A q \in DOMAIN answers :
               /\ answers[q] = answers[<<most, TRUE>>]
               /\ order.service = "WHO_IS" => answers[q].sent # <<>>
               /\ \A i \in DOMAIN answers[q].sent :
                    /\ answers[q].sent[i].kind = "broadcast"
                    /\ Told(answers[q].sent[i]).dest.net = BACNET_BROADCAST_NETWORK
                    /\ Told(answers[q].sent[i]).apdu[1] = 16
        ELSE /\ \A c \in Clients :
                  /\ AsFor(c, answers[<<c, FALSE>>], answers[<<most, FALSE>>])
                  /\ answers[<<c, TRUE>>] = [device |-> device, sent |-> <<>>]
             /\ order.service = "READ_PROPERTY" =>
                  Echoes([ReadOf(order.octets) EXCEPT !.object = Resolved(device, @)],
                         Told(answers[<<most, FALSE>>].sent[1]).apdu)
  IN Quiet => \A order \in Orders :
       \A datagrams \in {[q \in Clients \X BOOLEAN |-> Ordered(q[1], order, q[2], invokeId)]} :
       \A answers \in {[q \in DOMAIN datagrams |->
                          CHOOSE a \in Serve(device, sensors, datagrams[q]) : TRUE]} :
         Holds(order, CHOOSE c \in Clients : \A other \in Clients : other.maxApdu <= c.maxApdu,
               answers)
=============================================================================
