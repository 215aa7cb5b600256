----------------------------- MODULE NetworkLayer -----------------------------
(***************************************************************************)
(* The network layer of a device that is no router: src/npdu.c,            *)
(* main/handler/h_npdu.c, and how src/bvlc.c and src/bip.c turn addresses  *)
(* into datagrams.  An address is the IP address and port of the neighbour *)
(* (mac), the network behind it, 0 for none, and the station there (adr).  *)
(* The server keeps one, src, that every datagram it receives writes into  *)
(* and every reply is sent to.                                             *)
(***************************************************************************)
EXTENDS Codec

BACNET_PROTOCOL_VERSION == 1
BACNET_BROADCAST_NETWORK == 65535
MAX_MAC_LEN == 7
HOP_COUNT_DEFAULT == 255
PDU_TYPE_CONFIRMED_SERVICE_REQUEST == 0

Address(mac, net, adr) == [mac |-> mac, net |-> net, adr |-> adr]

\* bip_get_my_address, bip_get_broadcast_address.
MyAddress(mac) == Address(mac, 0, <<>>)
BroadcastAddress(mac) == Address(mac, BACNET_BROADCAST_NETWORK, <<>>)

\* bvlc_internet_to_bacnet_address.
Received(mac) == Address(mac, 0, <<>>)
-----------------------------------------------------------------------------
(* The header of an NPDU. *)

HasDestination(dest) == dest.net # 0
HasSource(src) == src.net # 0 /\ src.adr # <<>>

\* A network, the length of an address, the address.
Specifier(address) ==
  Octets(address.net, 2) \o <<Len(address.adr)>> \o address.adr

\* npdu_encode_pdu, with what npdu_encode_npdu_data sets: no message of the
\* network layer, normal priority.
EncodeNpdu(dest, src, expectingReply) ==
  <<BACNET_PROTOCOL_VERSION,
    (IF HasDestination(dest) THEN 32 ELSE 0) + (IF HasSource(src) THEN 8 ELSE 0)
      + (IF expectingReply THEN 4 ELSE 0)>>
    \o (IF HasDestination(dest) THEN Specifier(dest) ELSE <<>>)
    \o (IF HasSource(src) THEN Specifier(src) ELSE <<>>)
    \o IF HasDestination(dest) THEN <<HOP_COUNT_DEFAULT>> ELSE <<>>

Bit(octet, weight) == (octet \div weight) % 2 = 1

\* A specifier at the start of the octets, if there is one.
Specified(present, octets) ==
  IF present
  THEN [net |-> Number(SubSeq(octets, 1, 2)), len |-> octets[3],
        adr |-> SubSeq(octets, 4, octets[3] + 3), rest |-> Rest(octets, octets[3] + 3)]
  ELSE [net |-> 0, len |-> 0, adr |-> <<>>, rest |-> octets]

\* Mutant: the hop count is expected with an address only.
HopsOfStations(to) == IF to.len # 0 THEN 1 ELSE 0

\* The octets of the hop count.
Hops(to) == IF to.net # 0 THEN 1 ELSE 0

\* npdu_decode: src is the address the datalink has set.  What it says of a
\* network layer message is not needed, the handler discards it.
DecodeNpdu(octets, src) ==
  LET control == octets[2]
      to == Specified(Bit(control, 32), Rest(octets, 2))
      from == Specified(Bit(control, 8), to.rest)
  IN [networkLayerMessage |-> Bit(control, 128),
      ok |-> to.len <= MAX_MAC_LEN /\ from.len <= MAX_MAC_LEN,
      dest |-> Address(<<>>, to.net, to.adr),
      src |-> Address(src.mac,
                      IF Bit(control, 8) \/ src.net # BACNET_BROADCAST_NETWORK
                      THEN from.net ELSE src.net,
                      from.adr),
      apdu |-> Rest(from.rest, Hops(to))]

\* The tests of npdu_handler: which NPDUs it hands to apdu_handler.
Passes(octets, npdu) ==
  /\ octets[1] = BACNET_PROTOCOL_VERSION
  /\ ~npdu.networkLayerMessage
  /\ npdu.ok
  /\ npdu.dest.net \in {0, BACNET_BROADCAST_NETWORK}
  /\ ~(/\ npdu.dest.net = BACNET_BROADCAST_NETWORK
       /\ npdu.apdu[1] \div 16 = PDU_TYPE_CONFIRMED_SERVICE_REQUEST)
-----------------------------------------------------------------------------
(* What is sent. *)

\* bvlc_send_pdu: to all of a network, of this one or of the one behind a
\* neighbour, or to a neighbour.
SendPdu(dest, octets) ==
  [kind |-> IF dest.net = BACNET_BROADCAST_NETWORK \/ dest.mac = <<>> THEN "broadcast"
            ELSE IF dest.net > 0 /\ dest.adr = <<>> THEN "network broadcast"
            ELSE "unicast",
   mac |-> dest.mac,
   octets |-> octets]
=============================================================================
