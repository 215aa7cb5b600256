-------------------------------- MODULE Bbmd --------------------------------
(***************************************************************************)
(* Broadcasts over several subnets, src/bvlc.c. Each subnet has one        *)
(* broadcast management device (BBMD), which runs this server. It forwards *)
(* the broadcasts of its subnet to the other BBMDs in its broadcast        *)
(* distribution table and to the foreign devices, which live on subnets    *)
(* without a BBMD and have registered with it for a time.                  *)
(*                                                                         *)
(* A subnet is named by its BBMD. A datagram to a host or foreign device   *)
(* is heard as it is sent, since these do nothing on hearing it. Datagrams *)
(* to a BBMD take time and may be lost. What a BBMD broadcasts on its own  *)
(* subnet it also receives, as its socket is bound to every address of the *)
(* host and the port it sends to. Nothing in the program turns the network *)
(* address translation on, so it is left out.                              *)
(***************************************************************************)
EXTENDS Integers, FiniteSets

CONSTANTS
  Bbmds,           \* BBMDs, and the subnets they are on
  Hosts,           \* other devices on these subnets
  ForeignDevices,  \* devices that register with a BBMD
  Home,            \* the subnet of a host, the BBMD of a foreign device
  Sources,         \* the nodes that broadcast, each one NPDU
  MaxBbmdEntries,  \* MAX_BBMD_ENTRIES
  MaxFdEntries,    \* MAX_FD_ENTRIES
  Masks,           \* assignments of "unicast" or "directed" to the BBMDs
  TimesToLive,     \* with which foreign devices register
  Grace,           \* 30 seconds
  ElapsedSeconds,  \* between two calls of bvlc_maintenance_timer
  NoDevice

Nodes == Bbmds \cup Hosts \cup ForeignDevices
Entries == 1..MaxFdEntries

ASSUME BbmdAssumption ==
  /\ Home \in [Hosts \cup ForeignDevices -> Bbmds]
  /\ Bbmds \cap Hosts = {} /\ Bbmds \cap ForeignDevices = {} /\ Hosts \cap ForeignDevices = {}
  /\ Sources \subseteq Nodes /\ NoDevice \notin Nodes
  /\ MaxBbmdEntries \in Nat \ {0} /\ MaxFdEntries \in Nat \ {0}
  /\ Masks \subseteq [Bbmds -> {"unicast", "directed"}]
  /\ TimesToLive \subseteq Nat /\ Grace \in Nat \ {0} /\ ElapsedSeconds \subseteq Nat \ {0}

VARIABLES
  mask,        \* the distribution masks, which all tables agree on
  BBMD_Table,  \* the BBMDs in each BBMD's table
  FD_Table,    \* the foreign devices of each BBMD
  network,     \* datagrams on their way to a BBMD
  sent,        \* the nodes that have broadcast
  heard,       \* history: how often a node got the NPDU of another
  audience,    \* history: who has to hear it
  promised     \* history: seconds that a foreign device may rely on

tables == <<mask, BBMD_Table, FD_Table, promised>>
broadcasts == <<network, sent, heard, audience>>
vars == <<tables, broadcasts>>

Functions == {"original", "distribute", "forwarded"}
Datagrams == [fn : Functions, from : Nodes, to : Bbmds, source : Sources]
Datagram(fn, from, to, source) == [fn |-> fn, from |-> from, to |-> to, source |-> source]

NoEntry == [device |-> NoDevice, time_to_live |-> 0, seconds_remaining |-> 0]
FdEntry == [device : ForeignDevices, time_to_live : TimesToLive, seconds_remaining : Nat \ {0}]

TypeOK ==
  /\ mask \in Masks
  /\ BBMD_Table \in [Bbmds -> SUBSET Bbmds]
  /\ FD_Table \in [Bbmds -> [Entries -> FdEntry \cup {NoEntry}]]
  /\ network \in SUBSET Datagrams
  /\ sent \in SUBSET Sources
  /\ heard \in [Sources -> [Nodes -> Nat]]
  /\ audience \in [Sources -> SUBSET Nodes]
  /\ promised \in [ForeignDevices -> Nat]

Init ==
  /\ mask \in Masks
  /\ BBMD_Table = [b \in Bbmds |-> {}]
  /\ FD_Table = [b \in Bbmds |-> [i \in Entries |-> NoEntry]]
  /\ network = {} /\ sent = {}
  /\ heard = [s \in Sources |-> [n \in Nodes |-> 0]]
  /\ audience = [s \in Sources |-> {}]
  /\ promised = [f \in ForeignDevices |-> 0]

-----------------------------------------------------------------------------
(* The tables.                                                             *)

EntriesOf(table, f) == {i \in Entries : table[i].device = f}
First(S) == CHOOSE i \in S : \A j \in S : i <= j
Registered(b) == {FD_Table[b][i].device : i \in Entries} \ {NoDevice}

(* Whoever is on the way when a table changes may hear it or not.          *)
InFlight == {d.source : d \in network}
Disturbed(sources) == [s \in Sources |-> IF s \in sources THEN {} ELSE audience[s]]

(* bvlc_create_bdt: the message names the BBMDs of S. If they are too many *)
(* the table holds the first of them and the sender is told of a failure.  *)
WriteBdt(b, S) ==
  /\ \E T \in SUBSET S :
       /\ Cardinality(T) = IF Cardinality(S) <= MaxBbmdEntries THEN Cardinality(S)
                           ELSE MaxBbmdEntries
       /\ BBMD_Table' = [BBMD_Table EXCEPT ![b] = T]
  /\ audience' = Disturbed(InFlight)
  /\ UNCHANGED <<mask, FD_Table, promised, network, sent, heard>>

(* bvlc_register_foreign_device: the entry it has, or the first free one.  *)

(* Mutant: the entry it has is not looked for.                             *)
EntryForNew(table, f) == EntriesOf(table, NoDevice)

EntryFor(table, f) ==
  IF EntriesOf(table, f) # {} THEN EntriesOf(table, f) ELSE EntriesOf(table, NoDevice)

Register(f, time_to_live) ==
  LET b == Home[f]
      S == EntryFor(FD_Table[b], f)
      entry == [device |-> f, time_to_live |-> time_to_live,
                seconds_remaining |-> time_to_live + Grace]
  IN /\ S # {}
     /\ FD_Table' = [FD_Table EXCEPT ![b][First(S)] = entry]
     /\ promised' = [promised EXCEPT ![f] = time_to_live + Grace]
     /\ audience' = Disturbed(InFlight)
     /\ UNCHANGED <<mask, BBMD_Table, network, sent, heard>>

(* bvlc_delete_foreign_device: anybody may ask for it.                     *)
Delete(b, f) ==
  LET S == EntriesOf(FD_Table[b], f)
  IN /\ S # {}
     /\ FD_Table' = [FD_Table EXCEPT ![b][First(S)] = NoEntry]
     /\ promised' = [promised EXCEPT ![f] = 0]
     /\ audience' = Disturbed(InFlight)
     /\ UNCHANGED <<mask, BBMD_Table, network, sent, heard>>

(* Mutants: the time that has passed is not compared with what is left; an *)
(* entry without any time left stays.                                      *)
AgedBelowZero(entry, seconds) ==
  IF entry = NoEntry \/ entry.seconds_remaining = seconds THEN NoEntry
  ELSE [entry EXCEPT !.seconds_remaining = @ - seconds]
AgedToOne(entry, seconds) ==
  IF entry = NoEntry \/ entry.seconds_remaining < seconds THEN NoEntry
  ELSE IF entry.seconds_remaining = seconds THEN [entry EXCEPT !.seconds_remaining = 1]
  ELSE [entry EXCEPT !.seconds_remaining = @ - seconds]

Aged(entry, seconds) ==
  IF entry = NoEntry \/ entry.seconds_remaining <= seconds THEN NoEntry
  ELSE [entry EXCEPT !.seconds_remaining = @ - seconds]

(* bvlc_maintenance_timer.                                                 *)
Timer(b, seconds) ==
  /\ Registered(b) # {}
  /\ FD_Table' = [FD_Table EXCEPT ![b] = [i \in Entries |-> Aged(FD_Table[b][i], seconds)]]
  /\ promised' =
       [f \in ForeignDevices |->
         IF Home[f] # b THEN promised[f]
         ELSE IF promised[f] <= seconds THEN 0 ELSE promised[f] - seconds]
  /\ audience' = Disturbed(InFlight)
  /\ UNCHANGED <<mask, BBMD_Table, network, sent, heard>>

-----------------------------------------------------------------------------
(* Whom a BBMD sends to.                                                   *)

HostsOf(b) == {h \in Hosts : Home[h] = b}
Peers(b) == BBMD_Table[b] \ {b}

(* bvlc_bdt_forward_npdu: to the BBMD, or to all on its subnet.            *)
ToPeers(b, s) == {Datagram("forwarded", b, c, s) : c \in Peers(b)}
HostsOfPeers(b) == UNION {HostsOf(c) : c \in {c \in Peers(b) : mask[c] = "directed"}}

(* bvlc_fdt_forward_npdu, to the foreign devices other than the source.    *)
(* Mutant: to the source, too.                                             *)
ForeignWithSource(b, s) == Registered(b)
Foreign(b, s) == Registered(b) \ {s}

(* bvlc_forward_npdu: all on the subnet, the BBMD included.                *)
ToSubnet(b, s) == {Datagram("forwarded", b, b, s)}

(* bvlc_bdt_member_mask_is_unicast: the mask of the sender, never its own. *)
(* Mutants: its own is not left out; nobody is a member.                   *)
IsUnicastMemberOrSelf(b, c) == c \in BBMD_Table[b] /\ mask[c] = "unicast"
IsNoUnicastMember(b, c) == FALSE
IsUnicastMember(b, c) == c \in Peers(b) /\ mask[c] = "unicast"

HeardBy(s, listeners) ==
  [heard EXCEPT ![s] = [n \in Nodes |-> heard[s][n] + (IF n \in listeners THEN 1 ELSE 0)]]

-----------------------------------------------------------------------------
(* A node broadcasts (bvlc_send_pdu): on its subnet, or, a foreign device, *)
(* through its BBMD.                                                       *)

(* The BBMD it starts from.                                                *)
Origin(s) == IF s \in Bbmds THEN s ELSE Home[s]

Broadcast(s) ==
  /\ s \notin sent
  /\ sent' = sent \cup {s}
  /\ \/ /\ s \in ForeignDevices
        /\ network' = network \cup {Datagram("distribute", s, Origin(s), s)}
        /\ UNCHANGED heard
     \/ /\ s \notin ForeignDevices
        /\ network' = network \cup {Datagram("original", s, Origin(s), s)}
        /\ heard' = HeardBy(s, HostsOf(Origin(s)) \ {s})
  /\ audience' =
       [audience EXCEPT ![s] =
         IF \A b \in Bbmds : BBMD_Table[b] = Bbmds
         THEN (Bbmds \cup Hosts \cup UNION {Registered(b) : b \in Bbmds}) \ {s} ELSE {}]
  /\ UNCHANGED tables

(* bvlc_receive, by the function of the datagram.                          *)
ReceiveOriginal(d) ==
  LET b == d.to s == d.source
  IN /\ d.fn = "original"
     /\ network' = (network \ {d}) \cup ToPeers(b, s)
     /\ heard' = HeardBy(s, {b} \cup HostsOfPeers(b) \cup Foreign(b, s))
     /\ UNCHANGED <<tables, sent, audience>>

(* It is not handed to the device itself, which hears it from the subnet.  *)
ReceiveDistribute(d) ==
  LET b == d.to s == d.source
  IN /\ d.fn = "distribute"
     /\ network' = (network \ {d}) \cup ToSubnet(b, s) \cup ToPeers(b, s)
     /\ heard' = HeardBy(s, HostsOf(b) \cup HostsOfPeers(b) \cup Foreign(b, s))
     /\ UNCHANGED <<tables, sent, audience>>

(* Mutant: it is passed on to the other BBMDs.                             *)
ReceiveForwardedToAll(d) ==
  LET b == d.to s == d.source
  IN /\ d.fn = "forwarded"
     /\ network' = (network \ {d}) \cup ToPeers(b, s)
     /\ heard' = HeardBy(s, {b} \cup HostsOfPeers(b) \cup Foreign(b, s))
     /\ heard[s][b] < 4
     /\ UNCHANGED <<tables, sent, audience>>

ReceiveForwarded(d) ==
  LET b == d.to s == d.source rebroadcast == IsUnicastMember(b, d.from)
  IN /\ d.fn = "forwarded"
     /\ network' = (network \ {d}) \cup (IF rebroadcast THEN ToSubnet(b, s) ELSE {})
     /\ heard' = HeardBy(s, {b} \cup Foreign(b, s) \cup (IF rebroadcast THEN HostsOf(b) ELSE {}))
     /\ UNCHANGED <<tables, sent, audience>>

Lose(d) ==
  /\ network' = network \ {d}
  /\ audience' = Disturbed({d.source})
  /\ UNCHANGED <<tables, sent, heard>>

Next ==
  \/ \E b \in Bbmds, S \in SUBSET Bbmds : WriteBdt(b, S)
  \/ \E f \in ForeignDevices, time_to_live \in TimesToLive : Register(f, time_to_live)
  \/ \E b \in Bbmds, f \in ForeignDevices : Delete(b, f)
  \/ \E b \in Bbmds, seconds \in ElapsedSeconds : Timer(b, seconds)
  \/ \E s \in Sources : Broadcast(s)
  \/ \E d \in network :
       ReceiveOriginal(d) \/ ReceiveDistribute(d) \/ ReceiveForwarded(d) \/ Lose(d)

Spec == Init /\ [][Next]_vars

-----------------------------------------------------------------------------
(* Properties.                                                             *)

(* A foreign device has at most one entry, in the table of its BBMD only,  *)
(* and has it for the time to live and the grace period since it last      *)
(* registered, unless it was deleted: however registrations, deletions and *)
(* late timer calls follow one another, no entry is purged early, kept or  *)
(* doubled.                                                                *)
RegisteredAsPromised ==
  \A b \in Bbmds, f \in ForeignDevices :
    LET S == EntriesOf(FD_Table[b], f)
    IN /\ \A i, j \in S : i = j
       /\ S # {} <=> Home[f] = b /\ promised[f] > 0
       /\ \A i \in S : FD_Table[b][i].seconds_remaining = promised[f]

(* A host never hears a broadcast twice, whichever of the tables are       *)
(* written already: BBMDs that use the same kind of mask do not forward to *)
(* a subnet what it has heard.                                             *)
HostsHearOnce == \A s \in Sources, h \in Hosts : heard[s][h] <= 1

(* No host or foreign device gets its own broadcast back.                  *)
NoEcho == \A s \in Sources \ Bbmds : heard[s][s] = 0

(* Forwarding ends. A BBMD hears what it broadcasts on its subnet for      *)
(* another node once more, and its foreign devices with it, but no more    *)
(* often than that.                                                        *)
NoStorm == \A s \in Sources, n \in Nodes : heard[s][n] <= 2

(* When all tables are complete, and neither a table changes nor a         *)
(* datagram is lost on the way, every BBMD, every host and every foreign   *)
(* device that is registered hears the broadcast.                          *)
EveryoneHears ==
  \A s \in Sources : s \notin InFlight => \A n \in audience[s] : heard[s][n] >= 1
=============================================================================
