----------------------------- MODULE BbmdProofs -----------------------------
(***************************************************************************)
(* Registrations and the forwarding of broadcasts, for any number of       *)
(* subnets, hosts, foreign devices and entries.                            *)
(***************************************************************************)
EXTENDS Bbmd, LeastElements

-----------------------------------------------------------------------------
(* Types.                                                                  *)

LEMMA FirstIsMember ==
  ASSUME NEW S \in SUBSET Entries, S # {}
  PROVE  First(S) \in S
<1>1. S \in SUBSET Nat
  BY DEF Entries
<1>2. \E i \in S : \A j \in S : i <= j
  BY <1>1, LeastNatural
<1>3. QED BY <1>2 DEF First

LEMMA OriginType ==
  ASSUME NEW s \in Sources
  PROVE  Origin(s) \in Bbmds /\ s \in Nodes /\ Bbmds \subseteq Nodes
BY BbmdAssumption DEF Origin, Nodes

LEMMA RegisteredType ==
  ASSUME TypeOK, NEW b \in Bbmds
  PROVE  Registered(b) \subseteq ForeignDevices
<1>1. \A i \in Entries : FD_Table[b][i] \in FdEntry \cup {NoEntry}
  BY DEF TypeOK
<1>2. QED BY <1>1 DEF Registered, FdEntry, NoEntry

LEMMA HeardByType ==
  ASSUME TypeOK, NEW s \in Sources, NEW H
  PROVE  /\ HeardBy(s, H) \in [Sources -> [Nodes -> Nat]]
         /\ \A n \in Nodes :
              HeardBy(s, H)[s][n] = heard[s][n] + (IF n \in H THEN 1 ELSE 0)
         /\ \A t \in Sources : t # s => HeardBy(s, H)[t] = heard[t]
<1>1. heard \in [Sources -> [Nodes -> Nat]]
  BY DEF TypeOK
<1> DEFINE g == [n \in Nodes |-> heard[s][n] + (IF n \in H THEN 1 ELSE 0)]
<1>2. g \in [Nodes -> Nat]
  BY <1>1
<1>3. HeardBy(s, H) = [heard EXCEPT ![s] = g]
  BY DEF HeardBy
<1>4. \A n \in Nodes : g[n] = heard[s][n] + (IF n \in H THEN 1 ELSE 0)
  OBVIOUS
<1> HIDE DEF g
<1>5. QED BY <1>1, <1>2, <1>3, <1>4

LEMMA DatagramType ==
  ASSUME NEW fn \in Functions, NEW from \in Nodes, NEW to \in Bbmds, NEW s \in Sources
  PROVE  /\ Datagram(fn, from, to, s) \in Datagrams
         /\ Datagram(fn, from, to, s).fn = fn /\ Datagram(fn, from, to, s).from = from
         /\ Datagram(fn, from, to, s).to = to /\ Datagram(fn, from, to, s).source = s
BY DEF Datagram, Datagrams

LEMMA SendTypes ==
  ASSUME TypeOK, NEW b \in Bbmds, NEW s \in Sources
  PROVE  /\ ToPeers(b, s) \subseteq Datagrams /\ ToSubnet(b, s) \subseteq Datagrams
         /\ \A d \in ToPeers(b, s) :
              d.fn = "forwarded" /\ d.from = b /\ d.to \in Peers(b) /\ d.source = s
         /\ \A d \in ToSubnet(b, s) :
              d.fn = "forwarded" /\ d.from = b /\ d.to = b /\ d.source = s
<1>1. Peers(b) \subseteq Bbmds /\ b \in Nodes /\ "forwarded" \in Functions
  BY DEF TypeOK, Peers, Nodes, Functions
<1>2. QED BY <1>1, DatagramType DEF ToPeers, ToSubnet

LEMMA DisturbedType ==
  ASSUME TypeOK, NEW S
  PROVE  Disturbed(S) \in [Sources -> SUBSET Nodes]
BY DEF TypeOK, Disturbed

LEMMA NoEntryIsNone ==
  /\ NoEntry \notin FdEntry /\ NoEntry.device = NoDevice
  /\ \A e \in FdEntry : e.device # NoDevice /\ e.device \in ForeignDevices
BY BbmdAssumption DEF FdEntry, NoEntry, Nodes

LEMMA AgedType ==
  ASSUME NEW e \in FdEntry \cup {NoEntry}, NEW seconds \in ElapsedSeconds
  PROVE  /\ Aged(e, seconds) \in FdEntry \cup {NoEntry}
         /\ e = NoEntry => Aged(e, seconds) = NoEntry
         /\ e # NoEntry /\ e.seconds_remaining <= seconds => Aged(e, seconds) = NoEntry
         /\ e # NoEntry /\ ~(e.seconds_remaining <= seconds) =>
              /\ Aged(e, seconds) \in FdEntry
              /\ Aged(e, seconds).device = e.device
              /\ Aged(e, seconds).seconds_remaining = e.seconds_remaining - seconds
<1>1. seconds \in Nat \ {0}
  BY BbmdAssumption
<1>2. CASE e = NoEntry
  BY <1>2 DEF Aged
<1>3. CASE e # NoEntry
  <2>1. e \in FdEntry
    BY <1>3
  <2>2. CASE e.seconds_remaining <= seconds
    BY <1>3, <2>2 DEF Aged
  <2>3. CASE ~(e.seconds_remaining <= seconds)
    <3>1. e.seconds_remaining - seconds \in Nat \ {0}
      BY <1>1, <2>1, <2>3 DEF FdEntry
    <3>2. Aged(e, seconds) = [e EXCEPT !.seconds_remaining = e.seconds_remaining - seconds]
      BY <1>3, <2>3 DEF Aged
    <3>3. QED BY <2>1, <1>3, <2>3, <3>1, <3>2 DEF FdEntry
  <2>4. QED BY <2>2, <2>3
<1>4. QED BY <1>2, <1>3

LEMMA InitType == Init => TypeOK
<1> SUFFICES ASSUME Init PROVE TypeOK
  OBVIOUS
<1>1. \A b \in Bbmds : [i \in Entries |-> NoEntry] \in [Entries -> FdEntry \cup {NoEntry}]
  OBVIOUS
<1>2. QED BY <1>1 DEF Init, TypeOK

LEMMA WriteBdtType ==
  ASSUME TypeOK, NEW b \in Bbmds, NEW S \in SUBSET Bbmds, WriteBdt(b, S)
  PROVE  TypeOK'
<1>1. BBMD_Table' \in [Bbmds -> SUBSET Bbmds]
  BY DEF TypeOK, WriteBdt
<1>2. audience' \in [Sources -> SUBSET Nodes]
  BY DisturbedType DEF WriteBdt
<1>3. QED BY <1>1, <1>2 DEF TypeOK, WriteBdt

LEMMA RegisterEntry ==
  ASSUME TypeOK, NEW f \in ForeignDevices, NEW time_to_live \in TimesToLive,
         Register(f, time_to_live)
  PROVE  \E i \in EntryFor(FD_Table[Home[f]], f), entry \in FdEntry :
           /\ entry.device = f /\ entry.seconds_remaining = time_to_live + Grace
           /\ FD_Table' = [FD_Table EXCEPT ![Home[f]] = [@ EXCEPT ![i] = entry]]
<1>1. Home[f] \in Bbmds /\ time_to_live \in Nat /\ Grace \in Nat \ {0}
  BY BbmdAssumption
<1> DEFINE S == EntryFor(FD_Table[Home[f]], f)
           entry == [device |-> f, time_to_live |-> time_to_live,
                     seconds_remaining |-> time_to_live + Grace]
<1>2. entry \in FdEntry /\ entry.device = f /\ entry.seconds_remaining = time_to_live + Grace
  BY <1>1 DEF FdEntry
<1>3. S \in SUBSET Entries
  BY DEF EntryFor, EntriesOf
<1>4. S # {} /\ FD_Table' = [FD_Table EXCEPT ![Home[f]] = [@ EXCEPT ![First(S)] = entry]]
  BY DEF Register
<1>5. First(S) \in S
  BY <1>3, <1>4, FirstIsMember
<1> HIDE DEF S, entry
<1>6. QED BY <1>2, <1>4, <1>5 DEF S

LEMMA RegisterType ==
  ASSUME TypeOK, NEW f \in ForeignDevices, NEW time_to_live \in TimesToLive,
         Register(f, time_to_live)
  PROVE  TypeOK'
<1>1. Home[f] \in Bbmds /\ time_to_live + Grace \in Nat
  BY BbmdAssumption
<1>2. FD_Table' \in [Bbmds -> [Entries -> FdEntry \cup {NoEntry}]]
  <2>1. PICK i \in EntryFor(FD_Table[Home[f]], f), entry \in FdEntry :
          /\ entry.device = f /\ entry.seconds_remaining = time_to_live + Grace
          /\ FD_Table' = [FD_Table EXCEPT ![Home[f]] = [@ EXCEPT ![i] = entry]]
    BY RegisterEntry
  <2>2. FD_Table \in [Bbmds -> [Entries -> FdEntry \cup {NoEntry}]]
    BY DEF TypeOK
  <2>3. [FD_Table[Home[f]] EXCEPT ![i] = entry] \in [Entries -> FdEntry \cup {NoEntry}]
    BY <1>1, <2>2
  <2>4. QED BY <1>1, <2>1, <2>2, <2>3
<1>3. audience' \in [Sources -> SUBSET Nodes]
  BY DisturbedType DEF Register
<1>4. promised' \in [ForeignDevices -> Nat]
  BY <1>1 DEF TypeOK, Register
<1>5. QED BY <1>2, <1>3, <1>4 DEF TypeOK, Register

LEMMA DeleteEntry ==
  ASSUME TypeOK, NEW b \in Bbmds, NEW f \in ForeignDevices, Delete(b, f)
  PROVE  \E i \in EntriesOf(FD_Table[b], f) :
           FD_Table' = [FD_Table EXCEPT ![b] = [@ EXCEPT ![i] = NoEntry]]
<1> DEFINE S == EntriesOf(FD_Table[b], f)
<1>1. S \in SUBSET Entries
  BY DEF EntriesOf
<1>2. S # {} /\ FD_Table' = [FD_Table EXCEPT ![b] = [@ EXCEPT ![First(S)] = NoEntry]]
  BY DEF Delete
<1> HIDE DEF S
<1>3. QED BY <1>1, <1>2, FirstIsMember DEF S

LEMMA DeleteType ==
  ASSUME TypeOK, NEW b \in Bbmds, NEW f \in ForeignDevices, Delete(b, f)
  PROVE  TypeOK'
<1>1. FD_Table' \in [Bbmds -> [Entries -> FdEntry \cup {NoEntry}]]
  <2>1. PICK i \in EntriesOf(FD_Table[b], f) :
          FD_Table' = [FD_Table EXCEPT ![b] = [@ EXCEPT ![i] = NoEntry]]
    BY DeleteEntry
  <2>2. FD_Table \in [Bbmds -> [Entries -> FdEntry \cup {NoEntry}]]
    BY DEF TypeOK
  <2>3. [FD_Table[b] EXCEPT ![i] = NoEntry] \in [Entries -> FdEntry \cup {NoEntry}]
    BY <2>2
  <2>4. QED BY <2>1, <2>2, <2>3
<1>2. audience' \in [Sources -> SUBSET Nodes]
  BY DisturbedType DEF Delete
<1>3. promised' \in [ForeignDevices -> Nat]
  BY DEF TypeOK, Delete
<1>4. QED BY <1>1, <1>2, <1>3 DEF TypeOK, Delete

LEMMA TimerType ==
  ASSUME TypeOK, NEW b \in Bbmds, NEW seconds \in ElapsedSeconds, Timer(b, seconds)
  PROVE  TypeOK'
<1>1. FD_Table' \in [Bbmds -> [Entries -> FdEntry \cup {NoEntry}]]
  <2>1. FD_Table \in [Bbmds -> [Entries -> FdEntry \cup {NoEntry}]]
    BY DEF TypeOK
  <2>2. [i \in Entries |-> Aged(FD_Table[b][i], seconds)]
          \in [Entries -> FdEntry \cup {NoEntry}]
    BY <2>1, AgedType
  <2>3. QED BY <2>1, <2>2 DEF Timer
<1>2. audience' \in [Sources -> SUBSET Nodes]
  BY DisturbedType DEF Timer
<1>3. promised' \in [ForeignDevices -> Nat]
  <2>1. \A f \in ForeignDevices : promised[f] \in Nat
    BY DEF TypeOK
  <2>2. seconds \in Nat
    BY BbmdAssumption
  <2>3. \A n \in Nat : ~(n <= seconds) => n - seconds \in Nat
    BY <2>2
  <2>4. QED BY <2>1, <2>3 DEF Timer
<1>4. QED BY <1>1, <1>2, <1>3 DEF TypeOK, Timer

LEMMA BroadcastType ==
  ASSUME TypeOK, NEW s \in Sources, Broadcast(s)
  PROVE  TypeOK'
<1>1. Origin(s) \in Bbmds /\ s \in Nodes
  BY OriginType
<1>2. network' \subseteq Datagrams
  <2>1. network \subseteq Datagrams /\ {"distribute", "original"} \subseteq Functions
    BY DEF TypeOK, Functions
  <2>2. Datagram("distribute", s, Origin(s), s) \in Datagrams
        /\ Datagram("original", s, Origin(s), s) \in Datagrams
    BY <1>1, <2>1, DatagramType
  <2>3. QED BY <2>1, <2>2 DEF Broadcast
<1>3. heard' \in [Sources -> [Nodes -> Nat]]
  BY HeardByType DEF TypeOK, Broadcast
<1>4. audience' \in [Sources -> SUBSET Nodes]
  <2> DEFINE all == (Bbmds \cup Hosts \cup UNION {Registered(b) : b \in Bbmds}) \ {s}
  <2>1. all \in SUBSET Nodes
    BY RegisteredType DEF Nodes
  <2>2. \E A \in {all, {}} : audience' = [audience EXCEPT ![s] = A]
    BY DEF Broadcast
  <2> HIDE DEF all
  <2>3. QED BY <2>1, <2>2 DEF TypeOK
<1>5. sent' \in SUBSET Sources
  BY DEF TypeOK, Broadcast
<1>6. QED BY <1>2, <1>3, <1>4, <1>5 DEF TypeOK, Broadcast, tables

LEMMA ReceiveType ==
  ASSUME TypeOK, NEW d \in network,
         ReceiveOriginal(d) \/ ReceiveDistribute(d) \/ ReceiveForwarded(d) \/ Lose(d)
  PROVE  TypeOK'
<1>1. d.to \in Bbmds /\ d.source \in Sources
  BY DEF TypeOK, Datagrams
<1>2. network \subseteq Datagrams /\ ToPeers(d.to, d.source) \subseteq Datagrams
      /\ ToSubnet(d.to, d.source) \subseteq Datagrams
  BY <1>1, SendTypes DEF TypeOK
<1>3. network' \subseteq Datagrams
  BY <1>2 DEF ReceiveOriginal, ReceiveDistribute, ReceiveForwarded, Lose
<1>4. heard' \in [Sources -> [Nodes -> Nat]]
  BY <1>1, HeardByType
  DEF TypeOK, ReceiveOriginal, ReceiveDistribute, ReceiveForwarded, Lose
<1>5. audience' \in [Sources -> SUBSET Nodes]
  BY DisturbedType DEF TypeOK, ReceiveOriginal, ReceiveDistribute, ReceiveForwarded, Lose
<1>6. UNCHANGED <<tables, sent>>
  BY DEF ReceiveOriginal, ReceiveDistribute, ReceiveForwarded, Lose
<1>7. QED BY <1>3, <1>4, <1>5, <1>6 DEF TypeOK, tables

LEMMA NextType == TypeOK /\ [Next]_vars => TypeOK'
<1> SUFFICES ASSUME TypeOK, [Next]_vars PROVE TypeOK'
  OBVIOUS
<1>1. CASE UNCHANGED vars
  BY <1>1 DEF TypeOK, vars, tables, broadcasts
<1>2. CASE Next
  BY <1>2, WriteBdtType, RegisterType, DeleteType, TimerType, BroadcastType, ReceiveType
  DEF Next
<1>3. QED BY <1>1, <1>2

(* Every entry names a foreign device for as long as it has time left, and *)
(* what is under way is a datagram to a BBMD, in every reachable state.    *)
THEOREM Typing == Spec => []TypeOK
<1>1. QED BY InitType, NextType, PTL DEF Spec

-----------------------------------------------------------------------------
(* Registrations.                                                          *)

(* What RegisteredAsPromised says of one table and one foreign device.     *)
AsPromised(table, here, seconds, f) ==
  LET S == EntriesOf(table, f)
  IN /\ \A i, j \in S : i = j
     /\ S # {} <=> here /\ seconds > 0
     /\ \A i \in S : table[i].seconds_remaining = seconds

LEMMA PromiseOfEach ==
  /\ RegisteredAsPromised <=>
       \A b \in Bbmds, f \in ForeignDevices :
         AsPromised(FD_Table[b], Home[f] = b, promised[f], f)
  /\ RegisteredAsPromised' <=>
       \A b \in Bbmds, f \in ForeignDevices :
         AsPromised(FD_Table[b]', Home[f] = b, promised[f]', f)
BY DEF RegisteredAsPromised, AsPromised, EntriesOf

LEMMA PromiseOfTable ==
  ASSUME NEW table, NEW new, NEW here, NEW n, NEW f \in ForeignDevices,
         AsPromised(table, here, n, f),
         \A i \in Entries : table[i].device = f \/ new[i].device = f => new[i] = table[i]
  PROVE  AsPromised(new, here, n, f)
<1>1. EntriesOf(new, f) = EntriesOf(table, f)
  BY DEF EntriesOf
<1>2. \A i \in EntriesOf(table, f) : new[i] = table[i]
  BY DEF EntriesOf
<1>3. QED BY <1>1, <1>2 DEF AsPromised

LEMMA RegisterPromise ==
  ASSUME TypeOK, RegisteredAsPromised, NEW f \in ForeignDevices,
         NEW time_to_live \in TimesToLive, Register(f, time_to_live)
  PROVE  RegisteredAsPromised'
<1>1. Home[f] \in Bbmds /\ time_to_live + Grace \in Nat \ {0}
  BY BbmdAssumption
<1>2. PICK i \in EntryFor(FD_Table[Home[f]], f), entry \in FdEntry :
        /\ entry.device = f /\ entry.seconds_remaining = time_to_live + Grace
        /\ FD_Table' = [FD_Table EXCEPT ![Home[f]] = [@ EXCEPT ![i] = entry]]
  BY RegisterEntry
<1>3. promised' = [promised EXCEPT ![f] = time_to_live + Grace]
  BY DEF Register
<1>4. /\ i \in Entries /\ FD_Table[Home[f]][i].device \in {f, NoDevice}
      /\ EntriesOf(FD_Table[Home[f]], f) \subseteq {i}
  <2>1. \A j, k \in EntriesOf(FD_Table[Home[f]], f) : j = k
    BY <1>1 DEF RegisteredAsPromised
  <2>2. QED BY <2>1 DEF EntryFor, EntriesOf
<1>5. \A c \in Bbmds, g \in ForeignDevices :
        AsPromised(FD_Table[c], Home[g] = c, promised[g], g)
  BY PromiseOfEach
<1>6. ASSUME NEW c \in Bbmds, NEW g \in ForeignDevices
      PROVE  AsPromised(FD_Table[c]', Home[g] = c, promised[g]', g)
  <2>1. CASE c # Home[f]
    <3>1. FD_Table[c]' = FD_Table[c]
      BY <1>1, <1>2, <2>1 DEF TypeOK
    <3>2. g # f => promised[g]' = promised[g]
      BY <1>3 DEF TypeOK
    <3>3. CASE g # f
      BY <1>5, <3>1, <3>2, <3>3
    <3>4. CASE g = f
      BY <1>5, <2>1, <3>1, <3>4 DEF AsPromised
    <3>5. QED BY <3>3, <3>4
  <2>2. CASE c = Home[f] /\ g # f
    <3>1. promised[g]' = promised[g]
      BY <1>3, <2>2 DEF TypeOK
    <3>2. FD_Table[c]' = [FD_Table[c] EXCEPT ![i] = entry]
      BY <1>2, <2>2 DEF TypeOK
    <3>3. FD_Table[c][i].device # g /\ g # NoDevice
      BY <1>4, <2>2, BbmdAssumption DEF Nodes
    <3>4. \A j \in Entries : j # i => FD_Table[c][j]' = FD_Table[c][j]
      BY <3>2 DEF TypeOK
    <3>5. FD_Table[c][i]'.device # g
      BY <1>2, <1>4, <2>2, <3>2 DEF TypeOK
    <3>6. QED BY <1>5, <3>1, <3>3, <3>4, <3>5, PromiseOfTable
  <2>3. CASE c = Home[f] /\ g = f
    <3>1. promised[g]' = time_to_live + Grace
      BY <1>3, <2>3 DEF TypeOK
    <3>2. FD_Table[c]' = [FD_Table[c] EXCEPT ![i] = entry]
      BY <1>2, <2>3 DEF TypeOK
    <3>3. FD_Table[c][i]' = entry /\ \A j \in Entries : j # i => FD_Table[c][j]' = FD_Table[c][j]
      BY <1>4, <3>2 DEF TypeOK
    <3>4. EntriesOf(FD_Table[c]', g) = {i}
      BY <1>2, <1>4, <2>3, <3>3 DEF EntriesOf
    <3>5. promised[g]' > 0
      BY <1>1, <3>1
    <3>6. QED BY <1>2, <2>3, <3>1, <3>3, <3>4, <3>5 DEF AsPromised
  <2>4. QED BY <2>1, <2>2, <2>3
<1>7. QED BY <1>6, PromiseOfEach

LEMMA DeletePromise ==
  ASSUME TypeOK, RegisteredAsPromised, NEW b \in Bbmds, NEW f \in ForeignDevices, Delete(b, f)
  PROVE  RegisteredAsPromised'
<1>1. PICK i \in EntriesOf(FD_Table[b], f) :
        FD_Table' = [FD_Table EXCEPT ![b] = [@ EXCEPT ![i] = NoEntry]]
  BY DeleteEntry
<1>2. promised' = [promised EXCEPT ![f] = 0]
  BY DEF Delete
<1>3. \A c \in Bbmds, g \in ForeignDevices :
        AsPromised(FD_Table[c], Home[g] = c, promised[g], g)
  BY PromiseOfEach
<1>4. /\ i \in Entries /\ FD_Table[b][i].device = f /\ Home[f] = b
      /\ EntriesOf(FD_Table[b], f) = {i}
  BY <1>3 DEF AsPromised, EntriesOf
<1>5. /\ FD_Table[b]' = [FD_Table[b] EXCEPT ![i] = NoEntry]
      /\ FD_Table[b][i]' = NoEntry
      /\ \A j \in Entries : j # i => FD_Table[b][j]' = FD_Table[b][j]
  BY <1>1, <1>4 DEF TypeOK
<1>6. NoEntry.device = NoDevice /\ NoDevice \notin ForeignDevices
  BY NoEntryIsNone, BbmdAssumption DEF Nodes
<1>7. ASSUME NEW c \in Bbmds, NEW g \in ForeignDevices
      PROVE  AsPromised(FD_Table[c]', Home[g] = c, promised[g]', g)
  <2>1. CASE g # f
    <3>1. promised[g]' = promised[g]
      BY <1>2, <2>1 DEF TypeOK
    <3>2. c # b => FD_Table[c]' = FD_Table[c]
      BY <1>1 DEF TypeOK
    <3>3. \A j \in Entries : FD_Table[c][j].device = g \/ FD_Table[c][j]'.device = g
            => FD_Table[c][j]' = FD_Table[c][j]
      <4>1. CASE c = b
        BY <1>4, <1>5, <1>6, <2>1, <4>1
      <4>2. CASE c # b
        BY <3>2, <4>2
      <4>3. QED BY <4>1, <4>2
    <3>4. QED BY <1>3, <3>1, <3>3, PromiseOfTable
  <2>2. CASE g = f /\ c # b
    <3>1. FD_Table[c]' = FD_Table[c]
      BY <1>1, <2>2 DEF TypeOK
    <3>2. QED BY <1>3, <1>4, <2>2, <3>1 DEF AsPromised
  <2>3. CASE g = f /\ c = b
    <3>1. promised[g]' = 0
      BY <1>2, <2>3 DEF TypeOK
    <3>2. EntriesOf(FD_Table[c]', g) = {}
      <4>1. \A j \in Entries : j # i => FD_Table[b][j].device # f
        BY <1>4 DEF EntriesOf
      <4>2. \A j \in Entries : FD_Table[b][j]'.device # f
        BY <1>5, <1>6, <4>1
      <4>3. QED BY <2>3, <4>2 DEF EntriesOf
    <3>3. ~(0 > 0)
      OBVIOUS
    <3>4. QED BY <3>1, <3>2, <3>3 DEF AsPromised
  <2>4. QED BY <2>1, <2>2, <2>3
<1>8. QED BY <1>7, PromiseOfEach

LEMMA TimerPromise ==
  ASSUME TypeOK, RegisteredAsPromised, NEW b \in Bbmds, NEW seconds \in ElapsedSeconds,
         Timer(b, seconds)
  PROVE  RegisteredAsPromised'
<1>1. \A c \in Bbmds, g \in ForeignDevices :
        AsPromised(FD_Table[c], Home[g] = c, promised[g], g)
  BY PromiseOfEach
<1>2. ASSUME NEW g \in ForeignDevices, Home[g] # b
      PROVE  promised[g]' = promised[g]
  BY <1>2 DEF Timer
<1>3. ASSUME NEW g \in ForeignDevices, Home[g] = b
      PROVE  promised[g]' = IF promised[g] <= seconds THEN 0 ELSE promised[g] - seconds
  BY <1>3 DEF Timer
<1>4. \A c \in Bbmds : c # b => FD_Table[c]' = FD_Table[c]
  BY DEF Timer, TypeOK
<1>5. \A i \in Entries : FD_Table[b][i]' = Aged(FD_Table[b][i], seconds)
  BY DEF Timer, TypeOK
<1>6. \A i \in Entries : FD_Table[b][i] \in FdEntry \cup {NoEntry}
  BY DEF TypeOK
<1>7. \A g \in ForeignDevices : promised[g] \in Nat
  BY DEF TypeOK
<1>8. seconds \in Nat
  BY BbmdAssumption
<1>9. NoEntry.device = NoDevice /\ NoDevice \notin ForeignDevices
  BY NoEntryIsNone, BbmdAssumption DEF Nodes
<1>10. ASSUME NEW c \in Bbmds, NEW g \in ForeignDevices
       PROVE  AsPromised(FD_Table[c]', Home[g] = c, promised[g]', g)
  <2>1. CASE c # b
    <3>1. CASE Home[g] # b
      BY <1>1, <1>2, <1>4, <2>1, <3>1
    <3>2. CASE Home[g] = b
      BY <1>1, <1>4, <2>1, <3>2 DEF AsPromised
    <3>3. QED BY <3>1, <3>2
  <2>2. CASE c = b
    <3> DEFINE S == EntriesOf(FD_Table[b], g)
    <3>1. /\ \A i, j \in S : i = j
          /\ S # {} <=> Home[g] = b /\ promised[g] > 0
          /\ \A i \in S : FD_Table[b][i].seconds_remaining = promised[g]
      BY <1>1 DEF AsPromised
    <3>2. \A i \in Entries \ S : FD_Table[b][i]'.device # g
      BY <1>5, <1>6, <1>9, AgedType DEF EntriesOf
    <3>3. \A i \in S : FD_Table[b][i] \in FdEntry /\ FD_Table[b][i] # NoEntry
                       /\ FD_Table[b][i].device = g /\ i \in Entries
      BY <1>6, <1>9, NoEntryIsNone DEF EntriesOf
    <3>4. CASE S = {}
      <4>1. EntriesOf(FD_Table[b]', g) = {}
        BY <3>2, <3>4 DEF EntriesOf
      <4>2. ~(Home[g] = b /\ promised[g]' > 0)
        BY <1>3, <1>7, <1>8, <3>1, <3>4
      <4>3. QED BY <2>2, <4>1, <4>2 DEF AsPromised
    <3>5. CASE S # {}
      <4>1. PICK i \in S : S = {i}
        BY <3>1, <3>5
      <4>2. Home[g] = b /\ promised[g] > 0 /\ FD_Table[b][i].seconds_remaining = promised[g]
        BY <3>1, <3>5
      <4>3. CASE promised[g] <= seconds
        <5>1. FD_Table[b][i]' = NoEntry /\ promised[g]' = 0
          BY <1>3, <1>5, <1>6, <3>3, <4>2, <4>3, AgedType
        <5>2. EntriesOf(FD_Table[b]', g) = {}
          BY <1>9, <3>2, <4>1, <5>1 DEF EntriesOf
        <5>3. ~(0 > 0)
          OBVIOUS
        <5>4. QED BY <2>2, <5>1, <5>2, <5>3 DEF AsPromised
      <4>4. CASE ~(promised[g] <= seconds)
        <5>1. /\ FD_Table[b][i]'.device = g
              /\ FD_Table[b][i]'.seconds_remaining = promised[g] - seconds
              /\ promised[g]' = promised[g] - seconds
          BY <1>3, <1>5, <1>6, <3>3, <4>2, <4>4, AgedType
        <5>2. EntriesOf(FD_Table[b]', g) = {i}
          BY <3>2, <3>3, <4>1, <5>1 DEF EntriesOf
        <5>3. promised[g]' > 0
          BY <1>7, <1>8, <4>4, <5>1
        <5>4. QED BY <2>2, <4>2, <5>1, <5>2, <5>3 DEF AsPromised
      <4>5. QED BY <4>3, <4>4
    <3>6. QED BY <3>4, <3>5
  <2>3. QED BY <2>1, <2>2
<1>11. QED BY <1>10, PromiseOfEach

LEMMA NextPromise == TypeOK /\ RegisteredAsPromised /\ [Next]_vars => RegisteredAsPromised'
<1> SUFFICES ASSUME TypeOK, RegisteredAsPromised, [Next]_vars PROVE RegisteredAsPromised'
  OBVIOUS
<1>1. CASE UNCHANGED <<FD_Table, promised>>
  BY <1>1 DEF RegisteredAsPromised, EntriesOf
<1>2. ASSUME NEW b \in Bbmds, NEW S \in SUBSET Bbmds, WriteBdt(b, S)
      PROVE  UNCHANGED <<FD_Table, promised>>
  BY <1>2 DEF WriteBdt
<1>3. ASSUME NEW s \in Sources, Broadcast(s)
      PROVE  UNCHANGED <<FD_Table, promised>>
  BY <1>3 DEF Broadcast, tables
<1>4. ASSUME NEW d \in network,
             ReceiveOriginal(d) \/ ReceiveDistribute(d) \/ ReceiveForwarded(d) \/ Lose(d)
      PROVE  UNCHANGED <<FD_Table, promised>>
  BY <1>4 DEF ReceiveOriginal, ReceiveDistribute, ReceiveForwarded, Lose, tables
<1>5. UNCHANGED vars => UNCHANGED <<FD_Table, promised>>
  BY DEF vars, tables
<1>6. QED
  BY <1>1, <1>2, <1>3, <1>4, <1>5, RegisterPromise, DeletePromise, TimerPromise DEF Next

LEMMA InitPromise == Init => RegisteredAsPromised
<1> SUFFICES ASSUME Init PROVE RegisteredAsPromised
  OBVIOUS
<1>1. ASSUME NEW b \in Bbmds, NEW f \in ForeignDevices
      PROVE  EntriesOf(FD_Table[b], f) = {} /\ promised[f] = 0
  BY NoEntryIsNone, BbmdAssumption DEF Init, EntriesOf, Nodes
<1>2. ~(0 > 0)
  OBVIOUS
<1>3. QED BY <1>1, <1>2 DEF RegisteredAsPromised

(* A registration lasts as long as the foreign device was told, whatever   *)
(* else registers, is deleted or runs out in the same table.               *)
THEOREM RegistrationsLast == Spec => []RegisteredAsPromised
<1>1. TypeOK /\ RegisteredAsPromised /\ [Next]_vars => (TypeOK /\ RegisteredAsPromised)'
  BY NextType, NextPromise
<1>2. QED BY <1>1, InitType, InitPromise, PTL DEF Spec

-----------------------------------------------------------------------------
(* Forwarding.                                                             *)

(* The assumption: all tables hold the same kind of mask.                  *)
OneKindOfMask == \A m \in Masks : \A b, c \in Bbmds : m[b] = m[c]

(* Where a datagram can still be heard. One that no BBMD has taken up is   *)
(* the only one of its source, and nobody has heard it beyond the subnet   *)
(* it started on, or at all if it came from a foreign device. One that was *)
(* forwarded to another BBMD comes from the first BBMD, and if it is to be *)
(* broadcast again the hosts of that subnet have not heard it.             *)
Underway(d) ==
  /\ d.source \in sent
  /\ d.fn # "forwarded" =>
       /\ d.to = Origin(d.source)
       /\ d.fn = "distribute" <=> d.source \in ForeignDevices
       /\ \A e \in network : e.source = d.source => e = d
       /\ \A h \in Hosts :
            Home[h] # d.to \/ d.fn = "distribute" => heard[d.source][h] = 0
  /\ d.fn = "forwarded" =>
       /\ d.from \in Bbmds
       /\ d.from # d.to =>
            /\ d.from = Origin(d.source)
            /\ mask[d.from] = "unicast" => \A h \in HostsOf(d.to) : heard[d.source][h] = 0

Silent == \A s \in Sources \ sent, n \in Nodes : heard[s][n] = 0

Forwarding == (\A d \in network : Underway(d)) /\ Silent

(* The inductive invariant.                                                *)
HearingInv == TypeOK /\ Forwarding /\ HostsHearOnce /\ NoEcho

LEMMA OnTheWay ==
  ASSUME NEW d \in network, Underway(d),
         sent \subseteq sent', mask' = mask, heard[d.source]' = heard[d.source],
         \A e \in network' : e.source = d.source => e \in network
  PROVE  Underway(d)'
BY DEF Underway

LEMMA SameDatagram ==
  ASSUME NEW d \in Datagrams, NEW e \in Datagrams,
         d.fn = e.fn, d.from = e.from, d.to = e.to, d.source = e.source
  PROVE  d = e
BY DEF Datagrams

(* A step in which those hear the broadcast of s who did not start it and, *)
(* if they are hosts, have not heard it.                                   *)
LEMMA HearingStep ==
  ASSUME TypeOK, HostsHearOnce, NoEcho, NEW s \in Sources, NEW L,
         heard' = HeardBy(s, L),
         \A h \in Hosts : h \in L => heard[s][h] = 0,
         s \notin Bbmds => s \notin L
  PROVE  HostsHearOnce' /\ NoEcho'
<1>1. \A t \in Sources, n \in Nodes : heard[t][n] \in Nat
  BY DEF TypeOK
<1>2. /\ \A n \in Nodes : heard[s][n]' = heard[s][n] + (IF n \in L THEN 1 ELSE 0)
      /\ \A t \in Sources : t # s => heard[t]' = heard[t]
  BY HeardByType
<1>3. Hosts \subseteq Nodes /\ Sources \subseteq Nodes
  BY BbmdAssumption DEF Nodes
<1>4. HostsHearOnce'
  <2> SUFFICES ASSUME NEW t \in Sources, NEW h \in Hosts PROVE heard[t][h]' <= 1
    BY DEF HostsHearOnce
  <2>1. heard[t][h] <= 1
    BY DEF HostsHearOnce
  <2>2. CASE t # s
    BY <1>2, <2>1, <2>2
  <2>3. CASE t = s
    BY <1>1, <1>2, <1>3, <2>1, <2>3
  <2>4. QED BY <2>2, <2>3
<1>5. NoEcho'
  <2> SUFFICES ASSUME NEW t \in Sources \ Bbmds PROVE heard[t][t]' = 0
    BY DEF NoEcho
  <2>1. heard[t][t] = 0
    BY DEF NoEcho
  <2>2. CASE t # s
    BY <1>2, <2>1, <2>2
  <2>3. CASE t = s
    BY <1>2, <1>3, <2>1, <2>3
  <2>4. QED BY <2>2, <2>3
<1>6. QED BY <1>4, <1>5

LEMMA ListeningHosts ==
  ASSUME TypeOK, NEW b \in Bbmds, NEW s \in Sources, NEW h \in Hosts
  PROVE  /\ h # b /\ h \notin Foreign(b, s)
         /\ \A c \in Bbmds : h \in HostsOf(c) <=> Home[h] = c
         /\ h \in HostsOfPeers(b) => Home[h] # b /\ mask[Home[h]] = "directed"
<1>1. Foreign(b, s) \subseteq ForeignDevices
  BY RegisteredType DEF Foreign
<1>2. QED BY <1>1, BbmdAssumption DEF HostsOf, HostsOfPeers, Peers

LEMMA BroadcastHearing ==
  ASSUME HearingInv, NEW s \in Sources, Broadcast(s)
  PROVE  Forwarding' /\ HostsHearOnce' /\ NoEcho'
<1> USE DEF HearingInv
<1>1. s \notin sent /\ sent' = sent \cup {s} /\ mask' = mask /\ \A n \in Nodes : heard[s][n] = 0
  BY DEF Broadcast, Forwarding, Silent, tables
<1>2. \A d \in network : d.source # s
  BY <1>1 DEF Forwarding, Underway
<1>3. Origin(s) \in Bbmds /\ s \in Nodes /\ Hosts \subseteq Nodes
  BY OriginType DEF Nodes
<1>4. PICK fn \in {"original", "distribute"}, L \in SUBSET Nodes :
        /\ fn = "distribute" <=> s \in ForeignDevices
        /\ fn = "distribute" => L = {}
        /\ L \subseteq HostsOf(Origin(s)) \ {s}
        /\ network' = network \cup {Datagram(fn, s, Origin(s), s)}
        /\ heard' = HeardBy(s, L)
  <2>1. CASE s \in ForeignDevices
    <3>1. HeardBy(s, {}) = heard
      BY DEF HeardBy, TypeOK
    <3>2. QED BY <2>1, <3>1 DEF Broadcast
  <2>2. CASE s \notin ForeignDevices
    BY <2>2, <1>3 DEF Broadcast, HostsOf
  <2>3. QED BY <2>1, <2>2
<1>5. HostsHearOnce' /\ NoEcho'
  BY <1>1, <1>3, <1>4, HearingStep
<1>6. Silent'
  <2>1. \A t \in Sources \ sent', n \in Nodes : t # s /\ heard[t][n] = 0
    BY <1>1 DEF Forwarding, Silent
  <2>2. QED BY <1>4, <2>1, HeardByType DEF Silent
<1>7. ASSUME NEW d \in network'
      PROVE  Underway(d)'
  <2>1. CASE d \in network
    <3>1. Underway(d) /\ d.source # s /\ d.source \in Sources
      BY <1>2, <2>1 DEF Forwarding, TypeOK, Datagrams
    <3>2. heard[d.source]' = heard[d.source]
      BY <1>4, <3>1, HeardByType
    <3>3. \A e \in network' : e.source = d.source => e \in network
      BY <1>4, <3>1 DEF Datagram
    <3>4. QED BY <1>1, <2>1, <3>1, <3>2, <3>3, OnTheWay
  <2>2. CASE d = Datagram(fn, s, Origin(s), s)
    <3>1. d.fn = fn /\ d.to = Origin(s) /\ d.source = s
      BY <2>2 DEF Datagram
    <3>2. \A e \in network' : e.source = s => e = d
      BY <1>2, <1>4, <2>2
    <3>3. ASSUME NEW h \in Hosts, Home[h] # Origin(s) \/ fn = "distribute"
          PROVE  heard[s][h]' = 0
      <4>1. h \notin L
        BY <1>4, <3>3 DEF HostsOf
      <4>2. QED BY <1>1, <1>3, <1>4, <4>1, HeardByType
    <3>4. QED BY <1>1, <1>4, <3>1, <3>2, <3>3 DEF Underway
  <2>3. QED BY <1>4, <2>1, <2>2
<1>8. QED BY <1>5, <1>6, <1>7 DEF Forwarding

(* A BBMD takes d up, sends those of D and lets L hear it.                 *)
LEMMA ReceiveHearing ==
  ASSUME HearingInv, NEW d \in network, NEW D, NEW L,
         network' = (network \ {d}) \cup D,
         \A e \in D : e.source = d.source,
         heard' = HeardBy(d.source, L),
         UNCHANGED <<tables, sent>>,
         \A h \in Hosts : h \in L => heard[d.source][h] = 0,
         d.source \notin Bbmds => d.source \notin L,
         \A e \in network' : e.source = d.source => Underway(e)'
  PROVE  Forwarding' /\ HostsHearOnce' /\ NoEcho'
<1> USE DEF HearingInv
<1>1. d.source \in Sources /\ d.source \in sent
  BY DEF Forwarding, Underway, TypeOK, Datagrams
<1>2. HostsHearOnce' /\ NoEcho'
  BY <1>1, HearingStep
<1>3. mask' = mask /\ sent' = sent
  BY DEF tables
<1>4. \A t \in Sources : t # d.source => heard[t]' = heard[t]
  BY <1>1, HeardByType
<1>5. Silent'
  BY <1>1, <1>3, <1>4 DEF Forwarding, Silent
<1>6. ASSUME NEW e \in network'
      PROVE  Underway(e)'
  <2>1. CASE e.source = d.source
    BY <2>1
  <2>2. CASE e.source # d.source
    <3>1. e \in network /\ Underway(e) /\ e.source \in Sources
      BY <2>2 DEF Forwarding, TypeOK, Datagrams
    <3>2. \A x \in network' : x.source = e.source => x \in network
      BY <2>2
    <3>3. QED BY <1>3, <1>4, <2>2, <3>1, <3>2, OnTheWay
  <2>3. QED BY <2>1, <2>2
<1>7. QED BY <1>2, <1>5, <1>6 DEF Forwarding

(* The first BBMD forwards, having broadcast it to H, the foreign devices  *)
(* and, on their subnets, the hosts of its peers.                          *)
LEMMA FirstForwarding ==
  ASSUME OneKindOfMask, HearingInv, NEW d \in network, d.fn # "forwarded",
         NEW sends \in SUBSET (ToSubnet(d.to, d.source) \cup ToPeers(d.to, d.source)), NEW L,
         network' = (network \ {d}) \cup sends,
         heard' = HeardBy(d.source, L),
         UNCHANGED <<tables, sent>>,
         L = (IF d.fn = "distribute" THEN HostsOf(d.to) ELSE {d.to})
               \cup HostsOfPeers(d.to) \cup Foreign(d.to, d.source)
  PROVE  Forwarding' /\ HostsHearOnce' /\ NoEcho'
<1> USE DEF HearingInv
<1> DEFINE s == d.source
           b == d.to
<1>1. s \in Sources /\ b \in Bbmds /\ s \in sent
  BY DEF Forwarding, Underway, TypeOK, Datagrams
<1>2. /\ b = Origin(s)
      /\ d.fn = "distribute" <=> s \in ForeignDevices
      /\ \A e \in network : e.source = s => e = d
      /\ \A h \in Hosts : Home[h] # b \/ d.fn = "distribute" => heard[s][h] = 0
  BY DEF Forwarding, Underway
<1>3. \A e \in sends : e.fn = "forwarded" /\ e.from = b /\ e.to \in Bbmds /\ e.source = s
  BY <1>1, SendTypes DEF Peers, TypeOK
<1>4. \A h \in Hosts : h \in L => heard[s][h] = 0
  BY <1>1, <1>2, ListeningHosts
<1>5. s \notin Bbmds => s \notin L
  <2> SUFFICES ASSUME s \notin Bbmds PROVE s \notin L
    OBVIOUS
  <2>1. s \notin Foreign(b, s)
    BY DEF Foreign
  <2>2. CASE s \in ForeignDevices
    <3>1. s \notin Hosts
      BY <2>2, BbmdAssumption
    <3>2. QED BY <1>1, <2>1, <3>1 DEF HostsOf, HostsOfPeers
  <2>3. CASE s \notin ForeignDevices
    <3>1. s \in Hosts /\ Home[s] = b
      BY <1>1, <1>2, <2>3, BbmdAssumption DEF Origin, Nodes
    <3>2. s \notin HostsOfPeers(b)
      BY <1>1, <3>1, ListeningHosts
    <3>3. QED BY <1>1, <1>2, <2>1, <2>3, <3>2
  <2>4. QED BY <2>2, <2>3
<1>6. ASSUME NEW e \in network', e.source = s
      PROVE  Underway(e)'
  <2>1. e \in sends
    BY <1>2, <1>6
  <2>2. e.fn = "forwarded" /\ e.from = b /\ e.to \in Bbmds
    BY <1>1, <1>3, <2>1
  <2>3. ASSUME mask[b]' = "unicast", NEW h \in HostsOf(e.to), e.to # b
        PROVE  heard[s][h]' = 0
    <3>1. mask \in Masks /\ mask' = mask /\ mask[b] = "unicast"
      BY <2>3 DEF TypeOK, tables
    <3>2. h \in Hosts /\ h \in Nodes /\ Home[h] = e.to /\ Home[h] # b
      BY <2>3 DEF HostsOf, Nodes
    <3>3. mask[Home[h]] = "unicast"
      BY <1>1, <2>2, <3>1, <3>2 DEF OneKindOfMask
    <3>4. h \notin HostsOfPeers(b) /\ h \notin Foreign(b, s) /\ h # b /\ h \notin HostsOf(b)
      BY <1>1, <3>2, <3>3, ListeningHosts
    <3>5. h \notin L
      BY <3>4
    <3>6. heard[s][h] = 0
      BY <1>2, <3>2
    <3>7. QED BY <1>1, <3>2, <3>5, <3>6, HeardByType
  <2>4. sent' = sent
    OBVIOUS
  <2>5. QED BY <1>1, <1>2, <1>6, <2>2, <2>3, <2>4 DEF Underway, HostsOf
<1>7. QED BY <1>3, <1>4, <1>5, <1>6, ReceiveHearing

LEMMA OriginalHearing ==
  ASSUME OneKindOfMask, HearingInv, NEW d \in network, ReceiveOriginal(d)
  PROVE  Forwarding' /\ HostsHearOnce' /\ NoEcho'
<1> DEFINE sends == ToPeers(d.to, d.source)
           L == {d.to} \cup HostsOfPeers(d.to) \cup Foreign(d.to, d.source)
<1>1. /\ d.fn = "original" /\ network' = (network \ {d}) \cup sends
      /\ heard' = HeardBy(d.source, L) /\ UNCHANGED <<tables, sent>>
  BY DEF ReceiveOriginal
<1>2. /\ sends \subseteq ToSubnet(d.to, d.source) \cup ToPeers(d.to, d.source)
      /\ L = (IF d.fn = "distribute" THEN HostsOf(d.to) ELSE {d.to})
                \cup HostsOfPeers(d.to) \cup Foreign(d.to, d.source)
  BY <1>1
<1> HIDE DEF sends, L
<1>3. QED BY <1>1, <1>2, FirstForwarding

LEMMA DistributeHearing ==
  ASSUME OneKindOfMask, HearingInv, NEW d \in network, ReceiveDistribute(d)
  PROVE  Forwarding' /\ HostsHearOnce' /\ NoEcho'
<1> DEFINE sends == ToSubnet(d.to, d.source) \cup ToPeers(d.to, d.source)
           L == HostsOf(d.to) \cup HostsOfPeers(d.to) \cup Foreign(d.to, d.source)
<1>1. /\ d.fn = "distribute" /\ network' = (network \ {d}) \cup sends
      /\ heard' = HeardBy(d.source, L) /\ UNCHANGED <<tables, sent>>
  BY DEF ReceiveDistribute
<1>2. /\ sends \subseteq ToSubnet(d.to, d.source) \cup ToPeers(d.to, d.source)
      /\ L = (IF d.fn = "distribute" THEN HostsOf(d.to) ELSE {d.to})
                \cup HostsOfPeers(d.to) \cup Foreign(d.to, d.source)
  BY <1>1
<1> HIDE DEF sends, L
<1>3. QED BY <1>1, <1>2, FirstForwarding

LEMMA ForwardedHearing ==
  ASSUME HearingInv, NEW d \in network, ReceiveForwarded(d)
  PROVE  Forwarding' /\ HostsHearOnce' /\ NoEcho'
<1> USE DEF HearingInv
<1> DEFINE s == d.source
           b == d.to
           rebroadcast == IsUnicastMember(b, d.from)
           D == IF rebroadcast THEN ToSubnet(b, s) ELSE {}
           L == {b} \cup Foreign(b, s) \cup (IF rebroadcast THEN HostsOf(b) ELSE {})
<1>1. s \in Sources /\ b \in Bbmds /\ s \in sent /\ d.fn = "forwarded" /\ d \in Datagrams
  BY DEF Forwarding, Underway, TypeOK, Datagrams, ReceiveForwarded
<1>2. /\ d.from \in Bbmds
      /\ d.from # b =>
           /\ d.from = Origin(s)
           /\ mask[d.from] = "unicast" => \A h \in HostsOf(b) : heard[s][h] = 0
  BY <1>1 DEF Forwarding, Underway
<1>3. rebroadcast => d.from # b /\ mask[d.from] = "unicast"
  BY DEF IsUnicastMember, Peers
<1>4. /\ network' = (network \ {d}) \cup D /\ heard' = HeardBy(d.source, L)
      /\ UNCHANGED <<tables, sent>> /\ mask' = mask
  BY DEF ReceiveForwarded, tables
<1>5. \A e \in D : e.fn = "forwarded" /\ e.from = b /\ e.to = b /\ e.source = s
  BY <1>1, SendTypes
<1>6. \A h \in Hosts : h \in L => rebroadcast /\ Home[h] = b
  BY <1>1, ListeningHosts
<1>7. \A h \in Hosts : h \in L => heard[s][h] = 0
  BY <1>2, <1>3, <1>6 DEF HostsOf
<1>8. s \notin Bbmds => s \notin L
  <2> SUFFICES ASSUME s \notin Bbmds, s \in L PROVE FALSE
    OBVIOUS
  <2>1. s \in Hosts /\ rebroadcast /\ Home[s] = b
    BY <1>1 DEF Foreign, HostsOf
  <2>2. Origin(s) = b
    BY <2>1 DEF Origin
  <2>3. QED BY <1>2, <1>3, <2>1, <2>2
<1>9. ASSUME NEW e \in network', e.source = s
      PROVE  Underway(e)'
  <2>1. CASE e \in D
    <3>1. e.fn = "forwarded" /\ e.from = b /\ e.to = b
      BY <1>5, <2>1
    <3>2. QED BY <1>1, <1>4, <1>9, <3>1 DEF Underway
  <2>2. CASE e \in network /\ e # d
    <3>1. Underway(e) /\ e \in Datagrams
      BY <2>2 DEF Forwarding, TypeOK
    <3>2. e.fn = "forwarded"
      BY <1>9, <2>2, <3>1 DEF Underway
    <3>3. ASSUME e.from # e.to, mask[e.from] = "unicast", NEW h \in HostsOf(e.to)
          PROVE  heard[s][h]' = 0
      <4>1. e.from = Origin(s) /\ heard[s][h] = 0
        BY <1>9, <3>1, <3>2, <3>3 DEF Underway
      <4>2. h \in Hosts /\ h \in Nodes /\ Home[h] = e.to
        BY DEF HostsOf, Nodes
      <4>3. h \notin L
        <5> SUFFICES ASSUME h \in L PROVE FALSE
          OBVIOUS
        <5>1. rebroadcast /\ e.to = b
          BY <1>6, <4>2
        <5>2. d.from = e.from
          BY <1>2, <1>3, <4>1, <5>1
        <5>3. QED BY <1>1, <1>9, <2>2, <3>1, <3>2, <5>1, <5>2, SameDatagram
      <4>4. QED BY <1>1, <1>4, <4>1, <4>2, <4>3, HeardByType
    <3>4. QED BY <1>4, <1>9, <3>1, <3>2, <3>3 DEF Underway, HostsOf
  <2>3. QED BY <1>4, <2>1, <2>2
<1> HIDE DEF L, D
<1>10. QED BY <1>4, <1>5, <1>7, <1>8, <1>9, ReceiveHearing

LEMMA NextHearing == OneKindOfMask /\ HearingInv /\ [Next]_vars => HearingInv'
<1> SUFFICES ASSUME OneKindOfMask, HearingInv, [Next]_vars PROVE HearingInv'
  OBVIOUS
<1> USE DEF HearingInv
<1>1. TypeOK'
  BY NextType
<1>2. ASSUME network' \subseteq network, UNCHANGED <<mask, sent, heard>>
      PROVE  Forwarding' /\ HostsHearOnce' /\ NoEcho'
  <2>1. \A d \in network' : Underway(d)'
    BY <1>2, OnTheWay DEF Forwarding
  <2>2. QED BY <1>2, <2>1 DEF Forwarding, Silent, HostsHearOnce, NoEcho
<1>3. CASE UNCHANGED vars
  BY <1>1, <1>2, <1>3 DEF vars, tables, broadcasts
<1>4. CASE \E b \in Bbmds, S \in SUBSET Bbmds : WriteBdt(b, S)
  BY <1>1, <1>2, <1>4 DEF WriteBdt
<1>5. CASE \E f \in ForeignDevices, time_to_live \in TimesToLive : Register(f, time_to_live)
  BY <1>1, <1>2, <1>5 DEF Register
<1>6. CASE \E b \in Bbmds, f \in ForeignDevices : Delete(b, f)
  BY <1>1, <1>2, <1>6 DEF Delete
<1>7. CASE \E b \in Bbmds, seconds \in ElapsedSeconds : Timer(b, seconds)
  BY <1>1, <1>2, <1>7 DEF Timer
<1>8. CASE \E d \in network : Lose(d)
  BY <1>1, <1>2, <1>8 DEF Lose, tables
<1>9. CASE \E s \in Sources : Broadcast(s)
  BY <1>1, <1>9, BroadcastHearing
<1>10. CASE \E d \in network : ReceiveOriginal(d) \/ ReceiveDistribute(d) \/ ReceiveForwarded(d)
  BY <1>1, <1>10, OriginalHearing, DistributeHearing, ForwardedHearing
<1>11. QED BY <1>3, <1>4, <1>5, <1>6, <1>7, <1>8, <1>9, <1>10 DEF Next

LEMMA InitHearing == Init => HearingInv
<1> SUFFICES ASSUME Init PROVE HearingInv
  OBVIOUS
<1>1. TypeOK
  BY InitType
<1>2. \A s \in Sources, n \in Nodes : heard[s][n] = 0
  BY DEF Init
<1>3. Sources \subseteq Nodes /\ Hosts \subseteq Nodes /\ network = {} /\ 0 <= 1
  BY BbmdAssumption DEF Init, Nodes
<1>4. HostsHearOnce /\ NoEcho
  BY <1>2, <1>3 DEF HostsHearOnce, NoEcho
<1>5. QED BY <1>1, <1>2, <1>3, <1>4 DEF HearingInv, Forwarding, Silent

LEMMA Hearing == OneKindOfMask => (Spec => []HearingInv)
<1>1. SUFFICES ASSUME OneKindOfMask PROVE Spec => []HearingInv
  OBVIOUS
<1>2. HearingInv /\ [Next]_vars => HearingInv'
  BY <1>1, NextHearing
<1>3. QED BY <1>2, InitHearing, PTL DEF Spec

(* However the tables are written, lost or changed while a broadcast is on *)
(* its way, no host hears it twice, as long as they all hold the same kind *)
(* of mask.                                                                *)
THEOREM NoDuplicates == OneKindOfMask => (Spec => []HostsHearOnce)
<1>1. SUFFICES ASSUME OneKindOfMask PROVE Spec => []HostsHearOnce
  OBVIOUS
<1>2. HearingInv => HostsHearOnce
  BY DEF HearingInv
<1>3. Spec => []HearingInv
  BY <1>1, Hearing
<1>4. QED BY <1>2, <1>3, PTL

(* Under the same assumption nobody but a BBMD hears its own broadcast.    *)
THEOREM NothingReturns == OneKindOfMask => (Spec => []NoEcho)
<1>1. SUFFICES ASSUME OneKindOfMask PROVE Spec => []NoEcho
  OBVIOUS
<1>2. HearingInv => NoEcho
  BY DEF HearingInv
<1>3. Spec => []HearingInv
  BY <1>1, Hearing
<1>4. QED BY <1>2, <1>3, PTL

-----------------------------------------------------------------------------
(* How often a broadcast is heard, whatever the masks.                     *)

(* A BBMD and its foreign devices hear all that it takes up; the hosts of  *)
(* its subnet only what is broadcast there.                                *)
Served(b) == {b} \cup {f \in ForeignDevices : Home[f] = b}

(* A BBMD that is about to take up what another forwarded has not heard    *)
(* it, nor sent it to itself yet; once it has, it will hear it once more.  *)
Paced(d) ==
  /\ d.source \in sent
  /\ d.fn # "forwarded" =>
       /\ d.to = Origin(d.source)
       /\ \A e \in network : e.source = d.source => e = d
       /\ \A n \in Nodes :
            heard[d.source][n] <= IF d.fn = "original" /\ n \in HostsOf(d.to) THEN 1 ELSE 0
  /\ d.fn = "forwarded" =>
       /\ d.from \in Bbmds
       /\ d.from # d.to =>
            /\ d.from = Origin(d.source)
            /\ \A n \in Served(d.to) : heard[d.source][n] = 0
            /\ \A h \in HostsOf(d.to) : heard[d.source][h] <= 1
            /\ Datagram("forwarded", d.to, d.to, d.source) \notin network
       /\ d.from = d.to => \A n \in Served(d.to) : heard[d.source][n] <= 1

Pacing == (\A d \in network : Paced(d)) /\ Silent

(* The inductive invariant.                                                *)
PacingInv == TypeOK /\ RegisteredAsPromised /\ Pacing /\ NoStorm

(* Foreign devices are in the table of their own BBMD.                     *)
LEMMA RegisteredAtHome ==
  ASSUME TypeOK, RegisteredAsPromised, NEW b \in Bbmds, NEW f \in Registered(b)
  PROVE  f \in ForeignDevices /\ Home[f] = b /\ f \in Served(b)
<1>1. f \in ForeignDevices
  BY RegisteredType
<1>2. EntriesOf(FD_Table[b], f) # {}
  BY DEF Registered, EntriesOf
<1>3. QED BY <1>1, <1>2 DEF RegisteredAsPromised, Served

LEMMA SubnetsAreApart ==
  ASSUME NEW b \in Bbmds, NEW c \in Bbmds, b # c
  PROVE  /\ Served(c) \cap Served(b) = {} /\ Served(c) \cap HostsOf(b) = {}
         /\ HostsOf(c) \cap Served(b) = {} /\ HostsOf(c) \cap HostsOf(b) = {}
BY BbmdAssumption DEF Served, HostsOf

LEMMA ServedType ==
  ASSUME NEW b \in Bbmds
  PROVE  Served(b) \subseteq Nodes /\ HostsOf(b) \subseteq Nodes /\ Served(b) \cap HostsOf(b) = {}
BY BbmdAssumption DEF Served, HostsOf, Nodes

(* A step that concerns the datagrams of other sources.                    *)
LEMMA PacedElsewhere ==
  ASSUME NEW d \in network, Paced(d), sent \subseteq sent', heard[d.source]' = heard[d.source],
         \A e \in network' : e.source = d.source => e \in network
  PROVE  Paced(d)'
<1>1. Datagram("forwarded", d.to, d.to, d.source).source = d.source
  BY DEF Datagram
<1>2. QED BY <1>1 DEF Paced

(* A step in which those hear s who have heard it once at most.            *)
LEMMA StormStep ==
  ASSUME TypeOK, NoStorm, NEW s \in Sources, NEW L, heard' = HeardBy(s, L),
         \A n \in Nodes : n \in L => heard[s][n] <= 1
  PROVE  NoStorm'
<1> SUFFICES ASSUME NEW t \in Sources, NEW n \in Nodes PROVE heard[t][n]' <= 2
  BY DEF NoStorm
<1>1. heard[t][n] <= 2 /\ heard[s][n] \in Nat
  BY DEF NoStorm, TypeOK
<1>2. CASE t # s
  BY <1>1, <1>2, HeardByType
<1>3. CASE t = s
  <2>1. heard[s][n]' = heard[s][n] + (IF n \in L THEN 1 ELSE 0)
    BY HeardByType
  <2>2. QED BY <1>1, <1>3, <2>1
<1>4. QED BY <1>2, <1>3

LEMMA BroadcastPacing ==
  ASSUME PacingInv, NEW s \in Sources, Broadcast(s)
  PROVE  Pacing' /\ NoStorm'
<1> USE DEF PacingInv
<1>1. s \notin sent /\ sent' = sent \cup {s} /\ \A n \in Nodes : heard[s][n] = 0
  BY DEF Broadcast, Pacing, Silent
<1>2. \A d \in network : d.source # s
  BY <1>1 DEF Pacing, Paced
<1>3. Origin(s) \in Bbmds /\ s \in Nodes
  BY OriginType
<1>4. PICK fn \in {"original", "distribute"}, L \in SUBSET Nodes :
        /\ L \subseteq HostsOf(Origin(s))
        /\ fn = "distribute" => L = {}
        /\ network' = network \cup {Datagram(fn, s, Origin(s), s)}
        /\ heard' = HeardBy(s, L)
  <2>1. CASE s \in ForeignDevices
    <3>1. HeardBy(s, {}) = heard
      BY DEF HeardBy, TypeOK
    <3>2. QED BY <2>1, <3>1 DEF Broadcast
  <2>2. CASE s \notin ForeignDevices
    <3>1. HostsOf(Origin(s)) \ {s} \in SUBSET Nodes
      BY DEF HostsOf, Nodes
    <3>2. QED BY <2>2, <3>1 DEF Broadcast
  <2>3. QED BY <2>1, <2>2
<1>5. \A n \in Nodes : heard[s][n]' = IF n \in L THEN 1 ELSE 0
  BY <1>1, <1>4, HeardByType
<1>6. \A t \in Sources : t # s => heard[t]' = heard[t]
  BY <1>4, HeardByType
<1>7. NoStorm'
  <2>1. \A n \in Nodes : heard[s][n] <= 1
    BY <1>1
  <2>2. QED BY <1>4, <2>1, StormStep
<1>8. Silent'
  <2>1. \A t \in Sources \ sent', n \in Nodes : t # s /\ heard[t][n] = 0
    BY <1>1 DEF Pacing, Silent
  <2>2. QED BY <1>6, <2>1 DEF Silent
<1>9. ASSUME NEW d \in network'
      PROVE  Paced(d)'
  <2>1. CASE d \in network
    <3>1. Paced(d) /\ d.source # s /\ d.source \in Sources
      BY <1>2, <2>1 DEF Pacing, TypeOK, Datagrams
    <3>2. heard[d.source]' = heard[d.source]
      BY <1>6, <3>1
    <3>3. \A e \in network' : e.source = d.source => e \in network
      BY <1>4, <3>1 DEF Datagram
    <3>4. QED BY <1>1, <2>1, <3>1, <3>2, <3>3, PacedElsewhere
  <2>2. CASE d = Datagram(fn, s, Origin(s), s)
    <3>1. d.fn = fn /\ d.to = Origin(s) /\ d.source = s
      BY <2>2 DEF Datagram
    <3>2. \A e \in network' : e.source = s => e = d
      BY <1>2, <1>4, <2>2
    <3>3. \A n \in Nodes :
            heard[s][n]' <= IF fn = "original" /\ n \in HostsOf(Origin(s)) THEN 1 ELSE 0
      BY <1>4, <1>5
    <3>4. fn # "forwarded"
      OBVIOUS
    <3>5. QED BY <1>1, <3>1, <3>2, <3>3, <3>4 DEF Paced, HostsOf
  <2>3. QED BY <1>4, <2>1, <2>2
<1>10. QED BY <1>7, <1>8, <1>9 DEF Pacing

(* A BBMD takes d up, sends those of D and lets L hear it.                 *)
LEMMA ReceivePacing ==
  ASSUME PacingInv, NEW d \in network, NEW D, NEW L,
         network' = (network \ {d}) \cup D,
         \A e \in D : e.source = d.source,
         heard' = HeardBy(d.source, L), sent' = sent,
         \A n \in Nodes : n \in L => heard[d.source][n] <= 1,
         \A e \in network' : e.source = d.source => Paced(e)'
  PROVE  Pacing' /\ NoStorm'
<1> USE DEF PacingInv
<1>1. d.source \in Sources /\ d.source \in sent
  BY DEF Pacing, Paced, TypeOK, Datagrams
<1>2. NoStorm'
  BY <1>1, StormStep
<1>3. \A t \in Sources : t # d.source => heard[t]' = heard[t]
  BY <1>1, HeardByType
<1>4. Silent'
  BY <1>1, <1>3 DEF Pacing, Silent
<1>5. ASSUME NEW e \in network'
      PROVE  Paced(e)'
  <2>1. CASE e.source = d.source
    BY <2>1
  <2>2. CASE e.source # d.source
    <3>1. e \in network /\ Paced(e) /\ e.source \in Sources
      BY <2>2 DEF Pacing, TypeOK, Datagrams
    <3>2. \A x \in network' : x.source = e.source => x \in network
      BY <2>2
    <3>3. QED BY <1>3, <2>2, <3>1, <3>2, PacedElsewhere
  <2>3. QED BY <2>1, <2>2
<1>6. QED BY <1>2, <1>4, <1>5 DEF Pacing

(* The BBMD the broadcast started from takes it up.                        *)
LEMMA FirstPacing ==
  ASSUME PacingInv, NEW d \in network, d.fn # "forwarded",
         NEW sends \in SUBSET (ToSubnet(d.to, d.source) \cup ToPeers(d.to, d.source)), NEW L,
         d.fn = "original" => sends \subseteq ToPeers(d.to, d.source),
         network' = (network \ {d}) \cup sends,
         heard' = HeardBy(d.source, L), sent' = sent,
         L \subseteq {d.to} \cup Hosts \cup Foreign(d.to, d.source)
  PROVE  Pacing' /\ NoStorm'
<1> USE DEF PacingInv
<1> DEFINE s == d.source
           b == d.to
<1>1. s \in Sources /\ b \in Bbmds /\ s \in sent /\ d.fn \in Functions
  BY DEF Pacing, Paced, TypeOK, Datagrams
<1>2. /\ b = Origin(s) /\ \A e \in network : e.source = s => e = d
      /\ \A n \in Nodes : heard[s][n] <= IF d.fn = "original" /\ n \in HostsOf(b) THEN 1 ELSE 0
  BY DEF Pacing, Paced
<1>3. \A e \in sends : /\ e.fn = "forwarded" /\ e.from = b /\ e.to \in Bbmds /\ e.source = s
                       /\ e.to = b => d.fn = "distribute"
  <2>1. BBMD_Table[b] \subseteq Bbmds /\ b \notin Peers(b)
    BY <1>1 DEF TypeOK, Peers
  <2>2. QED BY <1>1, <2>1, SendTypes DEF Peers, Functions
<1>4. \A n \in Nodes : /\ heard[s][n] \in Nat /\ heard[s][n] <= 1
                       /\ heard[s][n]' = heard[s][n] + (IF n \in L THEN 1 ELSE 0)
                       /\ n \notin HostsOf(b) \/ d.fn = "distribute" => heard[s][n] = 0
  <2> SUFFICES ASSUME NEW n \in Nodes
               PROVE  /\ heard[s][n] \in Nat /\ heard[s][n] <= 1
                      /\ heard[s][n]' = heard[s][n] + (IF n \in L THEN 1 ELSE 0)
                      /\ n \notin HostsOf(b) \/ d.fn = "distribute" => heard[s][n] = 0
    OBVIOUS
  <2>1. heard[s][n] \in Nat
    BY <1>1 DEF TypeOK
  <2>2. heard[s][n]' = heard[s][n] + (IF n \in L THEN 1 ELSE 0)
    BY <1>1, HeardByType
  <2>3. QED BY <1>2, <2>1, <2>2
<1>5. ASSUME NEW e \in network', e.source = s
      PROVE  Paced(e)'
  <2>1. e \in sends
    BY <1>2, <1>5
  <2>2. e.fn = "forwarded" /\ e.from = b /\ e.to \in Bbmds
    BY <1>3, <2>1
  <2>3. CASE e.to = b
    <3>1. \A n \in Served(b) : heard[s][n]' <= 1
      <4> SUFFICES ASSUME NEW n \in Served(b) PROVE heard[s][n]' <= 1
        OBVIOUS
      <4>1. n \in Nodes /\ n \notin HostsOf(b)
        BY <1>1, ServedType
      <4>2. QED BY <1>4, <4>1
    <3>2. QED BY <1>1, <1>5, <2>2, <2>3, <3>1 DEF Paced, Served
  <2>4. CASE e.to # b
    <3>1. ASSUME NEW n \in Served(e.to) PROVE heard[s][n]' = 0
      <4>1. n \in Nodes /\ n \notin HostsOf(b) /\ n \notin Served(b) /\ n \notin Hosts
        BY <1>1, <2>2, <2>4, ServedType, SubnetsAreApart, BbmdAssumption DEF Served
      <4>2. Foreign(b, s) \subseteq Served(b) /\ b \in Served(b)
        BY <1>1, RegisteredAtHome DEF Foreign, Served
      <4>3. n \notin L
        BY <4>1, <4>2
      <4>4. QED BY <1>4, <4>1, <4>3
    <3>2. ASSUME NEW h \in HostsOf(e.to) PROVE heard[s][h]' <= 1
      <4>1. h \in Nodes /\ h \notin HostsOf(b)
        BY <1>1, <2>2, <2>4, ServedType, SubnetsAreApart
      <4>2. QED BY <1>4, <4>1
    <3>3. Datagram("forwarded", e.to, e.to, s) \notin network'
      <4> SUFFICES ASSUME NEW x \in network', x.source = s, x.from = e.to PROVE FALSE
        BY DEF Datagram
      <4>1. x \in sends
        BY <1>2
      <4>2. QED BY <1>3, <2>4, <4>1
    <3>4. QED BY <1>1, <1>2, <1>5, <2>2, <2>4, <3>1, <3>2, <3>3 DEF Paced, Served, HostsOf
  <2>5. QED BY <2>3, <2>4
<1>6. QED BY <1>3, <1>4, <1>5, ReceivePacing

LEMMA OriginalPacing ==
  ASSUME PacingInv, NEW d \in network, ReceiveOriginal(d)
  PROVE  Pacing' /\ NoStorm'
<1> DEFINE sends == ToPeers(d.to, d.source)
           L == {d.to} \cup HostsOfPeers(d.to) \cup Foreign(d.to, d.source)
<1>1. /\ d.fn = "original" /\ network' = (network \ {d}) \cup sends
      /\ heard' = HeardBy(d.source, L) /\ sent' = sent
  BY DEF ReceiveOriginal
<1>2. /\ sends \subseteq ToSubnet(d.to, d.source) \cup ToPeers(d.to, d.source)
      /\ sends \subseteq ToPeers(d.to, d.source)
      /\ L \subseteq {d.to} \cup Hosts \cup Foreign(d.to, d.source)
  BY DEF HostsOfPeers, HostsOf
<1> HIDE DEF sends, L
<1>3. QED BY <1>1, <1>2, FirstPacing

LEMMA DistributePacing ==
  ASSUME PacingInv, NEW d \in network, ReceiveDistribute(d)
  PROVE  Pacing' /\ NoStorm'
<1> DEFINE sends == ToSubnet(d.to, d.source) \cup ToPeers(d.to, d.source)
           L == HostsOf(d.to) \cup HostsOfPeers(d.to) \cup Foreign(d.to, d.source)
<1>1. /\ d.fn = "distribute" /\ network' = (network \ {d}) \cup sends
      /\ heard' = HeardBy(d.source, L) /\ sent' = sent
  BY DEF ReceiveDistribute
<1>2. /\ sends \subseteq ToSubnet(d.to, d.source) \cup ToPeers(d.to, d.source)
      /\ L \subseteq {d.to} \cup Hosts \cup Foreign(d.to, d.source)
  BY DEF HostsOfPeers, HostsOf
<1> HIDE DEF sends, L
<1>3. QED BY <1>1, <1>2, FirstPacing

(* A BBMD takes up what another, or it itself, has forwarded.              *)
LEMMA ForwardedPacing ==
  ASSUME PacingInv, NEW d \in network, ReceiveForwarded(d)
  PROVE  Pacing' /\ NoStorm'
<1> USE DEF PacingInv
<1> DEFINE s == d.source
           b == d.to
           rebroadcast == IsUnicastMember(b, d.from)
           D == IF rebroadcast THEN ToSubnet(b, s) ELSE {}
           L == {b} \cup Foreign(b, s) \cup (IF rebroadcast THEN HostsOf(b) ELSE {})
<1>1. /\ s \in Sources /\ b \in Bbmds /\ s \in sent /\ d.fn = "forwarded" /\ d \in Datagrams
      /\ d.from \in Bbmds
  BY DEF Pacing, Paced, TypeOK, Datagrams, ReceiveForwarded
<1>2. /\ d.from # b => /\ d.from = Origin(s)
                       /\ \A n \in Served(b) : heard[s][n] = 0
                       /\ \A h \in HostsOf(b) : heard[s][h] <= 1
                       /\ Datagram("forwarded", b, b, s) \notin network
      /\ d.from = b => \A n \in Served(b) : heard[s][n] <= 1
  BY <1>1 DEF Pacing, Paced
<1>3. rebroadcast => d.from # b
  BY DEF IsUnicastMember, Peers
<1>4. /\ network' = (network \ {d}) \cup D /\ heard' = HeardBy(d.source, L) /\ sent' = sent
  BY DEF ReceiveForwarded
<1>5. \A e \in D : /\ e.fn = "forwarded" /\ e.from = b /\ e.to = b /\ e.source = s
                   /\ d.from # b
  BY <1>1, <1>3, SendTypes
<1>6. /\ L \subseteq Served(b) \cup HostsOf(b)
      /\ d.from = b => L \subseteq Served(b)
  <2>1. Foreign(b, s) \subseteq Served(b) /\ b \in Served(b)
    BY <1>1, RegisteredAtHome DEF Foreign, Served
  <2>2. QED BY <1>3, <2>1
<1>7. \A n \in Nodes : /\ heard[s][n] \in Nat
                       /\ heard[s][n]' = heard[s][n] + (IF n \in L THEN 1 ELSE 0)
  BY <1>1, <1>4, HeardByType DEF TypeOK
<1>8. ASSUME NEW n \in L PROVE heard[s][n] <= 1
  <2>1. 0 <= 1
    OBVIOUS
  <2>2. QED BY <1>2, <1>6, <1>8, <2>1
<1>9. ASSUME NEW e \in network', e.source = s
      PROVE  Paced(e)'
  <2>1. CASE e \in D
    <3>1. e.fn = "forwarded" /\ e.from = b /\ e.to = b /\ d.from # b
      BY <1>5, <2>1
    <3>2. ASSUME NEW n \in Served(b) PROVE heard[s][n]' <= 1
      <4>1. n \in Nodes /\ heard[s][n] = 0
        BY <1>1, <1>2, <3>1, ServedType
      <4>2. QED BY <1>7, <4>1
    <3>3. QED BY <1>1, <1>4, <1>9, <3>1, <3>2 DEF Paced, Served
  <2>2. CASE e \in network /\ e # d
    <3>1. Paced(e) /\ e \in Datagrams
      BY <2>2 DEF Pacing, TypeOK
    <3>2. e.fn = "forwarded" /\ e.to \in Bbmds
      BY <1>9, <2>2, <3>1 DEF Paced, Datagrams
    <3>3. Datagram("forwarded", b, b, s) \in Datagrams
          /\ Datagram("forwarded", b, b, s).fn = "forwarded"
          /\ Datagram("forwarded", b, b, s).from = b /\ Datagram("forwarded", b, b, s).to = b
          /\ Datagram("forwarded", b, b, s).source = s
      <4>1. "forwarded" \in Functions /\ b \in Nodes
        BY <1>1 DEF Functions, Nodes
      <4>2. QED BY <1>1, <4>1, DatagramType
    <3>4. e.to # b
      <4> SUFFICES ASSUME e.to = b PROVE FALSE
        OBVIOUS
      <4>1. e.from # d.from
        BY <1>1, <1>9, <2>2, <3>1, <3>2, SameDatagram
      <4>2. CASE e.from = b
        <5>1. e = Datagram("forwarded", b, b, s)
          BY <1>9, <3>1, <3>2, <3>3, <4>2, SameDatagram
        <5>2. QED BY <1>2, <2>2, <4>1, <4>2, <5>1
      <4>3. CASE e.from # b
        <5>1. e.from = Origin(s) /\ Datagram("forwarded", b, b, s) \notin network
          BY <1>9, <3>1, <3>2, <4>3 DEF Paced
        <5>2. d.from = b
          BY <1>2, <4>1, <5>1
        <5>3. d = Datagram("forwarded", b, b, s)
          BY <1>1, <3>3, <5>2, SameDatagram
        <5>4. QED BY <5>1, <5>3
      <4>4. QED BY <4>2, <4>3
    <3>5. ASSUME NEW n \in Served(e.to) \cup HostsOf(e.to) PROVE heard[s][n]' = heard[s][n]
      <4>1. n \in Nodes /\ n \notin L
        BY <1>1, <1>6, <3>2, <3>4, SubnetsAreApart, ServedType
      <4>2. QED BY <1>7, <4>1
    <3>6. Datagram("forwarded", e.to, e.to, s) \in network' =>
            Datagram("forwarded", e.to, e.to, s) \in network
      <4>1. Datagram("forwarded", e.to, e.to, s).to = e.to
        BY DEF Datagram
      <4>2. QED BY <1>4, <1>5, <3>4, <4>1
    <3>7. e.source \in sent' /\ e.from \in Bbmds
      BY <1>4, <3>1, <3>2 DEF Paced
    <3>8. ASSUME e.from # e.to
          PROVE  /\ e.from = Origin(e.source)
                 /\ \A n \in Served(e.to) : heard[e.source]'[n] = 0
                 /\ \A h \in HostsOf(e.to) : heard[e.source]'[h] <= 1
                 /\ Datagram("forwarded", e.to, e.to, e.source) \notin network'
      BY <1>9, <3>1, <3>2, <3>5, <3>6, <3>8 DEF Paced
    <3>9. ASSUME e.from = e.to
          PROVE  \A n \in Served(e.to) : heard[e.source]'[n] <= 1
      BY <1>9, <3>1, <3>2, <3>5, <3>9 DEF Paced
    <3>10. QED BY <3>2, <3>7, <3>8, <3>9 DEF Paced, Served, HostsOf
  <2>3. QED BY <1>4, <2>1, <2>2
<1> HIDE DEF L, D
<1>10. QED BY <1>4, <1>5, <1>8, <1>9, ReceivePacing

LEMMA NextPacing == PacingInv /\ [Next]_vars => PacingInv'
<1> SUFFICES ASSUME PacingInv, [Next]_vars PROVE PacingInv'
  OBVIOUS
<1> USE DEF PacingInv
<1>1. TypeOK' /\ RegisteredAsPromised'
  BY NextType, NextPromise
<1>2. ASSUME network' \subseteq network, UNCHANGED <<sent, heard>>
      PROVE  Pacing' /\ NoStorm'
  <2>1. \A d \in network' : Paced(d)'
    BY <1>2, PacedElsewhere DEF Pacing
  <2>2. QED BY <1>2, <2>1 DEF Pacing, Silent, NoStorm
<1>3. CASE UNCHANGED vars
  BY <1>1, <1>2, <1>3 DEF vars, tables, broadcasts
<1>4. CASE \E b \in Bbmds, S \in SUBSET Bbmds : WriteBdt(b, S)
  BY <1>1, <1>2, <1>4 DEF WriteBdt
<1>5. CASE \E f \in ForeignDevices, time_to_live \in TimesToLive : Register(f, time_to_live)
  BY <1>1, <1>2, <1>5 DEF Register
<1>6. CASE \E b \in Bbmds, f \in ForeignDevices : Delete(b, f)
  BY <1>1, <1>2, <1>6 DEF Delete
<1>7. CASE \E b \in Bbmds, seconds \in ElapsedSeconds : Timer(b, seconds)
  BY <1>1, <1>2, <1>7 DEF Timer
<1>8. CASE \E d \in network : Lose(d)
  BY <1>1, <1>2, <1>8 DEF Lose
<1>9. CASE \E s \in Sources : Broadcast(s)
  BY <1>1, <1>9, BroadcastPacing
<1>10. CASE \E d \in network : ReceiveOriginal(d) \/ ReceiveDistribute(d) \/ ReceiveForwarded(d)
  BY <1>1, <1>10, OriginalPacing, DistributePacing, ForwardedPacing
<1>11. QED BY <1>3, <1>4, <1>5, <1>6, <1>7, <1>8, <1>9, <1>10 DEF Next

LEMMA InitPacing == Init => PacingInv
<1> SUFFICES ASSUME Init PROVE PacingInv
  OBVIOUS
<1>1. TypeOK /\ RegisteredAsPromised
  BY InitType, InitPromise
<1>2. \A s \in Sources, n \in Nodes : heard[s][n] = 0
  BY DEF Init
<1>3. network = {} /\ 0 <= 2
  BY DEF Init
<1>4. QED BY <1>1, <1>2, <1>3 DEF PacingInv, Pacing, Silent, NoStorm

(* Whatever the tables hold and however they change, forwarding ends: no   *)
(* node hears a broadcast more than twice, even where the masks differ.    *)
THEOREM ForwardingEnds == Spec => []NoStorm
<1>1. PacingInv => NoStorm
  BY DEF PacingInv
<1>2. QED BY <1>1, NextPacing, InitPacing, PTL DEF Spec

-----------------------------------------------------------------------------
(* Who has still to hear a broadcast.                                      *)

(* What the datagram leads to: the first BBMD reaches all but the hosts    *)
(* that heard the broadcast itself; then a BBMD and its foreign devices    *)
(* are reached by what is sent to it, and its hosts if it is to be         *)
(* broadcast again.                                                        *)
Reaches(d, n) ==
  IF d.fn # "forwarded" THEN d.fn = "original" => n \notin HostsOf(d.to)
  ELSE d.to = Origin(n) /\ (n \in Hosts => d.from # d.to /\ mask[d.from] = "unicast")

Complete == \A b \in Bbmds : BBMD_Table[b] = Bbmds
Listeners == Bbmds \cup Hosts \cup UNION {Registered(b) : b \in Bbmds}

ListensTo(s) ==
  /\ \A n \in audience[s] :
       heard[s][n] >= 1 \/ \E d \in network : d.source = s /\ Reaches(d, n)
  /\ audience[s] # {} /\ s \in InFlight => Complete /\ audience[s] \subseteq Listeners \ {s}

Listening == \A s \in Sources : ListensTo(s)

(* The inductive invariant.                                                *)
ListeningInv == PacingInv /\ Listening

(* A foreign device listens through its own BBMD.                          *)
LEMMA ListenersType ==
  ASSUME TypeOK, RegisteredAsPromised, NEW n \in Listeners
  PROVE  /\ n \in Nodes /\ Origin(n) \in Bbmds
         /\ \/ n \in Bbmds /\ n \notin Hosts /\ Origin(n) = n
            \/ n \in Hosts /\ Origin(n) = Home[n]
            \/ /\ n \in ForeignDevices /\ n \notin Hosts /\ Origin(n) = Home[n]
               /\ n \in Registered(Origin(n))
<1>1. CASE n \in Bbmds
  BY <1>1, BbmdAssumption DEF Origin, Nodes
<1>2. CASE n \in Hosts
  BY <1>2, BbmdAssumption DEF Origin, Nodes
<1>3. CASE \E b \in Bbmds : n \in Registered(b)
  <2>1. PICK b \in Bbmds : n \in Registered(b)
    BY <1>3
  <2>2. n \in ForeignDevices /\ Home[n] = b
    BY <2>1, RegisteredAtHome
  <2>3. QED BY <2>1, <2>2, BbmdAssumption DEF Origin, Nodes
<1>4. QED BY <1>1, <1>2, <1>3 DEF Listeners

(* A step that disturbs every audience on the way.                         *)
LEMMA DisturbedListening ==
  ASSUME TypeOK, Listening, audience' = Disturbed(InFlight),
         UNCHANGED <<network, heard, mask>>
  PROVE  Listening'
<1> SUFFICES ASSUME NEW s \in Sources PROVE ListensTo(s)'
  BY DEF Listening
<1>1. ListensTo(s) /\ InFlight' = InFlight
  BY DEF Listening, InFlight
<1>2. audience'[s] = IF s \in InFlight THEN {} ELSE audience[s]
  BY DEF Disturbed
<1>3. CASE s \in InFlight
  BY <1>2, <1>3 DEF ListensTo
<1>4. CASE s \notin InFlight
  <2>1. \A d \in network : d.source # s
    BY <1>4 DEF InFlight
  <2>2. QED BY <1>1, <1>2, <1>4, <2>1 DEF ListensTo
<1>5. QED BY <1>3, <1>4

(* A step that concerns the datagrams of other sources.                    *)
LEMMA ListensElsewhere ==
  ASSUME NEW s \in Sources, ListensTo(s), UNCHANGED tables,
         audience'[s] = audience[s], heard'[s] = heard[s],
         \A d \in network : d.source = s => d \in network',
         \A d \in network' : d.source = s => d \in network
  PROVE  ListensTo(s)'
<1>1. \A d, n : Reaches(d, n)' = Reaches(d, n)
  BY DEF Reaches, tables
<1>2. Complete' = Complete /\ Listeners' = Listeners
  BY DEF Complete, Listeners, Registered, tables
<1>3. s \in InFlight' => s \in InFlight
  BY DEF InFlight
<1>4. QED BY <1>1, <1>2, <1>3 DEF ListensTo

LEMMA BroadcastListening ==
  ASSUME ListeningInv, NEW s \in Sources, Broadcast(s)
  PROVE  Listening'
<1> USE DEF ListeningInv, PacingInv
<1>1. /\ s \notin sent /\ UNCHANGED tables
      /\ audience' = [audience EXCEPT ![s] = IF Complete THEN Listeners \ {s} ELSE {}]
  BY DEF Broadcast, Complete, Listeners
<1>2. Origin(s) \in Bbmds /\ s \in Nodes
  BY OriginType
<1>3. PICK fn \in {"original", "distribute"}, L \in SUBSET Nodes :
        /\ fn = "original" => L = HostsOf(Origin(s)) \ {s}
        /\ network' = network \cup {Datagram(fn, s, Origin(s), s)}
        /\ heard' = HeardBy(s, L)
  <2>1. CASE s \in ForeignDevices
    <3>1. HeardBy(s, {}) = heard
      BY DEF HeardBy, TypeOK
    <3>2. QED BY <2>1, <3>1 DEF Broadcast
  <2>2. CASE s \notin ForeignDevices
    <3>1. HostsOf(Origin(s)) \ {s} \in SUBSET Nodes
      BY DEF HostsOf, Nodes
    <3>2. QED BY <2>2, <3>1 DEF Broadcast
  <2>3. QED BY <2>1, <2>2
<1>4. PICK d : d = Datagram(fn, s, Origin(s), s)
  OBVIOUS
<1>5. d.fn = fn /\ d.to = Origin(s) /\ d.source = s /\ d \in network'
  BY <1>3, <1>4 DEF Datagram
<1>6. Complete' = Complete /\ Listeners' = Listeners
  BY <1>1 DEF Complete, Listeners, Registered, tables
<1>7. ListensTo(s)'
  <2>1. audience'[s] = IF Complete THEN Listeners \ {s} ELSE {}
    BY <1>1 DEF TypeOK
  <2>2. ASSUME NEW n \in audience'[s]
        PROVE  heard'[s][n] >= 1 \/ (d.source = s /\ Reaches(d, n)')
    <3>1. n \in Listeners \ {s}
      BY <2>1, <2>2
    <3>2. n \in Nodes
      BY <3>1, ListenersType
    <3>3. CASE fn = "original" /\ n \in HostsOf(Origin(s))
      <4>1. n \in L
        BY <1>3, <3>1, <3>3
      <4>2. heard'[s][n] = heard[s][n] + 1 /\ heard[s][n] \in Nat
        BY <1>3, <3>2, <4>1, HeardByType DEF TypeOK
      <4>3. QED BY <4>2
    <3>4. CASE ~(fn = "original" /\ n \in HostsOf(Origin(s)))
      BY <1>5, <3>4 DEF Reaches, HostsOf
    <3>5. QED BY <3>3, <3>4
  <2>3. QED BY <1>5, <1>6, <2>1, <2>2 DEF ListensTo
<1>8. ASSUME NEW t \in Sources, t # s PROVE ListensTo(t)'
  <2>1. ListensTo(t)
    BY DEF Listening
  <2>2. audience'[t] = audience[t] /\ heard'[t] = heard[t]
    BY <1>1, <1>3, <1>8, HeardByType DEF TypeOK
  <2>3. /\ \A e \in network : e.source = t => e \in network'
        /\ \A e \in network' : e.source = t => e \in network
    BY <1>3, <1>4, <1>5, <1>8
  <2>4. QED BY <1>1, <2>1, <2>2, <2>3, ListensElsewhere
<1>9. QED BY <1>7, <1>8 DEF Listening

(* A BBMD takes d up, sends those of D and lets L hear it.                 *)
LEMMA ReceiveListening ==
  ASSUME ListeningInv, NEW d \in network, NEW D, NEW L,
         network' = (network \ {d}) \cup D,
         \A e \in D : e.source = d.source,
         heard' = HeardBy(d.source, L), UNCHANGED <<tables, audience>>,
         Complete /\ audience[d.source] \subseteq Listeners \ {d.source} =>
           \A n \in audience[d.source] : Reaches(d, n) => n \in L \/ \E e \in D : Reaches(e, n)
  PROVE  Listening'
<1> USE DEF ListeningInv, PacingInv
<1> DEFINE s == d.source
<1>1. s \in Sources /\ s \in InFlight
  BY DEF TypeOK, Datagrams, InFlight
<1>2. \A e, n : Reaches(e, n)' = Reaches(e, n)
  BY DEF Reaches, tables
<1>3. Complete' = Complete /\ Listeners' = Listeners
  BY DEF Complete, Listeners, Registered, tables
<1>4. ListensTo(s)'
  <2>1. ListensTo(s) /\ audience'[s] = audience[s]
    BY <1>1 DEF Listening
  <2>2. ASSUME NEW n \in audience[s]
        PROVE  heard'[s][n] >= 1 \/ \E e \in network' : e.source = s /\ Reaches(e, n)
    <3>1. Complete /\ audience[s] \subseteq Listeners \ {s}
      BY <1>1, <2>1, <2>2 DEF ListensTo
    <3>2. n \in Nodes
      BY <2>2, <3>1, ListenersType
    <3>3. /\ heard'[s][n] = heard[s][n] + (IF n \in L THEN 1 ELSE 0)
          /\ heard[s][n] \in Nat
      BY <1>1, <3>2, HeardByType DEF TypeOK
    <3>4. CASE n \in L \/ heard[s][n] >= 1
      BY <3>3, <3>4
    <3>5. CASE n \notin L /\ ~(heard[s][n] >= 1)
      <4>1. PICK e \in network : e.source = s /\ Reaches(e, n)
        BY <2>1, <2>2, <3>5 DEF ListensTo
      <4>2. CASE e # d
        BY <4>1, <4>2
      <4>3. CASE e = d
        BY <2>2, <3>1, <3>5, <4>1, <4>3
      <4>4. QED BY <4>2, <4>3
    <3>6. QED BY <3>4, <3>5
  <2>3. audience'[s] # {} => Complete' /\ audience'[s] \subseteq Listeners' \ {s}
    BY <1>1, <1>3, <2>1 DEF ListensTo
  <2>4. \A n \in audience'[s] :
          heard'[s][n] >= 1 \/ \E e \in network' : e.source = s /\ Reaches(e, n)'
    BY <1>2, <2>1, <2>2
  <2> HIDE DEF s
  <2>5. QED BY <2>3, <2>4 DEF ListensTo
<1>5. ASSUME NEW t \in Sources, t # s PROVE ListensTo(t)'
  <2>1. ListensTo(t)
    BY DEF Listening
  <2>2. audience'[t] = audience[t] /\ heard'[t] = heard[t]
    BY <1>1, <1>5, HeardByType
  <2>3. /\ \A e \in network : e.source = t => e \in network'
        /\ \A e \in network' : e.source = t => e \in network
    BY <1>5
  <2>4. QED BY <2>1, <2>2, <2>3, ListensElsewhere
<1>6. QED BY <1>4, <1>5 DEF Listening

(* The BBMD the broadcast started from takes it up.                        *)
LEMMA FirstListening ==
  ASSUME OneKindOfMask, ListeningInv, NEW d \in network, d.fn # "forwarded", Complete,
         NEW n \in Listeners \ {d.source}, n # d.to, n \notin HostsOf(d.to)
  PROVE  \/ n \in HostsOfPeers(d.to) \cup Foreign(d.to, d.source)
         \/ \E e \in ToPeers(d.to, d.source) : Reaches(e, n)
<1> USE DEF ListeningInv, PacingInv
<1> DEFINE s == d.source
           b == d.to
           e == Datagram("forwarded", b, Origin(n), s)
<1>1. s \in Sources /\ b \in Bbmds /\ mask \in [Bbmds -> {"unicast", "directed"}] /\ mask \in Masks
  BY BbmdAssumption DEF TypeOK, Datagrams
<1>2. /\ n \in Nodes /\ Origin(n) \in Bbmds
      /\ \/ n \in Bbmds /\ n \notin Hosts /\ Origin(n) = n
         \/ n \in Hosts /\ Origin(n) = Home[n]
         \/ /\ n \in ForeignDevices /\ n \notin Hosts /\ Origin(n) = Home[n]
            /\ n \in Registered(Origin(n))
  BY ListenersType
<1>3. Peers(b) = Bbmds \ {b}
  BY <1>1 DEF Complete, Peers
<1>4. CASE Origin(n) = b
  BY <1>1, <1>2, <1>4 DEF Foreign, HostsOf
<1>5. CASE Origin(n) # b
  <2>1. e \in ToPeers(b, s)
    BY <1>2, <1>3, <1>5 DEF ToPeers
  <2>2. e.fn = "forwarded" /\ e.from = b /\ e.to = Origin(n)
    BY DEF Datagram
  <2>3. CASE n \notin Hosts \/ mask[b] = "unicast"
    BY <1>5, <2>1, <2>2, <2>3 DEF Reaches
  <2>4. CASE n \in Hosts /\ mask[b] # "unicast"
    <3>1. n \in HostsOf(Origin(n))
      BY <1>2, <2>4, BbmdAssumption DEF HostsOf
    <3>2. mask[Origin(n)] = "directed"
      BY <1>1, <1>2, <2>4 DEF OneKindOfMask
    <3>3. QED BY <1>2, <1>3, <1>5, <3>1, <3>2 DEF HostsOfPeers
  <2>5. QED BY <2>3, <2>4
<1>6. QED BY <1>4, <1>5

LEMMA OriginalListening ==
  ASSUME OneKindOfMask, ListeningInv, NEW d \in network, ReceiveOriginal(d)
  PROVE  Listening'
<1> USE DEF ListeningInv, PacingInv
<1> DEFINE s == d.source
           D == ToPeers(d.to, s)
           L == {d.to} \cup HostsOfPeers(d.to) \cup Foreign(d.to, s)
<1>1. /\ d.fn = "original" /\ network' = (network \ {d}) \cup D
      /\ heard' = HeardBy(s, L) /\ UNCHANGED <<tables, audience>>
  BY DEF ReceiveOriginal
<1>2. s \in Sources /\ d.to \in Bbmds
  BY DEF TypeOK, Datagrams
<1>3. \A e \in D : e.source = s
  BY <1>2, SendTypes
<1>4. ASSUME Complete, NEW n \in Listeners \ {s}, Reaches(d, n)
      PROVE  n \in L \/ \E e \in D : Reaches(e, n)
  <2>1. n \notin HostsOf(d.to)
    BY <1>1, <1>4 DEF Reaches
  <2>2. QED BY <1>1, <1>4, <2>1, FirstListening
<1> HIDE DEF D, L
<1>5. QED BY <1>1, <1>3, <1>4, ReceiveListening

LEMMA DistributeListening ==
  ASSUME OneKindOfMask, ListeningInv, NEW d \in network, ReceiveDistribute(d)
  PROVE  Listening'
<1> USE DEF ListeningInv, PacingInv
<1> DEFINE s == d.source
           D == ToSubnet(d.to, s) \cup ToPeers(d.to, s)
           L == HostsOf(d.to) \cup HostsOfPeers(d.to) \cup Foreign(d.to, s)
<1>1. /\ d.fn = "distribute" /\ network' = (network \ {d}) \cup D
      /\ heard' = HeardBy(s, L) /\ UNCHANGED <<tables, audience>>
  BY DEF ReceiveDistribute
<1>2. s \in Sources /\ d.to \in Bbmds
  BY DEF TypeOK, Datagrams
<1>3. \A e \in D : e.source = s
  BY <1>2, SendTypes
<1>4. ASSUME Complete, NEW n \in Listeners \ {s}
      PROVE  n \in L \/ \E e \in D : Reaches(e, n)
  <2>1. CASE n = d.to
    <3>1. PICK e : e = Datagram("forwarded", d.to, d.to, s)
      OBVIOUS
    <3>2. e \in D /\ e.fn = "forwarded" /\ e.to = d.to
      BY <3>1 DEF ToSubnet, Datagram
    <3>3. Origin(n) = n /\ n \notin Hosts
      BY <1>2, <2>1, BbmdAssumption DEF Origin
    <3>4. Reaches(e, n)
      BY <2>1, <3>2, <3>3 DEF Reaches
    <3>5. QED BY <3>2, <3>4
  <2>2. CASE n # d.to /\ n \notin HostsOf(d.to)
    <3>1. d.fn # "forwarded"
      BY <1>1
    <3>2. QED BY <1>4, <2>2, <3>1, FirstListening
  <2>3. QED BY <2>1, <2>2
<1> HIDE DEF D, L
<1>5. QED BY <1>1, <1>3, <1>4, ReceiveListening

LEMMA ForwardedListening ==
  ASSUME ListeningInv, NEW d \in network, ReceiveForwarded(d)
  PROVE  Listening'
<1> USE DEF ListeningInv, PacingInv
<1> DEFINE s == d.source
           b == d.to
           rebroadcast == IsUnicastMember(b, d.from)
           D == IF rebroadcast THEN ToSubnet(b, s) ELSE {}
           L == {b} \cup Foreign(b, s) \cup (IF rebroadcast THEN HostsOf(b) ELSE {})
<1>1. /\ d.fn = "forwarded" /\ network' = (network \ {d}) \cup D
      /\ heard' = HeardBy(s, L) /\ UNCHANGED <<tables, audience>>
  BY DEF ReceiveForwarded
<1>2. s \in Sources /\ b \in Bbmds /\ d.from \in Bbmds
  BY <1>1 DEF TypeOK, Datagrams, Pacing, Paced
<1>3. \A e \in D : e.source = s
  BY <1>2, SendTypes
<1>4. ASSUME Complete, NEW n \in Listeners \ {s}, Reaches(d, n)
      PROVE  n \in L
  <2>1. b = Origin(n) /\ (n \in Hosts => d.from # b /\ mask[d.from] = "unicast")
    BY <1>1, <1>4 DEF Reaches
  <2>2. CASE n \in Hosts
    <3>1. rebroadcast
      BY <1>2, <1>4, <2>1, <2>2 DEF IsUnicastMember, Peers, Complete
    <3>2. n \in HostsOf(b)
      BY <1>4, <2>1, <2>2, ListenersType, BbmdAssumption DEF HostsOf
    <3>3. QED BY <3>1, <3>2
  <2>3. CASE n \notin Hosts
    BY <1>4, <2>1, <2>3, ListenersType DEF Foreign
  <2>4. QED BY <2>2, <2>3
<1> HIDE DEF D, L
<1>5. QED BY <1>1, <1>3, <1>4, ReceiveListening

LEMMA LoseListening ==
  ASSUME ListeningInv, NEW d \in network, Lose(d)
  PROVE  Listening'
<1> USE DEF ListeningInv, PacingInv
<1> SUFFICES ASSUME NEW s \in Sources PROVE ListensTo(s)'
  BY DEF Listening
<1>1. audience'[s] = IF s = d.source THEN {} ELSE audience[s]
  BY DEF Lose, Disturbed
<1>2. CASE s = d.source
  BY <1>1, <1>2 DEF ListensTo
<1>3. CASE s # d.source
  BY <1>1, <1>3, ListensElsewhere DEF Lose, Listening
<1>4. QED BY <1>2, <1>3

LEMMA NextListening == OneKindOfMask /\ ListeningInv /\ [Next]_vars => ListeningInv'
<1> SUFFICES ASSUME OneKindOfMask, ListeningInv, [Next]_vars PROVE ListeningInv'
  OBVIOUS
<1> USE DEF ListeningInv
<1>1. PacingInv' /\ TypeOK
  BY NextPacing DEF PacingInv
<1>2. CASE UNCHANGED vars
  BY <1>1, <1>2, ListensElsewhere DEF vars, broadcasts, Listening
<1>3. CASE \E b \in Bbmds, S \in SUBSET Bbmds : WriteBdt(b, S)
  BY <1>1, <1>3, DisturbedListening DEF WriteBdt
<1>4. CASE \E f \in ForeignDevices, time_to_live \in TimesToLive : Register(f, time_to_live)
  BY <1>1, <1>4, DisturbedListening DEF Register
<1>5. CASE \E b \in Bbmds, f \in ForeignDevices : Delete(b, f)
  BY <1>1, <1>5, DisturbedListening DEF Delete
<1>6. CASE \E b \in Bbmds, seconds \in ElapsedSeconds : Timer(b, seconds)
  BY <1>1, <1>6, DisturbedListening DEF Timer
<1>7. CASE \E d \in network : Lose(d)
  BY <1>1, <1>7, LoseListening
<1>8. CASE \E s \in Sources : Broadcast(s)
  BY <1>1, <1>8, BroadcastListening
<1>9. CASE \E d \in network : ReceiveOriginal(d) \/ ReceiveDistribute(d) \/ ReceiveForwarded(d)
  BY <1>1, <1>9, OriginalListening, DistributeListening, ForwardedListening
<1>10. QED BY <1>2, <1>3, <1>4, <1>5, <1>6, <1>7, <1>8, <1>9 DEF Next

LEMMA InitListening == Init => ListeningInv
BY InitPacing DEF Init, ListeningInv, Listening, ListensTo

(* While the tables are complete and hold the same kind of mask, and until *)
(* a table changes or a datagram is lost, a broadcast leads to every BBMD, *)
(* every host and every foreign device that is registered: once no         *)
(* datagram of it is left on the way, all of them have heard it.           *)
THEOREM BroadcastsReachEveryone == OneKindOfMask => (Spec => []EveryoneHears)
<1>1. SUFFICES ASSUME OneKindOfMask PROVE Spec => []EveryoneHears
  OBVIOUS
<1>2. ListeningInv /\ [Next]_vars => ListeningInv'
  BY <1>1, NextListening
<1>3. ListeningInv => EveryoneHears
  <2> SUFFICES ASSUME Listening, NEW s \in Sources, s \notin InFlight, NEW n \in audience[s]
               PROVE  heard[s][n] >= 1
    BY DEF ListeningInv, EveryoneHears
  <2>1. ListensTo(s) /\ \A d \in network : d.source # s
    BY DEF Listening, InFlight
  <2>2. QED BY <2>1 DEF ListensTo
<1>4. QED BY <1>2, <1>3, InitListening, PTL DEF Spec
=============================================================================
