----------------------------- MODULE CovProofs ------------------------------
(***************************************************************************)
(* Safety of the COV tables, for every number of subscriptions, addresses, *)
(* transactions, objects and subscribers. The three tables refer to each   *)
(* other: an entry to a slot of the address table and, by its invoke ID,   *)
(* to one of the transaction table. That an address is stored once, and    *)
(* that only confirmed subscriptions have an ID, is what makes the         *)
(* consistency of the tables inductive.                                    *)
(***************************************************************************)
EXTENDS Cov, TransactionTableProofs

(* A transaction that the timer looks at has an ID.                        *)
PendingHaveIds == \A s \in Slots : TSM_List[s].state = Await => TSM_List[s].InvokeID # 0

IInv ==
  /\ TypeOK /\ PendingHaveIds
  /\ AddressTableConsistent /\ UniqueAddresses
  /\ NoSlotLeaks /\ OnlyConfirmedHaveIds

-----------------------------------------------------------------------------
(* The tables.                                                             *)

LEMMA FirstIsLeast ==
  ASSUME NEW S \in SUBSET Nat, S # {}
  PROVE  First(S) \in S
<1>1. \E x \in S : \A y \in S : x <= y
  BY LeastNatural
<1>2. QED BY <1>1 DEF First

(* cov_address_add never changes an address that is in use, and finds the  *)
(* slot of an address that it has.                                         *)
LEMMA SlotForFits ==
  ASSUME TypeOK, NEW src \in Addresses
  PROVE  /\ SlotFor(src) \in 0..MaxAddresses
         /\ SlotFor(src) = NoSlot => SlotsHolding(src) = {}
         /\ SlotFor(src) # NoSlot =>
              /\ SlotFor(src) \in AddressSlots
              /\ \/ COV_Addresses[SlotFor(src)] = src
                 \/ COV_Addresses[SlotFor(src)] = NoAddress /\ SlotsHolding(src) = {}
<1>1. ASSUME NEW address, SlotsHolding(address) # {}
      PROVE  First(SlotsHolding(address)) \in SlotsHolding(address)
  <2>1. SlotsHolding(address) \in SUBSET Nat
    BY DEF SlotsHolding, AddressSlots
  <2>2. QED BY <1>1, <2>1, FirstIsLeast
<1>2. AddressSlots \subseteq 0..MaxAddresses /\ 0 \in 0..MaxAddresses /\ 0 \notin AddressSlots
  BY CovAssumption DEF AddressSlots
<1>3. CASE SlotsHolding(src) # {}
  <2>1. SlotFor(src) \in SlotsHolding(src)
    BY <1>1, <1>3 DEF SlotFor
  <2>2. SlotFor(src) \in AddressSlots /\ COV_Addresses[SlotFor(src)] = src
    BY <2>1 DEF SlotsHolding
  <2>3. QED BY <1>2, <2>2 DEF NoSlot
<1>4. CASE SlotsHolding(src) = {} /\ SlotsHolding(NoAddress) # {}
  <2>1. SlotFor(src) \in SlotsHolding(NoAddress)
    BY <1>1, <1>4 DEF SlotFor
  <2>2. SlotFor(src) \in AddressSlots /\ COV_Addresses[SlotFor(src)] = NoAddress
    BY <2>1 DEF SlotsHolding
  <2>3. QED BY <1>2, <1>4, <2>2 DEF NoSlot
<1>5. CASE SlotsHolding(src) = {} /\ SlotsHolding(NoAddress) = {}
  BY <1>2, <1>5 DEF SlotFor, NoSlot
<1>6. QED BY <1>3, <1>4, <1>5

(* What the release of IDs does to the transaction table.                  *)
LEMMA FreeEffect ==
  ASSUME IInv, NEW ids, NEW list, list = FreeIds(TSM_List, ids)
  PROVE  /\ list \in [Slots -> Entry]
         /\ UsedIds(list) = UsedIds(TSM_List) \ ids
         /\ \A s \in Slots : list[s].state = Await => list[s].InvokeID # 0 /\ list[s] = TSM_List[s]
<1>1. TSM_List \in [Slots -> Entry]
  BY DEF IInv, TypeOK
<1>2. list \in [Slots -> Entry]
  BY <1>1, FreeIdsType
<1>3. \A s \in Slots :
        IF TSM_List[s].InvokeID \in ids
        THEN list[s].InvokeID = 0 /\ list[s].state = Idle
        ELSE list[s] = TSM_List[s]
  BY <1>1 DEF FreeIds, Entry
<1>4. UsedIds(list) = UsedIds(TSM_List) \ ids
  BY <1>3 DEF UsedIds
<1>5. QED
  BY <1>2, <1>3, <1>4 DEF IInv, PendingHaveIds, Idle, Await

(* A step that leaves the addresses and the entries' use of them alone.    *)
LEMMA SameAddressing ==
  ASSUME IInv, UNCHANGED COV_Addresses,
         \A i \in Subscriptions :
           /\ COV_Subscriptions'[i].valid = COV_Subscriptions[i].valid
           /\ COV_Subscriptions'[i].dest_index = COV_Subscriptions[i].dest_index
  PROVE  AddressTableConsistent' /\ UniqueAddresses'
<1>1. \A i \in Subscriptions : i \in Valid' <=> i \in Valid
  BY DEF Valid, ValidIn
<1>2. \A i \in Subscriptions : AddressOf(COV_Subscriptions[i])' = AddressOf(COV_Subscriptions[i])
  BY DEF AddressOf
<1>3. Valid \subseteq Subscriptions /\ Valid' \subseteq Subscriptions
  BY DEF Valid, ValidIn
<1>4. QED
  BY <1>1, <1>2, <1>3 DEF IInv, AddressTableConsistent, UniqueAddresses

(* A step that leaves validity, kind and ID of each entry alone, and loses *)
(* at most IDs from the transaction table.                                 *)
LEMMA SameIds ==
  ASSUME IInv, UsedIds(TSM_List') \subseteq UsedIds(TSM_List),
         \A i \in Subscriptions :
           /\ COV_Subscriptions'[i].valid = COV_Subscriptions[i].valid
           /\ COV_Subscriptions'[i].issueConfirmed = COV_Subscriptions[i].issueConfirmed
           /\ COV_Subscriptions'[i].invokeID = COV_Subscriptions[i].invokeID
  PROVE  NoSlotLeaks' /\ OnlyConfirmedHaveIds'
<1>1. \A i \in Subscriptions : i \in Valid' <=> i \in Valid
  BY DEF Valid, ValidIn
<1>2. Valid \subseteq Subscriptions
  BY DEF Valid, ValidIn
<1>3. QED
  BY <1>1, <1>2 DEF IInv, NoSlotLeaks, OnlyConfirmedHaveIds

LEMMA UnusedType == Unused \in SubscriptionEntry
<1>1. 0 \in 0..MaxAddresses /\ 0 \in 0..MaxInvokeId /\ 0 \in Nat
  BY CovAssumption, TableAssumption
<1>2. QED BY <1>1 DEF Unused, SubscriptionEntry, NoSlot

-----------------------------------------------------------------------------
(* The initial state.                                                      *)

LEMMA InitIInv == Init => IInv
<1> SUFFICES ASSUME Init PROVE IInv
  OBVIOUS
<1>1. FreeEntry \in Entry /\ FreeEntry.InvokeID = 0 /\ FreeEntry.state = Idle
  BY TableAssumption DEF FreeEntry, Entry
<1>2. /\ TSM_List \in [Slots -> Entry]
      /\ \A s \in Slots : TSM_List[s].InvokeID = 0 /\ TSM_List[s].state = Idle
  BY <1>1 DEF Init, EmptyTable
<1>3. UsedIds(TSM_List) = {}
  BY <1>2 DEF UsedIds
<1>4. Valid = {} /\ \A i \in Subscriptions : COV_Subscriptions[i] = Unused
  BY DEF Init, Valid, ValidIn, Unused
<1>5. 1 \in Subscriptions /\ 1 \in InvokeIds
  BY CovAssumption, TableAssumption DEF Subscriptions, InvokeIds
<1>6. TypeOK
  BY <1>2, <1>5, UnusedType DEF Init, TypeOK
<1>7. AddressTableConsistent /\ UniqueAddresses
  BY <1>4 DEF Init, AddressTableConsistent, UniqueAddresses
<1>8. NoSlotLeaks /\ OnlyConfirmedHaveIds
  BY <1>3, <1>4 DEF NoSlotLeaks, OnlyConfirmedHaveIds, Unused
<1>9. PendingHaveIds
  BY <1>2 DEF PendingHaveIds, Idle, Await
<1>10. QED BY <1>6, <1>7, <1>8, <1>9 DEF IInv

-----------------------------------------------------------------------------
(* The main thread.                                                        *)

(* A subscription takes its own address slot or a free one, and the entry  *)
(* it replaces had none or the same.                                       *)
LEMMA SubscribeStep ==
  ASSUME IInv, NEW src \in Addresses, NEW data \in Subscription, Subscribe(src, data)
  PROVE  IInv'
<1> DEFINE E == Existing(src, data)
           i == IF E # {} THEN First(E) ELSE First(UnusedEntries)
           freed == {COV_Subscriptions[i].invokeID} \ {0}
           slot == SlotFor(src)
           entry == Requested(i, src, data)
<1>1. /\ E # {} \/ UnusedEntries # {}
      /\ COV_Subscriptions' = [COV_Subscriptions EXCEPT ![i] = entry]
      /\ COV_Addresses' = AddressesWith(src)
      /\ TSM_List' = FreeIds(TSM_List, freed)
      /\ owed' = owed \cup {i}
      /\ UNCHANGED <<Current_Invoke_ID, fsm, objects, inflight>>
  BY DEF Subscribe
<1>2. i \in Subscriptions /\ (i \in Valid => Matches(i, src, data))
  <2>1. E \in SUBSET Nat /\ UnusedEntries \in SUBSET Nat
    BY DEF Existing, UnusedEntries, Subscriptions
  <2>2. CASE E # {}
    <3>1. First(E) \in E
      BY <2>1, <2>2, FirstIsLeast
    <3>2. QED BY <2>2, <3>1 DEF Existing
  <2>3. CASE E = {}
    <3>1. First(UnusedEntries) \in UnusedEntries
      BY <1>1, <2>1, <2>3, FirstIsLeast
    <3>2. QED BY <2>3, <3>1 DEF UnusedEntries, Valid
  <2>4. QED BY <2>2, <2>3
<1>3. /\ slot \in 0..MaxAddresses
      /\ slot = NoSlot => SlotsHolding(src) = {}
      /\ slot # NoSlot =>
           /\ slot \in AddressSlots
           /\ \/ COV_Addresses[slot] = src
              \/ COV_Addresses[slot] = NoAddress /\ SlotsHolding(src) = {}
  BY SlotForFits DEF IInv
<1>4. COV_Addresses' = IF slot = NoSlot THEN COV_Addresses ELSE [COV_Addresses EXCEPT ![slot] = src]
  BY <1>1 DEF AddressesWith
<1>5. /\ entry \in SubscriptionEntry
      /\ entry.valid = TRUE /\ entry.invokeID = 0 /\ entry.dest_index = slot
  <2>1. 0 \in 0..MaxInvokeId
    BY TableAssumption
  <2>2. /\ data.issueConfirmed \in BOOLEAN /\ data.lifetime \in Nat
        /\ data.pid \in ProcessIds /\ data.object \in Objects
    BY CovAssumption DEF Subscription
  <2>3. QED BY <1>3, <2>1, <2>2 DEF Requested, SubscriptionEntry
<1>6. /\ TSM_List' \in [Slots -> Entry]
      /\ UsedIds(TSM_List') = UsedIds(TSM_List) \ freed
      /\ PendingHaveIds'
  <2>1. /\ TSM_List' \in [Slots -> Entry]
        /\ UsedIds(TSM_List') = UsedIds(TSM_List) \ freed
        /\ \A s \in Slots : TSM_List'[s].state = Await => TSM_List'[s].InvokeID # 0
    <3> HIDE DEF freed
    <3> QED BY <1>1, FreeEffect
  <2>2. QED BY <2>1 DEF PendingHaveIds
<1> HIDE DEF i, slot, entry, E
<1>7. /\ COV_Subscriptions'[i] = entry
      /\ \A j \in Subscriptions : j # i => COV_Subscriptions'[j] = COV_Subscriptions[j]
  BY <1>1, <1>2 DEF IInv, TypeOK
<1>8. Valid' = Valid \cup {i}
  BY <1>2, <1>5, <1>7 DEF Valid, ValidIn
<1>9. TypeOK'
  <2>1. COV_Subscriptions' \in [Subscriptions -> SubscriptionEntry]
    BY <1>1, <1>2, <1>5 DEF IInv, TypeOK
  <2>2. COV_Addresses' \in [AddressSlots -> Addresses \cup {NoAddress}]
    BY <1>3, <1>4 DEF IInv, TypeOK
  <2>3. QED
    BY <1>1, <1>2, <1>6, <2>1, <2>2 DEF IInv, TypeOK, fsm, objects
<1>10. UniqueAddresses'
  BY <1>3, <1>4 DEF IInv, TypeOK, UniqueAddresses, SlotsHolding
<1>11. \A a \in AddressSlots : COV_Addresses[a] # NoAddress => COV_Addresses'[a] = COV_Addresses[a]
  BY <1>3, <1>4 DEF IInv, TypeOK
<1>12. ASSUME NEW j \in Valid', AddressOf(COV_Subscriptions[j])' = NoAddress
       PROVE  COV_Subscriptions'[j].dest_index = NoSlot
  <2>1. CASE j = i
    BY <1>3, <1>4, <1>5, <1>7, <1>12, <2>1, CovAssumption DEF AddressOf, IInv, TypeOK
  <2>2. CASE j # i
    <3>1. j \in Valid /\ j \in Subscriptions /\ COV_Subscriptions'[j] = COV_Subscriptions[j]
      BY <1>7, <1>8, <2>2 DEF Valid, ValidIn
    <3>2. COV_Subscriptions[j].dest_index \in AddressSlots \cup {NoSlot}
      BY <3>1 DEF IInv, TypeOK, SubscriptionEntry, AddressSlots, NoSlot
    <3>3. AddressOf(COV_Subscriptions[j]) = NoAddress
      BY <1>11, <1>12, <3>1, <3>2 DEF AddressOf
    <3>4. QED BY <3>1, <3>3 DEF IInv, AddressTableConsistent
  <2>3. QED BY <2>1, <2>2
<1>13. ASSUME NEW a \in AddressSlots, COV_Addresses'[a] # NoAddress
       PROVE  \E j \in Valid' : COV_Subscriptions'[j].dest_index = a
  <2>1. CASE a = slot
    BY <1>5, <1>7, <1>8, <2>1
  <2>2. CASE a # slot
    <3>1. COV_Addresses[a] # NoAddress
      BY <1>4, <1>13, <2>2 DEF IInv, TypeOK
    <3>2. PICK j \in Valid : COV_Subscriptions[j].dest_index = a
      BY <3>1 DEF IInv, AddressTableConsistent
    <3>3. CASE j # i
      BY <1>7, <1>8, <3>2, <3>3 DEF Valid, ValidIn
    <3>4. CASE j = i
      <4>1. AddressOf(COV_Subscriptions[i]) \in {src, NoAddress}
        BY <1>2, <3>2, <3>4 DEF Matches
      <4>2. AddressOf(COV_Subscriptions[i]) = COV_Addresses[a]
        BY <3>2, <3>4, CovAssumption DEF AddressOf, AddressSlots, NoSlot
      <4>3. COV_Addresses[a] = src
        BY <3>1, <4>1, <4>2
      <4>4. COV_Addresses[slot] = src /\ slot \in AddressSlots
        BY <1>3, <4>3 DEF SlotsHolding
      <4>5. QED
        BY <2>2, <3>1, <4>3, <4>4 DEF IInv, UniqueAddresses
    <3>5. QED BY <3>3, <3>4
  <2>3. QED BY <2>1, <2>2
<1>14. AddressTableConsistent'
  BY <1>12, <1>13 DEF AddressTableConsistent
<1>15. NoSlotLeaks'
  <2> SUFFICES ASSUME NEW id \in UsedIds(TSM_List')
               PROVE  \E j \in Valid' : COV_Subscriptions'[j].invokeID = id
    BY DEF NoSlotLeaks
  <2>1. id \in UsedIds(TSM_List) /\ id # 0 /\ id # COV_Subscriptions[i].invokeID
    BY <1>6 DEF UsedIds
  <2>2. PICK j \in Valid : COV_Subscriptions[j].invokeID = id
    BY <2>1 DEF IInv, NoSlotLeaks
  <2>3. QED BY <1>7, <1>8, <2>1, <2>2 DEF Valid, ValidIn
<1>16. OnlyConfirmedHaveIds'
  BY <1>5, <1>7, <1>8 DEF IInv, OnlyConfirmedHaveIds
<1>17. QED
  BY <1>6, <1>9, <1>10, <1>14, <1>15, <1>16 DEF IInv

(* The release of the addresses that no entry uses any more, after entries *)
(* were removed.                                                           *)
LEMMA RemoveUnusedFits ==
  ASSUME IInv, NEW gone \in SUBSET Subscriptions,
         COV_Addresses' = RemoveUnused(COV_Addresses, COV_Subscriptions'),
         \A i \in gone : COV_Subscriptions'[i] = Unused,
         \A i \in Subscriptions \ gone :
           /\ COV_Subscriptions'[i].valid = COV_Subscriptions[i].valid
           /\ COV_Subscriptions'[i].dest_index = COV_Subscriptions[i].dest_index
  PROVE  /\ COV_Addresses' \in [AddressSlots -> Addresses \cup {NoAddress}]
         /\ AddressTableConsistent' /\ UniqueAddresses'
<1>1. Valid' = Valid \ gone
  BY DEF Valid, ValidIn, Unused
<1>2. \A a \in AddressSlots :
        COV_Addresses'[a] = IF \E i \in Valid' : COV_Subscriptions'[i].dest_index = a
                            THEN COV_Addresses[a] ELSE NoAddress
  BY DEF RemoveUnused, Valid
<1>3. COV_Addresses' \in [AddressSlots -> Addresses \cup {NoAddress}]
  BY DEF RemoveUnused, IInv, TypeOK
<1>4. UniqueAddresses'
  BY <1>2 DEF IInv, UniqueAddresses
<1>5. ASSUME NEW i \in Valid', AddressOf(COV_Subscriptions[i])' = NoAddress
      PROVE  COV_Subscriptions'[i].dest_index = NoSlot
  <2>1. /\ i \in Valid /\ i \in Subscriptions \ gone
        /\ COV_Subscriptions'[i].dest_index = COV_Subscriptions[i].dest_index
    BY <1>1 DEF Valid, ValidIn
  <2>2. COV_Subscriptions[i].dest_index \in AddressSlots \cup {NoSlot}
    BY <2>1 DEF IInv, TypeOK, SubscriptionEntry, AddressSlots, NoSlot
  <2>3. AddressOf(COV_Subscriptions[i]) = NoAddress
    BY <1>2, <1>5, <2>1, <2>2 DEF AddressOf
  <2>4. QED BY <2>1, <2>3 DEF IInv, AddressTableConsistent
<1>6. QED
  BY <1>2, <1>3, <1>4, <1>5 DEF AddressTableConsistent

(* The release of the IDs of entries that are removed: no ID but theirs.   *)
LEMMA RemovedIds ==
  ASSUME IInv, NEW gone \in SUBSET Subscriptions,
         UsedIds(TSM_List') = UsedIds(TSM_List) \ {COV_Subscriptions[i].invokeID : i \in gone},
         \A i \in gone : COV_Subscriptions'[i] = Unused,
         \A i \in Subscriptions \ gone :
           /\ COV_Subscriptions'[i].valid = COV_Subscriptions[i].valid
           /\ COV_Subscriptions'[i].issueConfirmed = COV_Subscriptions[i].issueConfirmed
           /\ COV_Subscriptions'[i].invokeID = COV_Subscriptions[i].invokeID
  PROVE  NoSlotLeaks' /\ OnlyConfirmedHaveIds'
<1>1. Valid' = Valid \ gone /\ Valid \subseteq Subscriptions
  BY DEF Valid, ValidIn, Unused
<1>2. ASSUME NEW id \in UsedIds(TSM_List')
      PROVE  \E j \in Valid' : COV_Subscriptions'[j].invokeID = id
  <2>1. id \in UsedIds(TSM_List) /\ \A i \in gone : COV_Subscriptions[i].invokeID # id
    BY <1>2
  <2>2. PICK j \in Valid : COV_Subscriptions[j].invokeID = id
    BY <2>1 DEF IInv, NoSlotLeaks
  <2>3. QED BY <1>1, <2>1, <2>2
<1>3. OnlyConfirmedHaveIds'
  BY <1>1 DEF IInv, OnlyConfirmedHaveIds, Unused
<1>4. QED BY <1>2, <1>3 DEF NoSlotLeaks

LEMMA CancelStep ==
  ASSUME IInv, NEW src \in Addresses, NEW data \in Cancellation, Cancel(src, data)
  PROVE  IInv'
<1> DEFINE E == Existing(src, data)
           i == First(E)
<1>1. /\ E # {}
      /\ COV_Subscriptions' = [COV_Subscriptions EXCEPT ![i] = Unused]
      /\ COV_Addresses' = RemoveUnused(COV_Addresses, COV_Subscriptions')
      /\ TSM_List' = FreeIds(TSM_List, {COV_Subscriptions[i].invokeID} \ {0})
      /\ owed' = owed \ {i}
      /\ UNCHANGED <<Current_Invoke_ID, fsm, objects, inflight>>
  BY DEF Cancel
<1>2. i \in Subscriptions
  <2>1. E \in SUBSET Nat
    BY DEF Existing, Subscriptions
  <2>2. i \in E
    BY <1>1, <2>1, FirstIsLeast
  <2>3. QED BY <2>2 DEF Existing
<1> HIDE DEF i, E
<1>3. /\ COV_Subscriptions'[i] = Unused
      /\ \A j \in Subscriptions : j # i => COV_Subscriptions'[j] = COV_Subscriptions[j]
  BY <1>1, <1>2 DEF IInv, TypeOK
<1>4. /\ TSM_List' \in [Slots -> Entry]
      /\ UsedIds(TSM_List') = UsedIds(TSM_List) \ ({COV_Subscriptions[i].invokeID} \ {0})
      /\ \A s \in Slots : TSM_List'[s].state = Await => TSM_List'[s].InvokeID # 0
  BY <1>1, FreeEffect
<1>5. /\ COV_Addresses' \in [AddressSlots -> Addresses \cup {NoAddress}]
      /\ AddressTableConsistent' /\ UniqueAddresses'
  <2>1. {i} \in SUBSET Subscriptions
    BY <1>2
  <2>2. QED BY <1>1, <1>3, <2>1, RemoveUnusedFits
<1>6. NoSlotLeaks' /\ OnlyConfirmedHaveIds'
  <2>1. {i} \in SUBSET Subscriptions
    BY <1>2
  <2>2. UsedIds(TSM_List') = UsedIds(TSM_List) \ {COV_Subscriptions[j].invokeID : j \in {i}}
    BY <1>4 DEF UsedIds
  <2>3. QED BY <1>3, <2>1, <2>2, RemovedIds
<1>7. TypeOK'
  <2>1. COV_Subscriptions' \in [Subscriptions -> SubscriptionEntry]
    BY <1>1, <1>2, UnusedType DEF IInv, TypeOK
  <2>2. QED
    BY <1>1, <1>4, <1>5, <2>1 DEF IInv, TypeOK, fsm, objects
<1>8. QED
  BY <1>4, <1>5, <1>6, <1>7 DEF IInv, PendingHaveIds

(* The timers: an expired entry takes its ID and, with the last use, its   *)
(* address along; that only confirmed entries have an ID is needed here.   *)
LEMMA TimerStep ==
  ASSUME IInv, NEW elapsed \in ElapsedSeconds, TimerSeconds(elapsed)
  PROVE  IInv'
<1> DEFINE gone == Expiring(elapsed)
           ids == FreedByExpiry(elapsed)
           freed == FreeIds(TSM_List, ids)
<1>1. /\ COV_Subscriptions' = [i \in Subscriptions |-> Aged(i, elapsed)]
      /\ COV_Addresses' = IF gone = {} THEN COV_Addresses
                          ELSE RemoveUnused(COV_Addresses, COV_Subscriptions')
      /\ TSM_List' = TimerMilliseconds(freed, Milliseconds, ApduTimeout, ApduRetries)
      /\ inflight' = inflight \cup
           {TSM_List[s].InvokeID : s \in Retransmitted(freed, Milliseconds, ApduRetries)}
      /\ owed' = owed \ gone
      /\ UNCHANGED <<Current_Invoke_ID, fsm, objects>>
  BY DEF TimerSeconds
<1>2. gone \in SUBSET Subscriptions
  BY DEF Expiring, ValidIn
<1>3. \A i \in Subscriptions : Aged(i, elapsed) \in SubscriptionEntry
  <2> SUFFICES ASSUME NEW i \in Subscriptions PROVE Aged(i, elapsed) \in SubscriptionEntry
    OBVIOUS
  <2>1. COV_Subscriptions[i] \in SubscriptionEntry /\ elapsed \in Nat
    BY CovAssumption DEF IInv, TypeOK
  <2>2. CASE i \in Expiring(elapsed)
    BY <2>2, UnusedType DEF Aged
  <2>3. CASE /\ i \notin Expiring(elapsed)
             /\ COV_Subscriptions[i].valid /\ COV_Subscriptions[i].lifetime # 0
    <3>1. COV_Subscriptions[i].lifetime - elapsed \in Nat
      BY <2>1, <2>3 DEF Expiring, ValidIn, SubscriptionEntry
    <3>2. QED BY <2>1, <2>3, <3>1 DEF Aged, SubscriptionEntry
  <2>4. QED BY <2>1, <2>2, <2>3 DEF Aged
<1>4. \A i \in gone : COV_Subscriptions'[i] = Unused
  BY <1>1, <1>2 DEF Aged
<1>5. ASSUME NEW i \in Subscriptions \ gone
      PROVE  /\ COV_Subscriptions'[i].valid = COV_Subscriptions[i].valid
             /\ COV_Subscriptions'[i].issueConfirmed = COV_Subscriptions[i].issueConfirmed
             /\ COV_Subscriptions'[i].dest_index = COV_Subscriptions[i].dest_index
             /\ COV_Subscriptions'[i].invokeID = COV_Subscriptions[i].invokeID
  <2>1. COV_Subscriptions[i] \in SubscriptionEntry
    BY DEF IInv, TypeOK
  <2>2. COV_Subscriptions'[i] = Aged(i, elapsed)
    BY <1>1
  <2>3. QED BY <2>1, <2>2 DEF Aged, SubscriptionEntry
<1>6. /\ freed \in [Slots -> Entry]
      /\ UsedIds(freed) = UsedIds(TSM_List) \ ids
      /\ \A s \in Slots : freed[s].state = Await =>
           freed[s].InvokeID # 0 /\ freed[s] = TSM_List[s]
  <2> HIDE DEF ids
  <2> QED BY FreeEffect
<1>7. \A i \in gone : COV_Subscriptions[i].invokeID # 0 => COV_Subscriptions[i].invokeID \in ids
  BY <1>2 DEF IInv, OnlyConfirmedHaveIds, FreedByExpiry
<1>8. ids \subseteq {COV_Subscriptions[i].invokeID : i \in gone}
  BY DEF FreedByExpiry
<1> HIDE DEF gone, ids, freed
<1>9. /\ TSM_List' \in [Slots -> Entry]
      /\ \A s \in Slots : TSM_List'[s].InvokeID = freed[s].InvokeID
  BY <1>1, <1>6, TickType, CovAssumption
<1>10. \A s \in Slots : TSM_List'[s].state = Await => freed[s].state = Await
  BY <1>1, <1>6 DEF TimerMilliseconds, TickEntry
<1>11. PendingHaveIds'
  BY <1>6, <1>9, <1>10 DEF PendingHaveIds
<1>12. UsedIds(TSM_List') = UsedIds(TSM_List) \ {COV_Subscriptions[i].invokeID : i \in gone}
  <2>1. UsedIds(TSM_List') = UsedIds(TSM_List) \ ids
    BY <1>6, <1>9 DEF UsedIds
  <2>2. 0 \notin UsedIds(TSM_List)
    BY DEF UsedIds
  <2>3. QED BY <1>7, <1>8, <2>1, <2>2
<1>13. NoSlotLeaks' /\ OnlyConfirmedHaveIds'
  BY <1>2, <1>4, <1>5, <1>12, RemovedIds
<1>14. /\ COV_Addresses' \in [AddressSlots -> Addresses \cup {NoAddress}]
       /\ AddressTableConsistent' /\ UniqueAddresses'
  <2>1. CASE gone = {}
    <3>1. COV_Addresses' = COV_Addresses
      BY <1>1, <2>1
    <3>2. QED BY <1>5, <2>1, <3>1, SameAddressing DEF IInv, TypeOK
  <2>2. CASE gone # {}
    BY <1>1, <1>2, <1>4, <1>5, <2>2, RemoveUnusedFits
  <2>3. QED BY <2>1, <2>2
<1>15. inflight' \in SUBSET InvokeIds
  <2>1. ASSUME NEW s \in Retransmitted(freed, Milliseconds, ApduRetries)
        PROVE  TSM_List[s].InvokeID \in InvokeIds
    <3>1. s \in Slots /\ freed[s].state = Await
      BY DEF Retransmitted, TimedOut
    <3>2. freed[s].InvokeID # 0 /\ freed[s] = TSM_List[s] /\ freed[s] \in Entry
      BY <1>6, <3>1
    <3>3. QED BY <3>2, TableAssumption DEF Entry, InvokeIds
  <2>2. QED BY <1>1, <2>1 DEF IInv, TypeOK
<1>16. TypeOK'
  <2>1. COV_Subscriptions' \in [Subscriptions -> SubscriptionEntry]
    BY <1>1, <1>3
  <2>2. QED
    BY <1>1, <1>9, <1>14, <1>15, <2>1 DEF IInv, TypeOK, fsm, objects
<1>17. QED
  BY <1>11, <1>13, <1>14, <1>16 DEF IInv

LEMMA AnswerStep ==
  ASSUME IInv, NEW id \in InvokeIds, Answer(id)
  PROVE  IInv'
<1>1. /\ TSM_List' = FreeIds(TSM_List, {id})
      /\ inflight' \in SUBSET InvokeIds
      /\ UNCHANGED <<COV_Subscriptions, COV_Addresses, Current_Invoke_ID, fsm, objects, owed>>
  BY DEF Answer, FreeInvokeId, IInv, TypeOK
<1>2. /\ TSM_List' \in [Slots -> Entry]
      /\ UsedIds(TSM_List') \subseteq UsedIds(TSM_List)
      /\ \A s \in Slots : TSM_List'[s].state = Await => TSM_List'[s].InvokeID # 0
  BY <1>1, FreeEffect
<1>3. AddressTableConsistent' /\ UniqueAddresses'
  BY <1>1, SameAddressing
<1>4. NoSlotLeaks' /\ OnlyConfirmedHaveIds'
  BY <1>1, <1>2, SameIds
<1>5. QED
  BY <1>1, <1>2, <1>3, <1>4 DEF IInv, TypeOK, PendingHaveIds, fsm, objects

-----------------------------------------------------------------------------
(* The COV thread.                                                         *)

States == {"IDLE", "MARK", "CLEAR", "FREE", "SEND"}

LEMMA StepType ==
  ASSUME TypeOK, NEW state \in States, NEW next \in States, Step(state, next)
  PROVE  cov_task_state' \in States /\ index' \in Subscriptions
<1>1. index \in Subscriptions /\ 1 \in Subscriptions
  BY CovAssumption DEF TypeOK, Subscriptions
<1>2. index # MaxSubscriptions => index + 1 \in Subscriptions
  BY <1>1, CovAssumption DEF Subscriptions
<1>3. QED BY <1>1, <1>2 DEF Step

(* A step that touches neither the entries' use of addresses and IDs nor   *)
(* the transaction table: Start, Mark, Clear, Skip and SendUnconfirmed.    *)
LEMMA HarmlessStep ==
  ASSUME IInv, TypeOK', UNCHANGED <<COV_Addresses, TSM_List>>,
         \A i \in Subscriptions :
           /\ COV_Subscriptions'[i].valid = COV_Subscriptions[i].valid
           /\ COV_Subscriptions'[i].issueConfirmed = COV_Subscriptions[i].issueConfirmed
           /\ COV_Subscriptions'[i].dest_index = COV_Subscriptions[i].dest_index
           /\ COV_Subscriptions'[i].invokeID = COV_Subscriptions[i].invokeID
  PROVE  IInv'
<1>1. AddressTableConsistent' /\ UniqueAddresses'
  BY SameAddressing
<1>2. UsedIds(TSM_List') \subseteq UsedIds(TSM_List)
  OBVIOUS
<1>3. NoSlotLeaks' /\ OnlyConfirmedHaveIds'
  BY <1>2, SameIds
<1>4. PendingHaveIds'
  BY DEF IInv, PendingHaveIds
<1>5. QED BY <1>1, <1>3, <1>4 DEF IInv

(* The request to send of the entry at hand is set or reset.               *)
LEMMA RequestStep ==
  ASSUME IInv, NEW requested \in BOOLEAN,
         COV_Subscriptions' = [COV_Subscriptions EXCEPT ![index].send_requested = requested]
  PROVE  /\ COV_Subscriptions' \in [Subscriptions -> SubscriptionEntry]
         /\ \A i \in Subscriptions :
              /\ COV_Subscriptions'[i].valid = COV_Subscriptions[i].valid
              /\ COV_Subscriptions'[i].issueConfirmed = COV_Subscriptions[i].issueConfirmed
              /\ COV_Subscriptions'[i].dest_index = COV_Subscriptions[i].dest_index
              /\ COV_Subscriptions'[i].invokeID = COV_Subscriptions[i].invokeID
<1> DEFINE new == [COV_Subscriptions[index] EXCEPT !.send_requested = requested]
<1>1. index \in Subscriptions /\ COV_Subscriptions \in [Subscriptions -> SubscriptionEntry]
  BY DEF IInv, TypeOK
<1>2. new \in SubscriptionEntry
  BY <1>1 DEF SubscriptionEntry
<1>3. /\ new.valid = COV_Subscriptions[index].valid
      /\ new.issueConfirmed = COV_Subscriptions[index].issueConfirmed
      /\ new.dest_index = COV_Subscriptions[index].dest_index
      /\ new.invokeID = COV_Subscriptions[index].invokeID
  BY <1>1 DEF SubscriptionEntry
<1>4. COV_Subscriptions' = [COV_Subscriptions EXCEPT ![index] = new]
  OBVIOUS
<1> HIDE DEF new
<1>5. \A i \in Subscriptions :
        COV_Subscriptions'[i] = IF i = index THEN new ELSE COV_Subscriptions[i]
  BY <1>1, <1>4
<1>6. COV_Subscriptions' \in [Subscriptions -> SubscriptionEntry]
  BY <1>1, <1>2, <1>4
<1>7. QED BY <1>3, <1>5, <1>6

LEMMA HarmlessSteps ==
  ASSUME IInv, Start \/ Mark \/ Clear \/ Skip \/ \E sent \in Outcomes : SendUnconfirmed(sent)
  PROVE  IInv'
<1>1. TypeOK
  BY DEF IInv
<1>2. CASE Start
  <2>1. TypeOK'
    BY <1>1, <1>2, CovAssumption DEF TypeOK, Start, Subscriptions, table, objects
  <2>2. QED BY <1>2, <2>1, HarmlessStep DEF Start, table
<1>3. CASE Mark
  <2> DEFINE marks == COV_Subscriptions[index].valid
                        /\ COV_Subscriptions[index].object \in changed \cap present
  <2>1. cov_task_state' \in States /\ index' \in Subscriptions
    BY <1>1, <1>3, StepType DEF Mark, States
  <2>2. UNCHANGED <<COV_Addresses, table, objects, inflight, owed>>
    BY <1>3 DEF Mark
  <2>3. CASE marks
    <3>1. COV_Subscriptions' = [COV_Subscriptions EXCEPT ![index].send_requested = TRUE]
      BY <1>3, <2>3 DEF Mark
    <3>2. TypeOK'
      BY <1>1, <2>1, <2>2, <3>1, RequestStep DEF TypeOK, States, table, objects
    <3>3. QED BY <2>2, <3>1, <3>2, RequestStep, HarmlessStep DEF table
  <2>4. CASE ~marks
    <3>1. COV_Subscriptions' = COV_Subscriptions
      BY <1>3, <2>4 DEF Mark
    <3>2. TypeOK'
      BY <1>1, <2>1, <2>2, <3>1 DEF TypeOK, States, table, objects
    <3>3. QED BY <2>2, <3>1, <3>2, HarmlessStep DEF table
  <2>5. QED BY <2>3, <2>4
<1>4. CASE Clear
  <2>1. cov_task_state' \in States /\ index' \in Subscriptions
    BY <1>1, <1>4, StepType DEF Clear, States
  <2>2. changed' \in SUBSET Objects
    BY <1>1, <1>4 DEF Clear, TypeOK
  <2>3. UNCHANGED <<COV_Subscriptions, COV_Addresses, table, present, inflight, owed>>
    BY <1>4 DEF Clear
  <2>4. TypeOK'
    BY <1>1, <2>1, <2>2, <2>3 DEF TypeOK, States, table
  <2>5. QED BY <2>3, <2>4, HarmlessStep DEF table
<1>5. CASE Skip
  <2>1. cov_task_state' \in States /\ index' \in Subscriptions
    BY <1>1, <1>5, StepType DEF Skip, States
  <2>2. UNCHANGED <<COV_Subscriptions, COV_Addresses, table, objects, inflight, owed>>
    BY <1>5 DEF Skip
  <2>3. TypeOK'
    BY <1>1, <2>1, <2>2 DEF TypeOK, States, table, objects
  <2>4. QED BY <2>2, <2>3, HarmlessStep DEF table
<1>6. ASSUME NEW sent \in Outcomes, SendUnconfirmed(sent) PROVE IInv'
  <2>1. cov_task_state' \in States /\ index' \in Subscriptions
    BY <1>1, <1>6, StepType DEF SendUnconfirmed, States
  <2>2. /\ COV_Subscriptions' = [COV_Subscriptions EXCEPT ![index].send_requested = ~sent]
        /\ owed' \in SUBSET Subscriptions
        /\ UNCHANGED <<COV_Addresses, table, objects, inflight>>
    BY <1>1, <1>6 DEF SendUnconfirmed, TypeOK
  <2>3. (~sent) \in BOOLEAN
    OBVIOUS
  <2>4. TypeOK'
    BY <1>1, <2>1, <2>2, <2>3, RequestStep DEF TypeOK, States, table, objects
  <2>5. QED BY <2>2, <2>3, <2>4, RequestStep, HarmlessStep DEF table
<1>7. QED BY <1>2, <1>3, <1>4, <1>5, <1>6

(* Housekeeping frees the ID in the entry and in the transaction table.    *)
LEMMA FreeStep ==
  ASSUME IInv, Free
  PROVE  IInv'
<1> DEFINE sub == COV_Subscriptions[index]
           new == [sub EXCEPT !.invokeID = 0]
           done == /\ sub.valid /\ sub.issueConfirmed /\ sub.invokeID # 0
                   /\ \/ InvokeIdFree(TSM_List, sub.invokeID)
                      \/ InvokeIdFailed(TSM_List, sub.invokeID)
<1>1. /\ COV_Subscriptions' = IF done THEN [COV_Subscriptions EXCEPT ![index] = new]
                                      ELSE COV_Subscriptions
      /\ TSM_List' = IF done THEN FreeIds(TSM_List, {sub.invokeID}) ELSE TSM_List
      /\ UNCHANGED <<COV_Addresses, Current_Invoke_ID, objects, inflight, owed>>
  BY DEF Free, FreeInvokeId
<1>2. cov_task_state' \in States /\ index' \in Subscriptions
  BY StepType DEF Free, States, IInv
<1>3. index \in Subscriptions /\ sub \in SubscriptionEntry
  BY DEF IInv, TypeOK
<1>4. /\ new \in SubscriptionEntry /\ new.valid = sub.valid /\ new.invokeID = 0
      /\ new.issueConfirmed = sub.issueConfirmed /\ new.dest_index = sub.dest_index
  <2>1. 0 \in 0..MaxInvokeId
    BY TableAssumption
  <2>2. QED BY <1>3, <2>1 DEF SubscriptionEntry
<1> HIDE DEF done, new
<1>5. CASE ~done
  <2>1. UNCHANGED <<COV_Subscriptions, TSM_List, COV_Addresses>>
    BY <1>1, <1>5
  <2>2. TypeOK'
    BY <1>1, <1>2, <2>1 DEF IInv, TypeOK, States, objects
  <2>3. QED BY <2>1, <2>2, HarmlessStep
<1>6. CASE done
  <2>1. \A i \in Subscriptions :
          COV_Subscriptions'[i] = IF i = index THEN new ELSE COV_Subscriptions[i]
    BY <1>1, <1>3, <1>6 DEF IInv, TypeOK
  <2>2. /\ TSM_List' \in [Slots -> Entry]
        /\ UsedIds(TSM_List') = UsedIds(TSM_List) \ {sub.invokeID}
        /\ \A s \in Slots : TSM_List'[s].state = Await => TSM_List'[s].InvokeID # 0
    BY <1>1, <1>6, FreeEffect
  <2>3. COV_Subscriptions' \in [Subscriptions -> SubscriptionEntry]
    BY <1>1, <1>3, <1>4, <1>6 DEF IInv, TypeOK
  <2>4. AddressTableConsistent' /\ UniqueAddresses'
    BY <1>1, <1>4, <2>1, SameAddressing
  <2>5. Valid' = Valid
    BY <1>4, <2>1 DEF Valid, ValidIn
  <2>6. NoSlotLeaks'
    <3> SUFFICES ASSUME NEW id \in UsedIds(TSM_List')
                 PROVE  \E j \in Valid' : COV_Subscriptions'[j].invokeID = id
      BY DEF NoSlotLeaks
    <3>1. PICK j \in Valid : COV_Subscriptions[j].invokeID = id
      BY <2>2 DEF IInv, NoSlotLeaks
    <3>2. QED BY <2>1, <2>2, <2>5, <3>1 DEF Valid, ValidIn
  <2>7. OnlyConfirmedHaveIds'
    BY <1>4, <2>1, <2>5 DEF IInv, OnlyConfirmedHaveIds
  <2>8. QED
    BY <1>1, <1>2, <2>2, <2>3, <2>4, <2>6, <2>7
       DEF IInv, TypeOK, PendingHaveIds, States, objects
<1>7. QED BY <1>5, <1>6

(* A confirmed notification takes a free slot and a new ID, and the entry, *)
(* which had none, holds it: nothing else knows of it.                     *)
LEMMA SendConfirmedStep ==
  ASSUME IInv, NEW sent \in Outcomes, SendConfirmed(sent)
  PROVE  IInv'
<1> DEFINE sub == COV_Subscriptions[index]
           id == NextFreeInvokeId(TSM_List, Current_Invoke_ID)
           slot == FirstFreeSlot(TSM_List)
           new == [sub EXCEPT !.invokeID = id, !.send_requested = ~sent]
<1>1. /\ CanSend(sub) /\ sub.issueConfirmed
      /\ TSM_List' = SetConfirmedTransaction(
                       Reserve(TSM_List, Current_Invoke_ID, ApduTimeout), id, ApduTimeout)
      /\ Current_Invoke_ID' = CursorAfter(TSM_List, Current_Invoke_ID)
      /\ COV_Subscriptions' = [COV_Subscriptions EXCEPT ![index] = new]
      /\ inflight' = IF sent THEN inflight \cup {id} ELSE inflight
      /\ owed' = IF sent THEN owed \ {index} ELSE owed
      /\ UNCHANGED <<COV_Addresses, objects>>
  BY DEF SendConfirmed
<1>2. cov_task_state' \in States /\ index' \in Subscriptions
  BY StepType DEF SendConfirmed, States, IInv
<1>3. /\ index \in Subscriptions /\ sub \in SubscriptionEntry
      /\ TSM_List \in [Slots -> Entry] /\ Current_Invoke_ID \in InvokeIds
      /\ ApduTimeout \in Nat /\ TransactionAvailable(TSM_List)
      /\ sub.valid /\ sub.invokeID = 0
  BY <1>1, CovAssumption DEF IInv, TypeOK, CanSend
<1>4. id \in InvokeIds \ UsedIds(TSM_List) /\ Current_Invoke_ID' \in InvokeIds
  BY <1>1, <1>3, NextFreeInvokeIdIsFree
<1>5. id # 0 /\ id \in 0..MaxInvokeId
  BY <1>4, TableAssumption DEF InvokeIds
<1>6. slot \in Slots /\ TSM_List[slot].InvokeID = 0
  BY <1>3, FirstFreeSlotIsFree
<1>7. /\ TSM_List' \in [Slots -> Entry]
      /\ TSM_List'[slot].InvokeID = id
      /\ \A s \in Slots : s # slot => TSM_List'[s] = TSM_List[s]
  BY <1>1, <1>3, SendEffect
<1>8. /\ new \in SubscriptionEntry /\ new.valid = sub.valid
      /\ new.issueConfirmed = sub.issueConfirmed
      /\ new.dest_index = sub.dest_index /\ new.invokeID = id
  <2>1. (~sent) \in BOOLEAN
    OBVIOUS
  <2> HIDE DEF id, sub
  <2>2. [sub EXCEPT !.invokeID = id] \in SubscriptionEntry
    BY <1>3, <1>5 DEF SubscriptionEntry
  <2>3. new \in SubscriptionEntry
    BY <2>1, <2>2 DEF SubscriptionEntry
  <2>4. QED BY <1>3, <2>3 DEF SubscriptionEntry
<1> HIDE DEF id, slot, new
<1>9. \A i \in Subscriptions :
        COV_Subscriptions'[i] = IF i = index THEN new ELSE COV_Subscriptions[i]
  BY <1>1, <1>3 DEF IInv, TypeOK
<1>10. Valid' = Valid
  BY <1>8, <1>9 DEF Valid, ValidIn
<1>11. AddressTableConsistent' /\ UniqueAddresses'
  BY <1>1, <1>8, <1>9, SameAddressing
<1>12. PendingHaveIds'
  BY <1>5, <1>7 DEF IInv, PendingHaveIds
<1>13. NoSlotLeaks'
  <2> SUFFICES ASSUME NEW used \in UsedIds(TSM_List')
               PROVE  \E j \in Valid' : COV_Subscriptions'[j].invokeID = used
    BY DEF NoSlotLeaks
  <2>1. CASE used = id
    <3>1. index \in Valid'
      BY <1>3, <1>10 DEF Valid, ValidIn
    <3>2. COV_Subscriptions'[index].invokeID = id
      BY <1>3, <1>8, <1>9
    <3>3. QED BY <2>1, <3>1, <3>2
  <2>2. CASE used # id
    <3>1. used \in UsedIds(TSM_List) /\ used # 0
      BY <1>7, <2>2 DEF UsedIds
    <3>2. PICK j \in Valid : COV_Subscriptions[j].invokeID = used
      BY <3>1 DEF IInv, NoSlotLeaks
    <3>3. j # index /\ j \in Subscriptions
      BY <1>3, <3>1, <3>2 DEF Valid, ValidIn
    <3>4. QED BY <1>9, <1>10, <3>2, <3>3
  <2>3. QED BY <2>1, <2>2
<1>14. OnlyConfirmedHaveIds'
  <2>1. index \in Valid
    BY <1>3 DEF Valid, ValidIn
  <2>2. QED BY <1>1, <1>8, <1>9, <1>10, <2>1 DEF IInv, OnlyConfirmedHaveIds
<1>15. TypeOK'
  <2>1. COV_Subscriptions' \in [Subscriptions -> SubscriptionEntry]
    BY <1>1, <1>3, <1>8 DEF IInv, TypeOK
  <2>2. inflight' \in SUBSET InvokeIds /\ owed' \in SUBSET Subscriptions
    BY <1>1, <1>4 DEF IInv, TypeOK
  <2>3. QED
    BY <1>1, <1>2, <1>4, <1>7, <2>1, <2>2 DEF IInv, TypeOK, States, objects
<1>16. QED
  BY <1>11, <1>12, <1>13, <1>14, <1>15 DEF IInv

-----------------------------------------------------------------------------
(* The refresh thread, the network, and the invariant as a whole.          *)

LEMMA EnvironmentStep ==
  ASSUME IInv, Environment
  PROVE  IInv'
<1>1. UNCHANGED <<COV_Subscriptions, COV_Addresses, TSM_List, Current_Invoke_ID, fsm>>
  BY DEF Environment, ValueChanges, ObjectInit, Lose, table
<1>2. changed' \in SUBSET Objects /\ present' \in SUBSET Objects
  BY CovAssumption DEF IInv, TypeOK, Environment, ValueChanges, ObjectInit, Lose, objects
<1>3. inflight' \in SUBSET InvokeIds
  BY DEF IInv, TypeOK, Environment, ValueChanges, ObjectInit, Lose
<1>4. owed' \in SUBSET Subscriptions
  BY DEF IInv, TypeOK, Environment, ValueChanges, ObjectInit, Lose, ValidIn
<1>5. TypeOK'
  BY <1>1, <1>2, <1>3, <1>4 DEF IInv, TypeOK, fsm
<1>6. QED BY <1>1, <1>5, HarmlessStep

LEMMA NextIInv == IInv /\ [Next]_vars => IInv'
<1> SUFFICES ASSUME IInv, [Next]_vars PROVE IInv'
  OBVIOUS
<1>1. CASE MainThread
  BY <1>1, SubscribeStep, CancelStep, TimerStep, AnswerStep DEF MainThread
<1>2. CASE CovThread
  BY <1>2, HarmlessSteps, FreeStep, SendConfirmedStep DEF CovThread
<1>3. CASE Environment
  BY <1>3, EnvironmentStep
<1>4. CASE UNCHANGED vars
  <2>1. UNCHANGED <<COV_Subscriptions, COV_Addresses, TSM_List, Current_Invoke_ID,
                    cov_task_state, index, changed, present, inflight, owed>>
    BY <1>4 DEF vars, table, fsm, objects
  <2>2. TypeOK'
    BY <2>1 DEF IInv, TypeOK
  <2>3. QED BY <2>1, <2>2, HarmlessStep
<1>5. QED BY <1>1, <1>2, <1>3, <1>4 DEF Next

LEMMA Invariance == Spec => []IInv
<1>1. QED BY InitIInv, NextIInv, PTL DEF Spec

(* Every variable keeps its type, for tables of every size.                *)
THEOREM Typing == Spec => []TypeOK
<1>1. IInv => TypeOK
  BY DEF IInv
<1>2. QED BY Invariance, <1>1, PTL

(* No entry points at an address slot that was given back, and no slot is  *)
(* kept without an entry: cov_address_remove_unused is called wherever an  *)
(* entry is removed.                                                       *)
THEOREM AddressesStayConsistent == Spec => []AddressTableConsistent
<1>1. IInv => AddressTableConsistent
  BY DEF IInv
<1>2. QED BY Invariance, <1>1, PTL

(* cov_address_add stores no address twice.                                *)
THEOREM AddressesStayUnique == Spec => []UniqueAddresses
<1>1. IInv => UniqueAddresses
  BY DEF IInv
<1>2. QED BY Invariance, <1>1, PTL

(* No path through renewal, cancellation, expiry, failure and sending      *)
(* loses a transaction slot.                                               *)
THEOREM TransactionsNeverLeak == Spec => []NoSlotLeaks
<1>1. IInv => NoSlotLeaks
  BY DEF IInv
<1>2. QED BY Invariance, <1>1, PTL

(* The expiry handler, which looks at confirmed entries only, misses none. *)
THEOREM IdsBelongToConfirmed == Spec => []OnlyConfirmedHaveIds
<1>1. IInv => OnlyConfirmedHaveIds
  BY DEF IInv
<1>2. QED BY Invariance, <1>1, PTL

-----------------------------------------------------------------------------
(* The refinement of the abstract service. The entries stand for contexts   *)
(* as long as every subscriber has a slot of the address table.            *)

(* There is a place in the address table for every subscriber.             *)
RoomForAll == IsFiniteSet(Addresses) /\ Cardinality(Addresses) <= MaxAddresses

(* What the refinement needs besides: a context has one entry, and only the *)
(* entries in use owe a notification.                                        *)
OnePerContext == \A i, j \in Valid : Context(i) = Context(j) => i = j
OwedAreValid == owed \subseteq Valid
ContextsAreNamed ==
  \A i \in Valid : COV_Subscriptions[i].object \in Objects /\ COV_Subscriptions[i].pid \in ProcessIds

SInv ==
  /\ IInv /\ EverySubscriptionIsAddressed /\ ContextsAreNamed
  /\ OnePerContext /\ OwedAreValid

(* The terms of the context of an entry.                                   *)
TermsOf(i) == [confirmed |-> COV_Subscriptions[i].issueConfirmed,
               lifetime |-> COV_Subscriptions[i].lifetime]

(* The 16 slots cannot all hold addresses of other subscribers.            *)
LEMMA SlotIsFound ==
  ASSUME IInv, RoomForAll, NEW src \in Addresses
  PROVE  SlotFor(src) # NoSlot
<1> SUFFICES ASSUME SlotFor(src) = NoSlot PROVE FALSE
  OBVIOUS
<1> DEFINE Others == Addresses \ {src}
<1>1. SlotsHolding(src) = {} /\ SlotsHolding(NoAddress) = {}
  <2>1. SlotsHolding(src) = {}
    BY SlotForFits DEF IInv
  <2>2. SUFFICES ASSUME SlotsHolding(NoAddress) # {} PROVE FALSE
    BY <2>1
  <2>3. SlotsHolding(NoAddress) \in SUBSET Nat
    BY DEF SlotsHolding, AddressSlots
  <2>4. SlotFor(src) \in SlotsHolding(NoAddress)
    BY <2>1, <2>2, <2>3, FirstIsLeast DEF SlotFor
  <2>5. QED BY <2>4 DEF SlotsHolding, AddressSlots, NoSlot
<1>2. COV_Addresses \in [AddressSlots -> Others]
  BY <1>1 DEF IInv, TypeOK, SlotsHolding
<1>3. IsFiniteSet(Others) /\ Cardinality(Others) = Cardinality(Addresses) - 1
  BY FS_RemoveElement DEF RoomForAll
<1>4. IsFiniteSet(AddressSlots) /\ Cardinality(AddressSlots) = MaxAddresses
  <2>1. MaxAddresses \in Int /\ 1 \in Int /\ MaxAddresses >= 1
    BY CovAssumption
  <2>2. IsFiniteSet(1..MaxAddresses)
        /\ Cardinality(1..MaxAddresses) = IF 1 > MaxAddresses THEN 0 ELSE MaxAddresses - 1 + 1
    BY <2>1, FS_Interval
  <2>3. QED BY <2>1, <2>2 DEF AddressSlots
<1>5. Cardinality(Others) < Cardinality(AddressSlots)
  <2>1. Cardinality(Addresses) \in Nat
    BY FS_CardinalityType DEF RoomForAll
  <2>2. QED BY <1>3, <1>4, <2>1, CovAssumption DEF RoomForAll
<1>6. PICK a, b \in AddressSlots : a # b /\ COV_Addresses[a] = COV_Addresses[b]
  <2> HIDE DEF Others
  <2> QED BY <1>2, <1>3, <1>4, <1>5, FS_PigeonHole
<1>7. QED
  BY <1>2, <1>6, CovAssumption DEF IInv, UniqueAddresses

(* The entry that a request is about, and what becomes of the tables.      *)
LEMMA SubscribeEffect ==
  ASSUME SInv, RoomForAll, NEW src \in Addresses, NEW data \in Subscription,
         Subscribe(src, data)
  PROVE  \E i \in Subscriptions :
           /\ COV_Subscriptions'[i] = Requested(i, src, data)
           /\ \A j \in Subscriptions : j # i => COV_Subscriptions'[j] = COV_Subscriptions[j]
           /\ i \in Valid => Context(i) = <<src, data.object, data.pid>>
           /\ i \notin Valid => \A j \in Valid : Context(j) # <<src, data.object, data.pid>>
           /\ Valid' = Valid \cup {i}
           /\ Context(i)' = <<src, data.object, data.pid>>
           /\ \A j \in Valid : j # i => Context(j)' = Context(j)
           /\ owed' = owed \cup {i}
<1> DEFINE E == Existing(src, data)
           slot == SlotFor(src)
           key == <<src, data.object, data.pid>>
<1>0. PICK i : i = IF E # {} THEN First(E) ELSE First(UnusedEntries)
  OBVIOUS
<1>1. /\ E # {} \/ UnusedEntries # {}
      /\ COV_Subscriptions' = [COV_Subscriptions EXCEPT ![i] = Requested(i, src, data)]
      /\ COV_Addresses' = AddressesWith(src)
      /\ owed' = owed \cup {i}
  BY <1>0 DEF Subscribe
<1>2. \A j \in Valid : j \in E <=> Context(j) = key
  <2> TAKE j \in Valid
  <2>1. AddressOf(COV_Subscriptions[j]) # NoAddress
    BY DEF SInv, EverySubscriptionIsAddressed
  <2>2. QED BY <2>1 DEF Existing, Matches, Context, Valid, ValidIn
<1>3. E \subseteq Valid /\ E \in SUBSET Nat /\ UnusedEntries \in SUBSET Nat
  BY DEF Existing, Matches, UnusedEntries, Subscriptions, Valid, ValidIn
<1>5. i \in Subscriptions /\ (i \in Valid <=> E # {}) /\ (E # {} => i \in E)
  <2>1. CASE E # {}
    <3>1. i \in E
      BY <1>0, <1>3, <2>1, FirstIsLeast
    <3>2. QED BY <1>3, <2>1, <3>1 DEF Valid, ValidIn
  <2>2. CASE E = {}
    <3>1. i \in UnusedEntries
      BY <1>0, <1>1, <1>3, <2>2, FirstIsLeast
    <3>2. QED BY <2>2, <3>1 DEF UnusedEntries, Valid
  <2>3. QED BY <2>1, <2>2
<1>6. /\ slot \in AddressSlots
      /\ COV_Addresses' = [COV_Addresses EXCEPT ![slot] = src]
      /\ COV_Addresses[slot] \in {src, NoAddress}
  <2>1. slot # NoSlot
    BY SlotIsFound DEF SInv
  <2>2. QED BY <1>1, <2>1, SlotForFits DEF SInv, IInv, AddressesWith
<1> HIDE DEF E, slot
<1>7. /\ COV_Subscriptions'[i] = Requested(i, src, data)
      /\ \A j \in Subscriptions : j # i => COV_Subscriptions'[j] = COV_Subscriptions[j]
  BY <1>1, <1>5 DEF SInv, IInv, TypeOK
<1>8. Valid' = Valid \cup {i}
  BY <1>5, <1>7 DEF Valid, ValidIn, Requested
<1>9. Context(i)' = key
  <2>1. /\ COV_Subscriptions'[i].object = data.object /\ COV_Subscriptions'[i].pid = data.pid
        /\ COV_Subscriptions'[i].dest_index = slot
    BY <1>7 DEF Requested, slot
  <2>2. COV_Addresses'[slot] = src /\ slot # NoSlot
    BY <1>6 DEF SInv, IInv, TypeOK, AddressSlots, NoSlot
  <2>3. QED BY <2>1, <2>2 DEF Context, AddressOf
<1>10. ASSUME NEW j \in Valid, j # i PROVE Context(j)' = Context(j)
  <2>1. COV_Subscriptions'[j] = COV_Subscriptions[j] /\ j \in Subscriptions
    BY <1>7, <1>10 DEF Valid, ValidIn
  <2>2. AddressOf(COV_Subscriptions[j]) # NoAddress
    BY DEF SInv, EverySubscriptionIsAddressed
  <2>3. COV_Subscriptions[j].dest_index \in AddressSlots
        /\ AddressOf(COV_Subscriptions[j]) = COV_Addresses[COV_Subscriptions[j].dest_index]
    BY <2>1, <2>2 DEF AddressOf, SInv, IInv, TypeOK, SubscriptionEntry, AddressSlots, NoSlot
  <2>4. COV_Addresses'[COV_Subscriptions[j].dest_index] = COV_Addresses[COV_Subscriptions[j].dest_index]
    BY <1>6, <2>2, <2>3 DEF SInv, IInv, TypeOK
  <2>5. AddressOf(COV_Subscriptions[j])' = AddressOf(COV_Subscriptions[j])
    BY <2>1, <2>3, <2>4 DEF AddressOf, AddressSlots, NoSlot
  <2>6. QED BY <2>1, <2>5 DEF Context
<1>11. QED
  BY <1>1, <1>2, <1>3, <1>5, <1>7, <1>8, <1>9, <1>10

(* A subscription leaves the tables consistent.                            *)
LEMMA SubscribeService ==
  ASSUME SInv, RoomForAll, NEW src \in Addresses, NEW data \in Subscription,
         Subscribe(src, data), IInv'
  PROVE  SInv'
<1> DEFINE key == <<src, data.object, data.pid>>
<1>1. PICK i \in Subscriptions :
           /\ COV_Subscriptions'[i] = Requested(i, src, data)
           /\ \A j \in Subscriptions : j # i => COV_Subscriptions'[j] = COV_Subscriptions[j]
           /\ i \in Valid => Context(i) = key
           /\ i \notin Valid => \A j \in Valid : Context(j) # key
           /\ Valid' = Valid \cup {i}
           /\ Context(i)' = key
           /\ \A j \in Valid : j # i => Context(j)' = Context(j)
           /\ owed' = owed \cup {i}
  BY SubscribeEffect
<1>2. \A j \in Valid : j # i => Context(j) # key
  BY <1>1 DEF SInv, OnePerContext
<1>3. OnePerContext'
  BY <1>1, <1>2 DEF SInv, OnePerContext
<1>4. OwedAreValid'
  BY <1>1 DEF SInv, OwedAreValid
<1>5. EverySubscriptionIsAddressed'
  BY <1>1, CovAssumption DEF SInv, EverySubscriptionIsAddressed, Context
<1>6. ContextsAreNamed'
  BY <1>1 DEF SInv, ContextsAreNamed, Requested, Subscription, Valid, ValidIn
<1>7. QED BY <1>3, <1>4, <1>5, <1>6 DEF SInv

(* So does a step that only removes entries.                               *)
LEMMA FewerContexts ==
  ASSUME SInv, IInv', Valid' \subseteq Valid, owed' \subseteq Valid',
         \A j \in Valid' : Context(j)' = Context(j)
  PROVE  SInv'
<1>1. OnePerContext'
  BY DEF SInv, OnePerContext
<1>2. EverySubscriptionIsAddressed'
  BY DEF SInv, EverySubscriptionIsAddressed, Context
<1>3. ContextsAreNamed'
  BY DEF SInv, ContextsAreNamed, Context
<1>4. QED BY <1>1, <1>2, <1>3 DEF SInv, OwedAreValid

-----------------------------------------------------------------------------
(* The contexts are those of the valid entries, each with its terms.       *)
LEMMA ContextsOfEntries ==
  OnePerContext =>
    /\ Contexts = [key \in Keys |-> Contexts[key]]
    /\ \A i \in Valid : Contexts[Context(i)] = TermsOf(i)
<1> SUFFICES ASSUME OnePerContext
             PROVE  \A i \in Valid : Contexts[Context(i)] = TermsOf(i)
  BY DEF Contexts
<1> TAKE i \in Valid
<1>1. (CHOOSE j \in Valid : Context(j) = Context(i)) = i
  BY DEF OnePerContext
<1>2. QED BY <1>1 DEF Contexts, Keys, ContextTerms, TermsOf

(* The contexts and the pending ones, by their entries, before and after a *)
(* step.                                                                   *)
LEMMA KeysAndPending ==
  /\ \A i \in Valid : Context(i) \in Keys
  /\ \A key \in Keys : \E i \in Valid : Context(i) = key
  /\ \A i \in owed : Context(i) \in Pending
  /\ \A key \in Pending : \E i \in owed : Context(i) = key
BY DEF Keys, Pending

LEMMA KeysAndPendingNext ==
  /\ \A i \in Valid' : Context(i)' \in Keys'
  /\ \A key \in Keys' : \E i \in Valid' : Context(i)' = key
  /\ \A i \in owed' : Context(i)' \in Pending'
  /\ \A key \in Pending' : \E i \in owed' : Context(i)' = key
<1>1. (/\ \A i \in Valid : Context(i) \in Keys
       /\ \A key \in Keys : \E i \in Valid : Context(i) = key
       /\ \A i \in owed : Context(i) \in Pending
       /\ \A key \in Pending : \E i \in owed : Context(i) = key)'
  BY KeysAndPending, PTL
<1>2. QED BY <1>1

(* The same after a step.                                                  *)
LEMMA ContextsOfEntriesNext ==
  ASSUME SInv'
  PROVE  /\ Contexts' = [key \in Keys' |-> Contexts'[key]]
         /\ \A i \in Valid' : Contexts'[Context(i)'] = TermsOf(i)'
<1>1. OnePerContext' => (/\ Contexts = [key \in Keys |-> Contexts[key]]
                         /\ \A i \in Valid : Contexts[Context(i)] = TermsOf(i))'
  BY ContextsOfEntries, PTL
<1>2. OnePerContext'
  BY DEF SInv
<1>3. QED BY <1>1, <1>2

(* A step that leaves the entries' contexts and terms as they are.         *)
LEMMA SameContexts ==
  ASSUME SInv, SInv', Valid' = Valid,
         \A i \in Valid : Context(i)' = Context(i) /\ TermsOf(i)' = TermsOf(i)
  PROVE  Contexts' = Contexts
<1>1. Keys' = Keys
  BY KeysAndPending, KeysAndPendingNext
<1>2. ASSUME NEW key \in Keys PROVE Contexts'[key] = Contexts[key]
  <2>1. PICK i \in Valid : key = Context(i)
    BY KeysAndPending
  <2>2. QED BY <2>1, ContextsOfEntries, ContextsOfEntriesNext DEF SInv
<1>3. Contexts = [key \in Keys |-> Contexts[key]]
  BY ContextsOfEntries DEF SInv
<1>4. QED BY <1>1, <1>2, <1>3, ContextsOfEntriesNext

(* A step that removes entries and leaves the contexts of the others.      *)
LEMMA ContextsEnd ==
  ASSUME SInv, SInv', NEW gone \in SUBSET Valid, Valid' = Valid \ gone, owed' = owed \ gone,
         \A i \in Valid' : Context(i)' = Context(i)
  PROVE  /\ Keys' = {key \in Keys : \A i \in gone : Context(i) # key}
         /\ Pending' = {key \in Pending : \A i \in gone : Context(i) # key}
<1>1. \A i \in Valid', j \in gone : Context(i) # Context(j)
  BY DEF SInv, OnePerContext
<1>2. Keys' = {key \in Keys : \A i \in gone : Context(i) # key}
  BY <1>1, KeysAndPending, KeysAndPendingNext
<1>3. owed' \subseteq Valid' /\ owed \subseteq Valid
  BY DEF SInv, OwedAreValid
<1>4. Pending' = {key \in Pending : \A i \in gone : Context(i) # key}
  BY <1>1, <1>3, KeysAndPending, KeysAndPendingNext
<1>5. QED BY <1>2, <1>4

(* There are no more contexts than entries.                                *)
LEMMA KeysFit == Cardinality(Keys) <= MaxSubscriptions
<1> DEFINE f == [key \in Keys |-> CHOOSE i \in Valid : Context(i) = key]
<1>1. \A key \in Keys : f[key] \in Valid /\ Context(f[key]) = key
  BY KeysAndPending
<1>2. f \in Injection(Keys, Subscriptions)
  <2>1. Valid \subseteq Subscriptions
    BY DEF Valid, ValidIn
  <2>2. QED BY <1>1, <2>1 DEF Injection, IsInjective
<1>3. IsFiniteSet(Subscriptions) /\ Cardinality(Subscriptions) = MaxSubscriptions
  <2>1. MaxSubscriptions \in Int /\ 1 \in Int /\ MaxSubscriptions >= 1
    BY CovAssumption
  <2>2. IsFiniteSet(1..MaxSubscriptions) /\ Cardinality(1..MaxSubscriptions)
          = IF 1 > MaxSubscriptions THEN 0 ELSE MaxSubscriptions - 1 + 1
    BY <2>1, FS_Interval
  <2>3. QED BY <2>1, <2>2 DEF Subscriptions
<1> HIDE DEF f
<1>4. QED BY <1>2, <1>3, FS_Injection

(* The abstract specification counts in the same way.                      *)
LEMMA SameCardinality == \A S : Service!Cardinality(S) = Cardinality(S)
  BY Zenon DEF Service!Cardinality, Cardinality, Service!IsFiniteSet, IsFiniteSet

(* cov_list_subscribe makes or renews the context of the request and no    *)
(* other.                                                                  *)
LEMMA SubscribeIsSubscribe ==
  ASSUME SInv, SInv', RoomForAll, NEW src \in Addresses, NEW data \in Subscription,
         Subscribe(src, data)
  PROVE  Service!Next
<1> DEFINE key == <<src, data.object, data.pid>>
           terms == [confirmed |-> data.issueConfirmed, lifetime |-> data.lifetime]
<1>1. PICK i \in Subscriptions :
           /\ COV_Subscriptions'[i] = Requested(i, src, data)
           /\ \A j \in Subscriptions : j # i => COV_Subscriptions'[j] = COV_Subscriptions[j]
           /\ i \in Valid => Context(i) = key
           /\ i \notin Valid => \A j \in Valid : Context(j) # key
           /\ Valid' = Valid \cup {i}
           /\ Context(i)' = key
           /\ \A j \in Valid : j # i => Context(j)' = Context(j)
           /\ owed' = owed \cup {i}
  BY SubscribeEffect
<1>2. \A j \in Valid : j # i => Context(j) # key
  BY <1>1 DEF SInv, OnePerContext
<1>3. Keys' = Keys \cup {key}
  <2>1. \A j \in Valid' : Context(j)' \in Keys \cup {key}
    BY <1>1, KeysAndPending, KeysAndPendingNext
  <2>2. \A j \in Valid : Context(j) \in Keys'
    BY <1>1, KeysAndPending, KeysAndPendingNext
  <2>3. QED BY <1>1, <2>1, <2>2, KeysAndPending, KeysAndPendingNext
<1>4. Contexts' = [k \in Keys \cup {key} |-> IF k = key THEN terms ELSE Contexts[k]]
  <2>1. ASSUME NEW k \in Keys' PROVE Contexts'[k] = IF k = key THEN terms ELSE Contexts[k]
    <3>1. PICK j \in Valid' : k = Context(j)'
      BY KeysAndPending, KeysAndPendingNext
    <3>2. Contexts'[k] = TermsOf(j)'
      BY <3>1, ContextsOfEntriesNext
    <3>3. CASE j = i
      BY <1>1, <3>1, <3>2, <3>3 DEF TermsOf, Requested
    <3>4. CASE j # i
      <4>1. j \in Valid /\ j \in Subscriptions /\ k = Context(j)
        BY <1>1, <3>1, <3>4 DEF Valid, ValidIn
      <4>2. TermsOf(j)' = TermsOf(j)
        BY <1>1, <3>4, <4>1 DEF TermsOf
      <4>3. Contexts[k] = TermsOf(j)
        BY <4>1, ContextsOfEntries DEF SInv
      <4>4. QED BY <1>2, <3>2, <3>4, <4>1, <4>2, <4>3
    <3>5. QED BY <3>3, <3>4
  <2> HIDE DEF key, terms
  <2>2. QED BY <1>3, <2>1, ContextsOfEntriesNext
<1>5. Pending' = Pending \cup {key}
  <2>1. owed \subseteq Valid /\ (i \in owed => Context(i) = key)
    BY <1>1 DEF SInv, OwedAreValid
  <2>2. \A j \in owed' : Context(j)' \in Pending \cup {key}
    BY <1>1, <2>1, KeysAndPending, KeysAndPendingNext
  <2>3. \A j \in owed : Context(j) \in Pending'
    BY <1>1, <2>1, KeysAndPending, KeysAndPendingNext
  <2>4. key \in Pending'
    BY <1>1, KeysAndPending, KeysAndPendingNext
  <2>5. QED BY <1>1, <2>1, <2>2, <2>3, <2>4, KeysAndPending, KeysAndPendingNext
<1>6. Cardinality(Keys') <= MaxSubscriptions
  <2>1. (Cardinality(Keys) <= MaxSubscriptions)'
    BY KeysFit, PTL
  <2>2. QED BY <2>1
<1>7. key \in Addresses \X Objects \X ProcessIds /\ data.issueConfirmed \in BOOLEAN /\ data.lifetime \in Lifetimes
  BY CovAssumption DEF Subscription
<1>8. DOMAIN Contexts = Keys
  BY DEF Contexts
<1>9. Service!Subscribe(key, terms)
  <2>1. DOMAIN Contexts \cup {key} = Keys' /\ Service!Cardinality(Keys') <= MaxSubscriptions
    BY <1>3, <1>6, <1>8, SameCardinality
  <2> HIDE DEF key, terms
  <2>2. QED BY <1>3, <1>4, <1>5, <2>1 DEF Service!Subscribe
<1>10. QED BY <1>7, <1>9 DEF Service!Next, Service!Keys

(* An entry that is removed takes nothing of another's context along.      *)
LEMMA RemovalKeepsContexts ==
  ASSUME SInv, NEW gone \in SUBSET Subscriptions,
         gone = {} \/ COV_Addresses' = RemoveUnused(COV_Addresses, COV_Subscriptions'),
         gone = {} => UNCHANGED COV_Addresses,
         \A i \in gone : COV_Subscriptions'[i] = Unused,
         \A i \in Subscriptions \ gone :
           /\ COV_Subscriptions'[i].valid = COV_Subscriptions[i].valid
           /\ COV_Subscriptions'[i].object = COV_Subscriptions[i].object
           /\ COV_Subscriptions'[i].pid = COV_Subscriptions[i].pid
           /\ COV_Subscriptions'[i].dest_index = COV_Subscriptions[i].dest_index
  PROVE  Valid' = Valid \ gone /\ \A i \in Valid' : Context(i)' = Context(i)
<1>1. Valid' = Valid \ gone
  BY DEF Valid, ValidIn, Unused
<1>2. ASSUME NEW i \in Valid' PROVE AddressOf(COV_Subscriptions[i])' = AddressOf(COV_Subscriptions[i])
  <2>1. i \in Valid /\ i \in Subscriptions \ gone
    BY <1>1 DEF Valid, ValidIn
  <2>2. COV_Subscriptions[i].dest_index \in AddressSlots \cup {NoSlot}
    BY <2>1 DEF SInv, IInv, TypeOK, SubscriptionEntry, AddressSlots, NoSlot
  <2>3. ASSUME NEW a \in AddressSlots, COV_Subscriptions'[i].dest_index = a
        PROVE  COV_Addresses'[a] = COV_Addresses[a]
    BY <2>3 DEF RemoveUnused, Valid
  <2>4. QED BY <2>1, <2>2, <2>3 DEF AddressOf
<1>3. ASSUME NEW i \in Valid' PROVE Context(i)' = Context(i)
  <2>1. i \in Subscriptions \ gone
    BY <1>1 DEF Valid, ValidIn
  <2>2. QED BY <1>2, <2>1 DEF Context
<1>4. QED BY <1>1, <1>3

(* Every context is one of the service.                                    *)
LEMMA ContextIsKey ==
  ASSUME SInv, NEW i \in Valid
  PROVE  Context(i) \in Addresses \X Objects \X ProcessIds
<1>1. AddressOf(COV_Subscriptions[i]) # NoAddress /\ i \in Subscriptions
  BY DEF SInv, EverySubscriptionIsAddressed, Valid, ValidIn
<1>2. COV_Subscriptions[i].dest_index \in AddressSlots \cup {NoSlot}
  BY <1>1 DEF SInv, IInv, TypeOK, SubscriptionEntry, AddressSlots, NoSlot
<1>3. AddressOf(COV_Subscriptions[i]) \in Addresses
  BY <1>1, <1>2 DEF AddressOf, SInv, IInv, TypeOK
<1>4. QED BY <1>3 DEF Context, SInv, ContextsAreNamed

(* A cancellation ends one context, and none when there is no matching     *)
(* entry.                                                                  *)
LEMMA CancelService ==
  ASSUME SInv, IInv', NEW src \in Addresses, NEW data \in Cancellation, Cancel(src, data)
  PROVE  SInv' /\ Service!Next
<1> DEFINE E == Existing(src, data)
           key == <<src, data.object, data.pid>>
<1>1. PICK i : i = First(E)
  OBVIOUS
<1>2. /\ E # {}
      /\ COV_Subscriptions' = [COV_Subscriptions EXCEPT ![i] = Unused]
      /\ COV_Addresses' = RemoveUnused(COV_Addresses, COV_Subscriptions')
      /\ owed' = owed \ {i}
  BY <1>1 DEF Cancel
<1>3. i \in Valid /\ i \in Subscriptions /\ Context(i) = key
  <2>1. E \in SUBSET Nat
    BY DEF Existing, Subscriptions
  <2>2. i \in E
    BY <1>1, <1>2, <2>1, FirstIsLeast
  <2>3. i \in Valid
    BY <2>2 DEF Existing, Matches, Valid, ValidIn
  <2>4. AddressOf(COV_Subscriptions[i]) # NoAddress
    BY <2>3 DEF SInv, EverySubscriptionIsAddressed
  <2>5. QED BY <2>2, <2>3, <2>4 DEF Existing, Matches, Context, Valid, ValidIn
<1> HIDE DEF E
<1>4. /\ COV_Subscriptions'[i] = Unused
      /\ \A j \in Subscriptions \ {i} : COV_Subscriptions'[j] = COV_Subscriptions[j]
  BY <1>2, <1>3 DEF SInv, IInv, TypeOK
<1>5. Valid' = Valid \ {i} /\ \A j \in Valid' : Context(j)' = Context(j)
  <2>1. {i} \in SUBSET Subscriptions
    BY <1>3
  <2>2. QED BY <1>2, <1>4, <2>1, RemovalKeepsContexts
<1>6. SInv'
  BY <1>2, <1>5, FewerContexts DEF SInv, OwedAreValid
<1>7. Keys' = Keys \ {key} /\ Pending' = Pending \ {key}
  <2>1. {i} \in SUBSET Valid
    BY <1>3
  <2>2. /\ Keys' = {k \in Keys : \A j \in {i} : Context(j) # k}
        /\ Pending' = {k \in Pending : \A j \in {i} : Context(j) # k}
    BY <1>2, <1>5, <1>6, <2>1, ContextsEnd
  <2> HIDE DEF key
  <2>3. QED BY <1>3, <2>2
<1>8. \A k \in Keys' : Contexts'[k] = Contexts[k]
  <2> SUFFICES ASSUME NEW k \in Keys' PROVE Contexts'[k] = Contexts[k]
    OBVIOUS
  <2>1. PICK j \in Valid' : Context(j)' = k
    BY KeysAndPendingNext
  <2>2. Contexts'[k] = TermsOf(j)'
    BY <1>6, <2>1, ContextsOfEntriesNext
  <2>3. j \in Valid /\ Context(j) = k /\ j \in Subscriptions \ {i}
    BY <1>5, <2>1 DEF Valid, ValidIn
  <2>4. TermsOf(j)' = TermsOf(j)
    BY <1>4, <2>3 DEF TermsOf
  <2>5. QED BY <2>2, <2>3, <2>4, ContextsOfEntries DEF SInv
<1>9. key \in Keys /\ key \in Addresses \X Objects \X ProcessIds /\ DOMAIN Contexts = Keys
  BY <1>3, KeysAndPending DEF Cancellation, Contexts
<1> HIDE DEF key
<1>10. Contexts' = [k \in Keys \ {key} |-> Contexts[k]]
  BY <1>6, <1>7, <1>8, ContextsOfEntriesNext
<1>11. Service!Cancel(key)
  BY <1>7, <1>9, <1>10 DEF Service!Cancel, Service!End
<1>12. QED BY <1>6, <1>9, <1>11 DEF Service!Next, Service!Keys

(* The expiry handler ends the contexts whose lifetime is over.            *)
LEMMA TimerService ==
  ASSUME SInv, IInv', NEW elapsed \in ElapsedSeconds, TimerSeconds(elapsed)
  PROVE  SInv' /\ Service!Next
<1>1. PICK gone : gone = Expiring(elapsed)
  OBVIOUS
<1>2. /\ COV_Subscriptions' = [i \in Subscriptions |-> Aged(i, elapsed)]
      /\ COV_Addresses' = IF gone = {} THEN COV_Addresses
                          ELSE RemoveUnused(COV_Addresses, COV_Subscriptions')
      /\ owed' = owed \ gone
  BY <1>1 DEF TimerSeconds
<1>3. gone \in SUBSET Valid /\ gone \in SUBSET Subscriptions /\ elapsed \in Nat
  BY <1>1, CovAssumption DEF Expiring, ValidIn, Valid
<1>4. \A i \in gone : COV_Subscriptions'[i] = Unused
  BY <1>1, <1>2, <1>3 DEF Aged
<1>5. ASSUME NEW i \in Subscriptions \ gone
      PROVE  /\ COV_Subscriptions'[i].valid = COV_Subscriptions[i].valid
             /\ COV_Subscriptions'[i].issueConfirmed = COV_Subscriptions[i].issueConfirmed
             /\ COV_Subscriptions'[i].object = COV_Subscriptions[i].object
             /\ COV_Subscriptions'[i].pid = COV_Subscriptions[i].pid
             /\ COV_Subscriptions'[i].dest_index = COV_Subscriptions[i].dest_index
             /\ i \in Valid => COV_Subscriptions'[i].lifetime =
                                 IF COV_Subscriptions[i].lifetime = 0 THEN 0
                                 ELSE COV_Subscriptions[i].lifetime - elapsed
  <2>1. COV_Subscriptions[i] \in SubscriptionEntry
    BY DEF SInv, IInv, TypeOK
  <2>2. COV_Subscriptions'[i] = Aged(i, elapsed) /\ i \notin Expiring(elapsed)
    BY <1>1, <1>2
  <2>3. QED BY <2>1, <2>2 DEF Aged, SubscriptionEntry, Valid, ValidIn
<1>6. Valid' = Valid \ gone /\ \A i \in Valid' : Context(i)' = Context(i)
  BY <1>2, <1>3, <1>4, <1>5, RemovalKeepsContexts
<1>7. SInv'
  BY <1>2, <1>6, FewerContexts DEF SInv, OwedAreValid
<1>8. \A i \in Valid : i \in gone <=> TermsOf(i).lifetime \in 1..elapsed
  <2> SUFFICES ASSUME NEW i \in Valid PROVE i \in gone <=> TermsOf(i).lifetime \in 1..elapsed
    OBVIOUS
  <2>1. COV_Subscriptions[i].lifetime \in Nat
    BY DEF SInv, IInv, TypeOK, SubscriptionEntry, Valid, ValidIn
  <2>2. QED BY <1>1, <1>3, <2>1 DEF Expiring, TermsOf, Valid
<1> DEFINE Gone == Service!Expired(elapsed)
<1>9. DOMAIN Contexts = Keys
  BY DEF Contexts
<1>10. \A i \in Valid : Context(i) \in Gone <=> i \in gone
  BY <1>8, <1>9, ContextsOfEntries, KeysAndPending DEF SInv, Service!Expired
<1>11. \A key \in Gone : key \in Keys
  BY <1>9 DEF Service!Expired
<1> HIDE DEF Gone
<1>12. \A key \in Keys : key \in Gone <=> \E i \in gone : Context(i) = key
  BY <1>3, <1>10, KeysAndPending
<1>13. Keys' = Keys \ Gone /\ Pending' = Pending \ Gone
  <2>1. /\ Keys' = {key \in Keys : \A i \in gone : Context(i) # key}
        /\ Pending' = {key \in Pending : \A i \in gone : Context(i) # key}
    BY <1>2, <1>3, <1>6, <1>7, ContextsEnd
  <2>2. Pending \subseteq Keys
    BY KeysAndPending DEF SInv, OwedAreValid
  <2>3. QED BY <1>12, <2>1, <2>2
<1>14. ASSUME NEW key \in Keys'
       PROVE  Contexts'[key] = IF Contexts[key].lifetime = 0 THEN Contexts[key]
                               ELSE [Contexts[key] EXCEPT !.lifetime = @ - elapsed]
  <2>1. PICK i \in Valid' : Context(i)' = key
    BY KeysAndPendingNext
  <2>2. Contexts'[key] = TermsOf(i)'
    BY <1>7, <2>1, ContextsOfEntriesNext
  <2>3. i \in Valid /\ Context(i) = key /\ i \in Subscriptions \ gone
    BY <1>6, <2>1 DEF Valid, ValidIn
  <2>4. Contexts[key] = TermsOf(i)
    BY <2>3, ContextsOfEntries DEF SInv
  <2>5. QED BY <1>5, <2>2, <2>3, <2>4 DEF TermsOf
<1>15. Contexts' = [key \in Keys \ Gone |-> IF Contexts[key].lifetime = 0 THEN Contexts[key]
                                           ELSE [Contexts[key] EXCEPT !.lifetime = @ - elapsed]]
  BY <1>7, <1>13, <1>14, ContextsOfEntriesNext
<1>16. Service!Elapse(elapsed)
  BY <1>9, <1>13, <1>15 DEF Service!Elapse, Gone
<1>17. QED BY <1>7, <1>16 DEF Service!Next

(* The steps that change no entry's context or terms.                      *)
LEMMA QuietStep ==
  ASSUME SInv, IInv', owed' \subseteq Valid, UNCHANGED COV_Addresses,
         \A i \in Subscriptions :
           /\ COV_Subscriptions'[i].valid = COV_Subscriptions[i].valid
           /\ COV_Subscriptions'[i].issueConfirmed = COV_Subscriptions[i].issueConfirmed
           /\ COV_Subscriptions'[i].object = COV_Subscriptions[i].object
           /\ COV_Subscriptions'[i].pid = COV_Subscriptions[i].pid
           /\ COV_Subscriptions'[i].dest_index = COV_Subscriptions[i].dest_index
           /\ COV_Subscriptions'[i].lifetime = COV_Subscriptions[i].lifetime
  PROVE  /\ SInv' /\ Contexts' = Contexts /\ Valid' = Valid
         /\ \A i \in Valid : Context(i)' = Context(i)
<1>1. Valid' = Valid /\ Valid \subseteq Subscriptions
  BY DEF Valid, ValidIn
<1>2. \A i \in Valid : Context(i)' = Context(i)
  BY <1>1 DEF Context, AddressOf
<1>3. SInv'
  BY <1>1, <1>2, FewerContexts
<1>4. \A i \in Valid : TermsOf(i)' = TermsOf(i)
  BY <1>1 DEF TermsOf
<1>5. QED BY <1>1, <1>2, <1>3, <1>4, SameContexts

(* Only send_requested or the ID of the entry of the sweep changes.        *)
LEMMA SweepStep ==
  ASSUME SInv, CovThread
  PROVE  /\ UNCHANGED COV_Addresses
         /\ \A i \in Subscriptions :
              /\ COV_Subscriptions'[i].valid = COV_Subscriptions[i].valid
              /\ COV_Subscriptions'[i].issueConfirmed = COV_Subscriptions[i].issueConfirmed
              /\ COV_Subscriptions'[i].object = COV_Subscriptions[i].object
              /\ COV_Subscriptions'[i].pid = COV_Subscriptions[i].pid
              /\ COV_Subscriptions'[i].dest_index = COV_Subscriptions[i].dest_index
              /\ COV_Subscriptions'[i].lifetime = COV_Subscriptions[i].lifetime
<1>1. /\ index \in Subscriptions
      /\ COV_Subscriptions \in [Subscriptions -> SubscriptionEntry]
  BY DEF SInv, IInv, TypeOK
<1>2. /\ UNCHANGED COV_Addresses
      /\ \/ COV_Subscriptions' = COV_Subscriptions
         \/ \E b : COV_Subscriptions' = [COV_Subscriptions EXCEPT ![index].send_requested = b]
         \/ COV_Subscriptions' = [COV_Subscriptions EXCEPT ![index].invokeID = 0]
         \/ \E id, b : COV_Subscriptions' =
              [COV_Subscriptions EXCEPT ![index].invokeID = id, ![index].send_requested = b]
  BY DEF CovThread, Start, Mark, Clear, Free, Skip, SendConfirmed, SendUnconfirmed
<1> DEFINE Kept(new) ==
         /\ new.valid = COV_Subscriptions[index].valid
         /\ new.issueConfirmed = COV_Subscriptions[index].issueConfirmed
         /\ new.object = COV_Subscriptions[index].object
         /\ new.pid = COV_Subscriptions[index].pid
         /\ new.dest_index = COV_Subscriptions[index].dest_index
         /\ new.lifetime = COV_Subscriptions[index].lifetime
<1>3. COV_Subscriptions[index] \in SubscriptionEntry
  BY <1>1
<1>4. \A b : Kept([COV_Subscriptions[index] EXCEPT !.send_requested = b])
  BY <1>3 DEF SubscriptionEntry
<1>5. \A id : Kept([COV_Subscriptions[index] EXCEPT !.invokeID = id])
  BY <1>3 DEF SubscriptionEntry
<1>6. \A id, b : Kept([COV_Subscriptions[index] EXCEPT !.invokeID = id, !.send_requested = b])
  BY <1>3 DEF SubscriptionEntry
<1>7. \/ COV_Subscriptions' = COV_Subscriptions
      \/ \E new : Kept(new) /\ COV_Subscriptions' = [COV_Subscriptions EXCEPT ![index] = new]
  <2>1. ASSUME NEW b, COV_Subscriptions' = [COV_Subscriptions EXCEPT ![index].send_requested = b]
        PROVE  \E new : Kept(new) /\ COV_Subscriptions' = [COV_Subscriptions EXCEPT ![index] = new]
    <3> WITNESS [COV_Subscriptions[index] EXCEPT !.send_requested = b]
    <3> QED BY <1>4, <2>1
  <2>2. ASSUME COV_Subscriptions' = [COV_Subscriptions EXCEPT ![index].invokeID = 0]
        PROVE  \E new : Kept(new) /\ COV_Subscriptions' = [COV_Subscriptions EXCEPT ![index] = new]
    <3> WITNESS [COV_Subscriptions[index] EXCEPT !.invokeID = 0]
    <3> QED BY <1>5, <2>2
  <2>3. ASSUME NEW id, NEW b, COV_Subscriptions' =
                 [COV_Subscriptions EXCEPT ![index].invokeID = id, ![index].send_requested = b]
        PROVE  \E new : Kept(new) /\ COV_Subscriptions' = [COV_Subscriptions EXCEPT ![index] = new]
    <3>1. COV_Subscriptions' = [COV_Subscriptions EXCEPT ![index] =
            [COV_Subscriptions[index] EXCEPT !.invokeID = id, !.send_requested = b]]
      BY <1>1, <2>3
    <3> WITNESS [COV_Subscriptions[index] EXCEPT !.invokeID = id, !.send_requested = b]
    <3> QED BY <1>6, <3>1
  <2> HIDE DEF Kept
  <2>4. QED BY <1>2, <2>1, <2>2, <2>3
<1>8. QED BY <1>1, <1>2, <1>7

(* The sweep of the COV thread notifies one subscriber at a time.          *)
LEMMA SweepService ==
  ASSUME SInv, IInv', CovThread
  PROVE  SInv' /\ [Service!Next]_(Service!vars)
<1>1. index \in Subscriptions
  BY DEF SInv, IInv, TypeOK
<1>2. UNCHANGED owed \/ (owed' = owed \ {index} /\ index \in Valid)
  BY DEF CovThread, Start, Mark, Clear, Free, Skip, SendConfirmed, SendUnconfirmed, CanSend,
         Valid, ValidIn, SInv, IInv, TypeOK
<1>3. owed' \subseteq Valid
  BY <1>2 DEF SInv, OwedAreValid
<1>4. /\ SInv' /\ Contexts' = Contexts /\ Valid' = Valid
      /\ \A i \in Valid : Context(i)' = Context(i)
  BY <1>3, SweepStep, QuietStep
<1>5. CASE owed' = owed
  <2>1. Pending' = Pending
    BY <1>4, <1>5, KeysAndPending, KeysAndPendingNext DEF SInv, OwedAreValid
  <2>2. QED BY <1>4, <2>1 DEF Service!vars
<1>6. CASE owed' = owed \ {index} /\ index \in owed
  <2>1. index \in Valid
    BY <1>6 DEF SInv, OwedAreValid
  <2>2. PICK key : key = Context(index)
    OBVIOUS
  <2>3. key \in Pending /\ key \in Keys
    BY <1>6, <2>1, <2>2, KeysAndPending
  <2>4. Pending' = Pending \ {key}
    BY <1>4, <1>6, <2>1, <2>2, KeysAndPending, KeysAndPendingNext DEF SInv, OwedAreValid, OnePerContext
  <2>5. Service!Notify(key)
    BY <1>4, <2>3, <2>4 DEF Service!Notify
  <2>6. key \in Addresses \X Objects \X ProcessIds
    BY <2>1, <2>2, ContextIsKey DEF SInv
  <2>7. QED BY <1>4, <2>5, <2>6 DEF Service!Next, Service!Keys
<1>7. QED BY <1>2, <1>5, <1>6

(* A change of value is pending for every subscriber of the object.        *)
LEMMA EnvironmentService ==
  ASSUME SInv, IInv', Environment
  PROVE  SInv' /\ [Service!Next]_(Service!vars)
<1>1. UNCHANGED <<COV_Subscriptions, COV_Addresses>>
  BY DEF Environment, ValueChanges, ObjectInit, Lose
<1>2. \/ UNCHANGED owed
      \/ \E object \in Objects : owed' =
           owed \cup {i \in ValidIn(COV_Subscriptions) : COV_Subscriptions[i].object = object}
  BY DEF Environment, ValueChanges, ObjectInit, Lose
<1>3. owed' \subseteq Valid
  BY <1>2 DEF SInv, OwedAreValid, Valid
<1>4. /\ SInv' /\ Contexts' = Contexts /\ Valid' = Valid
      /\ \A i \in Valid : Context(i)' = Context(i)
  BY <1>1, <1>3, QuietStep
<1>5. CASE owed' = owed
  <2>1. Pending' = Pending
    BY <1>4, <1>5, KeysAndPending, KeysAndPendingNext DEF SInv, OwedAreValid
  <2>2. QED BY <1>4, <2>1 DEF Service!vars
<1>6. ASSUME NEW object \in Objects, owed' =
               owed \cup {i \in ValidIn(COV_Subscriptions) : COV_Subscriptions[i].object = object}
      PROVE  Service!Next
  <2>1. DOMAIN Contexts = Keys
    BY DEF Contexts
  <2>2. \A i \in Valid : Context(i)[2] = COV_Subscriptions[i].object
    BY DEF Context
  <2>3. \A i : i \in owed' <=> i \in owed \/ (i \in Valid /\ Context(i)[2] = object)
    BY <1>6, <2>2 DEF Valid
  <2>4. Pending' = Pending \cup {key \in Keys : key[2] = object}
    <3>1. ASSUME NEW key \in Pending' PROVE key \in Pending \cup {k \in Keys : k[2] = object}
      <4>1. PICK i \in owed' : Context(i)' = key
        BY KeysAndPendingNext
      <4>2. i \in Valid /\ Context(i) = key
        BY <1>3, <1>4, <4>1
      <4>3. QED BY <2>3, <4>1, <4>2, KeysAndPending
    <3>2. ASSUME NEW key \in Pending PROVE key \in Pending'
      <4>1. PICK i \in owed : Context(i) = key
        BY KeysAndPending
      <4>2. QED BY <1>4, <2>3, <4>1, KeysAndPendingNext DEF SInv, OwedAreValid
    <3>3. ASSUME NEW key \in Keys, key[2] = object PROVE key \in Pending'
      <4>1. PICK i \in Valid : Context(i) = key
        BY KeysAndPending
      <4>2. QED BY <1>4, <2>3, <3>3, <4>1, KeysAndPendingNext
    <3>4. QED BY <3>1, <3>2, <3>3
  <2>5. Service!Change(object)
    BY <1>4, <2>1, <2>4 DEF Service!Change
  <2>6. QED BY <2>5 DEF Service!Next
<1>7. QED BY <1>2, <1>4, <1>5, <1>6

(* An answer is no affair of the contexts.                                 *)
LEMMA AnswerService ==
  ASSUME SInv, IInv', NEW id \in InvokeIds, Answer(id)
  PROVE  SInv' /\ [Service!Next]_(Service!vars)
<1>1. UNCHANGED <<COV_Subscriptions, COV_Addresses, owed>>
  BY DEF Answer
<1>2. /\ SInv' /\ Contexts' = Contexts /\ Valid' = Valid
      /\ \A i \in Valid : Context(i)' = Context(i)
  BY <1>1, QuietStep DEF SInv, OwedAreValid
<1>3. Pending' = Pending
  BY <1>1, <1>2, KeysAndPending, KeysAndPendingNext DEF SInv, OwedAreValid
<1>4. QED BY <1>2, <1>3 DEF Service!vars

(* There are no contexts at first.                                         *)
LEMMA InitService == Init => SInv /\ Service!Init
<1> SUFFICES ASSUME Init PROVE SInv /\ Service!Init
  OBVIOUS
<1>1. Valid = {} /\ owed = {}
  BY DEF Init, Valid, ValidIn, Unused
<1>2. SInv
  BY <1>1, InitIInv DEF SInv, EverySubscriptionIsAddressed, ContextsAreNamed, OnePerContext, OwedAreValid
<1>3. Keys = {} /\ Pending = {}
  BY <1>1, KeysAndPending
<1>4. Contexts = << >>
  BY <1>3 DEF Contexts
<1>5. QED BY <1>2, <1>3, <1>4 DEF Service!Init

(* Every step of Cov is a step of the service or a stutter.                *)
LEMMA NextService ==
  ASSUME RoomForAll
  PROVE  SInv /\ [Next]_vars => SInv' /\ [Service!Next]_(Service!vars)
<1> SUFFICES ASSUME SInv, [Next]_vars PROVE SInv' /\ [Service!Next]_(Service!vars)
  OBVIOUS
<1>1. IInv'
  BY NextIInv DEF SInv
<1>2. CASE MainThread
  BY <1>1, <1>2, SubscribeService, SubscribeIsSubscribe, CancelService, TimerService, AnswerService
     DEF MainThread
<1>3. CASE CovThread
  BY <1>1, <1>3, SweepService
<1>4. CASE Environment
  BY <1>1, <1>4, EnvironmentService
<1>5. CASE UNCHANGED vars
  <2>1. UNCHANGED <<COV_Subscriptions, COV_Addresses, owed>>
    BY <1>5 DEF vars
  <2>2. /\ SInv' /\ Contexts' = Contexts /\ Valid' = Valid
        /\ \A i \in Valid : Context(i)' = Context(i)
    BY <1>1, <2>1, QuietStep DEF SInv, OwedAreValid
  <2>3. Pending' = Pending
    BY <2>1, <2>2, KeysAndPending, KeysAndPendingNext DEF SInv, OwedAreValid
  <2>4. QED BY <2>2, <2>3 DEF Service!vars
<1>6. QED BY <1>2, <1>3, <1>4, <1>5 DEF Next

(* The strengthened invariant holds throughout.                            *)
LEMMA ServiceInvariance == ASSUME RoomForAll PROVE Spec => []SInv
<1>1. SInv /\ [Next]_vars => SInv'
  BY NextService
<1>2. Init => SInv
  BY InitService
<1>3. QED BY <1>1, <1>2, PTL DEF Spec

(* The refinement: the COV tables implement the contexts of the service,   *)
(* whatever the order of requests, expiries, sweeps, answers and losses,   *)
(* as long as no subscriber is refused a slot of COV_Addresses.            *)
THEOREM ContextsAreImplemented == ASSUME RoomForAll PROVE Spec => ImplementsContexts
<1>1. Init => Service!Init
  BY InitService
<1>2. SInv /\ [Next]_vars => [Service!Next]_(Service!vars)
  BY NextService
<1>3. QED
  BY <1>1, <1>2, ServiceInvariance, PTL DEF Spec, ImplementsContexts, Service!Spec

(* cov_list_subscribe acknowledges a request whose address found no slot;  *)
(* that does not happen as long as there are no more subscribers than      *)
(* slots.                                                                  *)
THEOREM SubscribersHaveAddresses ==
  ASSUME RoomForAll PROVE Spec => []EverySubscriptionIsAddressed
<1>1. SInv => EverySubscriptionIsAddressed
  BY DEF SInv
<1>2. QED BY <1>1, ServiceInvariance, PTL

(* One subscriber: the flag of an object is then no one else's.            *)
OneSubscriber == (\A a, b \in Addresses : a = b) /\ (\A p, q \in ProcessIds : p = q)

(* The address table has a place for one.                                  *)
LEMMA OneSubscriberFits == OneSubscriber => RoomForAll
<1> SUFFICES ASSUME OneSubscriber PROVE RoomForAll
  OBVIOUS
<1>1. CASE Addresses = {}
  BY <1>1, FS_EmptySet, CovAssumption DEF RoomForAll
<1>2. CASE Addresses # {}
  <2>1. PICK a : Addresses = {a}
    BY <1>2 DEF OneSubscriber
  <2>2. IsFiniteSet({a}) /\ Cardinality({a}) = 1
    BY FS_Singleton
  <2>3. MaxAddresses \in Nat /\ 1 <= MaxAddresses
    BY CovAssumption
  <2>4. QED BY <2>1, <2>2, <2>3 DEF RoomForAll
<1>3. QED BY <1>1, <1>2

(* No object has two entries, since one subscriber has one context for it. *)
LEMMA OneEntryPerObject ==
  ASSUME SInv, OneSubscriber, NEW i \in Valid, NEW j \in Valid,
         COV_Subscriptions[i].object = COV_Subscriptions[j].object
  PROVE  i = j
<1>1. /\ Context(i) \in Addresses \X Objects \X ProcessIds
      /\ Context(j) \in Addresses \X Objects \X ProcessIds
  BY ContextIsKey
<1>2. Context(i) = Context(j)
  BY <1>1 DEF Context, OneSubscriber
<1>3. QED BY <1>2 DEF SInv, OnePerContext

(* What sending makes of the entry.                                        *)
LEMMA SendsEntry ==
  ASSUME SInv, NEW b,
         \/ COV_Subscriptions' = [COV_Subscriptions EXCEPT ![index].send_requested = b]
         \/ \E id : COV_Subscriptions' = [COV_Subscriptions EXCEPT ![index].invokeID = id,
                                                                   ![index].send_requested = b]
  PROVE  \A i \in Subscriptions :
           /\ i # index => COV_Subscriptions'[i] = COV_Subscriptions[i]
           /\ COV_Subscriptions'[i].object = COV_Subscriptions[i].object
           /\ i = index => COV_Subscriptions'[i].send_requested = b
<1>1. /\ index \in Subscriptions
      /\ COV_Subscriptions \in [Subscriptions -> SubscriptionEntry]
  BY DEF SInv, IInv, TypeOK
<1>2. CASE COV_Subscriptions' = [COV_Subscriptions EXCEPT ![index].send_requested = b]
  BY <1>1, <1>2 DEF SubscriptionEntry
<1>3. ASSUME NEW id, COV_Subscriptions' = [COV_Subscriptions EXCEPT ![index].invokeID = id,
                                                                   ![index].send_requested = b]
      PROVE  \A i \in Subscriptions :
               /\ i # index => COV_Subscriptions'[i] = COV_Subscriptions[i]
               /\ COV_Subscriptions'[i].object = COV_Subscriptions[i].object
               /\ i = index => COV_Subscriptions'[i].send_requested = b
  <2>1. COV_Subscriptions' = [COV_Subscriptions EXCEPT ![index] =
          [COV_Subscriptions[index] EXCEPT !.invokeID = id, !.send_requested = b]]
    BY <1>1, <1>3
  <2>2. PICK new : new = [COV_Subscriptions[index] EXCEPT !.invokeID = id, !.send_requested = b]
    OBVIOUS
  <2>3. new.object = COV_Subscriptions[index].object /\ new.send_requested = b
    <3>1. COV_Subscriptions[index] \in SubscriptionEntry
      BY <1>1
    <3>2. QED BY <2>2, <3>1 DEF SubscriptionEntry
  <2>4. /\ COV_Subscriptions'[index] = new
        /\ \A i \in Subscriptions : i # index => COV_Subscriptions'[i] = COV_Subscriptions[i]
    BY <1>1, <2>1, <2>2
  <2>5. QED BY <1>1, <2>3, <2>4
<1>4. QED BY <1>2, <1>3

(* A step forgets no change: the flag of an object is cleared when the one *)
(* entry it is for has been marked.                                        *)
LEMMA ChangesAreKept ==
  ASSUME OneSubscriber, SInv, NoChangeIsMissed, SInv', [Next]_vars
  PROVE  NoChangeIsMissed'
<1>1. /\ COV_Subscriptions \in [Subscriptions -> SubscriptionEntry]
      /\ owed \subseteq Valid /\ Valid \subseteq Subscriptions /\ index \in Subscriptions
  BY DEF SInv, IInv, TypeOK, OwedAreValid, Valid, ValidIn
<1>2. ASSUME NEW src \in Addresses, NEW data \in Subscription, Subscribe(src, data)
      PROVE  NoChangeIsMissed'
  <2>1. PICK i \in Subscriptions :
           /\ COV_Subscriptions'[i] = Requested(i, src, data)
           /\ \A j \in Subscriptions : j # i => COV_Subscriptions'[j] = COV_Subscriptions[j]
           /\ owed' = owed \cup {i}
    BY <1>2, OneSubscriberFits, SubscribeEffect
  <2>2. changed' = changed
    BY <1>2 DEF Subscribe, objects
  <2>3. QED BY <1>1, <2>1, <2>2 DEF NoChangeIsMissed, Requested
<1>3. ASSUME NEW src \in Addresses, NEW data \in Cancellation, Cancel(src, data)
      PROVE  NoChangeIsMissed'
  <2>1. PICK i : i = First(Existing(src, data))
    OBVIOUS
  <2>2. /\ COV_Subscriptions' = [COV_Subscriptions EXCEPT ![i] = Unused]
        /\ owed' = owed \ {i} /\ changed' = changed
    BY <1>3, <2>1 DEF Cancel, objects
  <2>3. \A j \in owed' : COV_Subscriptions'[j] = COV_Subscriptions[j]
    BY <1>1, <2>2
  <2>4. QED BY <2>2, <2>3 DEF NoChangeIsMissed
<1>4. ASSUME NEW elapsed \in ElapsedSeconds, TimerSeconds(elapsed)
      PROVE  NoChangeIsMissed'
  <2>1. /\ COV_Subscriptions' = [i \in Subscriptions |-> Aged(i, elapsed)]
        /\ owed' = owed \ Expiring(elapsed) /\ changed' = changed
    BY <1>4 DEF TimerSeconds, objects
  <2>2. ASSUME NEW i \in owed'
        PROVE  /\ COV_Subscriptions'[i].send_requested = COV_Subscriptions[i].send_requested
               /\ COV_Subscriptions'[i].object = COV_Subscriptions[i].object
    <3>1. COV_Subscriptions'[i] = Aged(i, elapsed) /\ COV_Subscriptions[i] \in SubscriptionEntry
          /\ i \notin Expiring(elapsed)
      BY <1>1, <2>1
    <3>2. QED BY <3>1 DEF Aged, SubscriptionEntry
  <2>3. QED BY <2>1, <2>2 DEF NoChangeIsMissed
<1>5. CASE Mark
  <2>1. /\ UNCHANGED <<changed, owed>>
        /\ \/ COV_Subscriptions' = COV_Subscriptions
           \/ COV_Subscriptions' = [COV_Subscriptions EXCEPT ![index].send_requested = TRUE]
    BY <1>5 DEF Mark, objects
  <2>2. \A i \in Subscriptions :
          /\ COV_Subscriptions'[i].send_requested \/ ~COV_Subscriptions[i].send_requested
          /\ COV_Subscriptions'[i].object = COV_Subscriptions[i].object
    BY <1>1, <2>1 DEF SubscriptionEntry
  <2>3. QED BY <1>1, <2>1, <2>2 DEF NoChangeIsMissed
<1>6. CASE Clear
  <2>1. /\ UNCHANGED <<COV_Subscriptions, owed>>
        /\ changed' = IF /\ COV_Subscriptions[index].valid
                         /\ COV_Subscriptions[index].send_requested
                         /\ COV_Subscriptions[index].object \in present
                      THEN changed \ {COV_Subscriptions[index].object} ELSE changed
    BY <1>6 DEF Clear
  <2>2. ASSUME NEW i \in owed, COV_Subscriptions[i].object \in changed \ changed'
        PROVE  COV_Subscriptions[i].send_requested
    <3>1. /\ index \in Valid /\ COV_Subscriptions[index].send_requested
          /\ COV_Subscriptions[index].object = COV_Subscriptions[i].object
      BY <1>1, <2>1, <2>2 DEF Valid, ValidIn
    <3>2. QED BY <1>1, <3>1, OneEntryPerObject
  <2>3. QED BY <2>1, <2>2 DEF NoChangeIsMissed
<1>7. ASSUME NEW sent \in Outcomes, SendConfirmed(sent) \/ SendUnconfirmed(sent)
      PROVE  NoChangeIsMissed'
  <2>1. /\ changed' = changed
        /\ owed' = IF sent THEN owed \ {index} ELSE owed
        /\ \/ COV_Subscriptions' = [COV_Subscriptions EXCEPT ![index].send_requested = ~sent]
           \/ \E id : COV_Subscriptions' = [COV_Subscriptions EXCEPT ![index].invokeID = id,
                                                                     ![index].send_requested = ~sent]
    BY <1>7 DEF SendConfirmed, SendUnconfirmed, objects
  <2>2. \A i \in Subscriptions :
          /\ i # index => COV_Subscriptions'[i] = COV_Subscriptions[i]
          /\ COV_Subscriptions'[i].object = COV_Subscriptions[i].object
          /\ i = index => COV_Subscriptions'[i].send_requested = ~sent
    BY <1>1, <2>1, SendsEntry
  <2>3. sent \in BOOLEAN
    BY DEF Outcomes
  <2>4. QED BY <1>1, <2>1, <2>2, <2>3 DEF NoChangeIsMissed
<1>8. CASE Free
  <2>1. /\ UNCHANGED <<changed, owed>>
        /\ \/ COV_Subscriptions' = COV_Subscriptions
           \/ COV_Subscriptions' = [COV_Subscriptions EXCEPT ![index].invokeID = 0]
    BY <1>8 DEF Free, objects
  <2>2. \A i \in Subscriptions :
          /\ COV_Subscriptions'[i].send_requested = COV_Subscriptions[i].send_requested
          /\ COV_Subscriptions'[i].object = COV_Subscriptions[i].object
    BY <1>1, <2>1 DEF SubscriptionEntry
  <2>3. QED BY <1>1, <2>1, <2>2 DEF NoChangeIsMissed
<1>9. ASSUME NEW object \in Objects, ValueChanges(object)
      PROVE  NoChangeIsMissed'
  <2>1. /\ COV_Subscriptions' = COV_Subscriptions
        /\ changed' = changed \cup {object}
        /\ owed' = owed \cup {i \in ValidIn(COV_Subscriptions) : COV_Subscriptions[i].object = object}
    BY <1>9 DEF ValueChanges
  <2>2. QED BY <2>1 DEF NoChangeIsMissed
<1>10. CASE UNCHANGED <<COV_Subscriptions, changed, owed>>
  BY <1>10 DEF NoChangeIsMissed
<1>11. (\E id \in InvokeIds : Answer(id) \/ Lose(id)) \/ Start \/ Skip \/ (\E S \in ObjectLists : ObjectInit(S))
         \/ UNCHANGED vars => UNCHANGED <<COV_Subscriptions, changed, owed>>
  BY DEF Answer, Lose, Start, Skip, ObjectInit, vars, objects
<1>12. QED
  BY <1>2, <1>3, <1>4, <1>5, <1>6, <1>7, <1>8, <1>9, <1>10, <1>11
     DEF Next, MainThread, CovThread, Environment

(* With one subscriber, no change is missed: the flag of an object is      *)
(* cleared after its entry is marked. The hypothesis is needed: with two   *)
(* entries for an object the flag is cleared at the first, and the run     *)
(* cov_shared_flag shows the second miss the change.                       *)
THEOREM ChangesAreNotMissed == ASSUME OneSubscriber PROVE Spec => []NoChangeIsMissed
<1>1. Init => NoChangeIsMissed
  BY DEF Init, NoChangeIsMissed
<1>2. SInv /\ SInv' /\ NoChangeIsMissed /\ [Next]_vars => NoChangeIsMissed'
  BY ChangesAreKept
<1>3. QED BY <1>1, <1>2, OneSubscriberFits, ServiceInvariance, PTL DEF Spec
=============================================================================
