--------------------------- MODULE CovRaceProofs ---------------------------
(***************************************************************************)
(* The statements of the two threads interleave safely, for every number   *)
(* of subscriptions, addresses, transactions, objects and subscribers: an  *)
(* invariant that says, for each statement of either thread, what it may   *)
(* rely on about the entry it works on.                                    *)
(***************************************************************************)
EXTENDS CovRace, TransactionTableProofs

-----------------------------------------------------------------------------
(* What is left of each program of the main thread.                        *)

Forget == <<"forget">>
Free == <<"free", "forget">>

ToEnd == {CancelProgram, ExpireProgram}
ToInvalidate == {<<"invalidate", "removeAddress", "free", "forget">>,
                 <<"invalidate", "removeAddress", "freeConfirmed", "forget">>}
ToRemove == {<<"removeAddress", "free", "forget">>,
             <<"removeAddress", "freeConfirmed", "forget">>}
ToFree == {Free, <<"freeConfirmed", "forget">>}

RenewLoad == <<"load", "confirm", "load", "request", "free", "forget">>
RenewConfirm == <<"confirm", "load", "request", "free", "forget">>
RenewLoadAgain == <<"load", "request", "free", "forget">>
RenewRequest == <<"request", "free", "forget">>

NewValidate == <<"validate", "addAddress", "setObject", "load", "confirm",
                 "forget", "load", "request">>
NewAddress == <<"addAddress", "setObject", "load", "confirm", "forget", "load", "request">>
NewObject == <<"setObject", "load", "confirm", "forget", "load", "request">>
NewLoad == <<"load", "confirm", "forget", "load", "request">>
NewConfirm == <<"confirm", "forget", "load", "request">>
NewForget == <<"forget", "load", "request">>
NewLoadAgain == <<"load", "request">>
NewRequest == <<"request">>

Ends == ToEnd \cup ToInvalidate \cup ToRemove \cup ToFree \cup {Forget}
Renews == {RenewProgram, RenewLoad, RenewConfirm, RenewLoadAgain, RenewRequest, Free, Forget}
News == {NewProgram, NewValidate, NewAddress, NewObject, NewLoad, NewConfirm, NewForget,
         NewLoadAgain, NewRequest}

-----------------------------------------------------------------------------
(* The statements of the COV thread and what it has loaded at each.        *)

Marking == {"loadMark", "mark"}
Freeing == {"test", "freeId", "dropId"}
Composing == {"encodeValue", "getAddress", "identify"}
Identified == {"storeId", "set", "send", "loadSent", "sent"}
Statements == {"enter"} \cup Marking \cup Freeing \cup Composing \cup Identified

Flags == [valid : BOOLEAN, confirmed : BOOLEAN, requested : BOOLEAN]
Sweeping == [sweep : {"mark", "free", "send"}, index : Entries, pc : Statements,
             byte : Flags, id : 0..MaxInvokeId, dest : AddressSlots \cup {NoSlot},
             value : Objects, object : Objects]
Terms == [who : Subscribers \cup {Nobody}, object : Objects, confirmed : BOOLEAN]
Serving == [entry : Entries \cup {0}, todo : Ends \cup Renews \cup News \cup {<< >>},
            terms : Terms, byte : Flags]

TypeOK ==
  /\ flag \in [Entries -> Flags]
  /\ dest_index \in [Entries -> AddressSlots \cup {NoSlot}]
  /\ invokeID \in [Entries -> 0..MaxInvokeId]
  /\ monitoredObject \in [Entries -> Objects]
  /\ COV_Addresses \in [AddressSlots -> [valid : BOOLEAN, dest : Subscribers \cup {Nobody}]]
  /\ TSM_List \in [Slots -> Entry] /\ Current_Invoke_ID \in InvokeIds
  /\ asked \in [Entries -> Terms]
  /\ cov \in Sweeping /\ main \in Serving

(* Each statement belongs to one sweep, and only some know an ID.          *)
SweepsAreSeparate ==
  /\ cov.pc \in Marking => cov.sweep = "mark"
  /\ cov.pc \in Freeing => cov.sweep = "free"
  /\ cov.pc \in Composing \cup Identified => cov.sweep = "send"
  /\ cov.pc \in {"enter"} \cup Marking \cup Composing => cov.id = 0

(* The main thread is between two requests, or within the program of one.  *)
ProgramsAreRun ==
  IF main.entry = 0 THEN main = NoWork
  ELSE \/ main.terms = NotAsked /\ main.todo \in Ends
       \/ main.terms.who \in Subscribers /\ main.todo \in Renews \cup News

Inside(i) == cov.pc # "enter" /\ cov.index = i
Loaded(i) == cov.pc \in {"mark", "sent"} /\ cov.index = i
Composes(i) == cov.pc \in Composing /\ cov.index = i

OverlapsAreSeen == main.entry # 0 /\ Inside(main.entry) => main.entry \in overlap

AddressesAreUnique ==
  /\ \A a \in AddressSlots : COV_Addresses[a].valid => COV_Addresses[a].dest \in Subscribers
  /\ \A a, b \in AddressSlots :
       /\ COV_Addresses[a].valid /\ COV_Addresses[b].valid
       /\ COV_Addresses[a].dest = COV_Addresses[b].dest
       => a = b

RoomForAll == IsFiniteSet(Subscribers) /\ Cardinality(Subscribers) <= MaxAddresses

(* The slot of the entry holds that subscriber; it has one if there is     *)
(* room in the table.                                                      *)
Addressed(i, who) ==
  /\ dest_index[i] # NoSlot =>
       COV_Addresses[dest_index[i]] = [valid |-> TRUE, dest |-> who]
  /\ RoomForAll => dest_index[i] # NoSlot

(* What EntriesAreAsAsked says of an entry, whether or not there is room.  *)
Settled(i) ==
  IF asked[i] = NotAsked THEN ~flag[i].valid /\ invokeID[i] = 0
  ELSE /\ asked[i].who \in Subscribers
       /\ flag[i].valid /\ flag[i].confirmed = asked[i].confirmed
       /\ monitoredObject[i] = asked[i].object
       /\ Addressed(i, asked[i].who)
       /\ ~asked[i].confirmed => invokeID[i] = 0

EntriesAreSettled == \A i \in Entries \ (overlap \cup {main.entry}) : Settled(i)

(* What the statements done so far have made of the entry of the main      *)
(* thread, if the COV thread keeps out of it.                              *)
Ended(i) ==
  \/ main.todo \in ToEnd /\ (flag[i].confirmed \/ invokeID[i] = 0)
  \/ main.todo \in ToInvalidate /\ (flag[i].confirmed \/ invokeID[i] = 0) /\ main.byte = flag[i]
  \/ main.todo \in ToRemove \cup ToFree /\ (flag[i].confirmed \/ invokeID[i] = 0) /\ ~flag[i].valid
  \/ main.todo = Forget /\ ~flag[i].valid

Renewed(i) ==
  /\ flag[i].valid /\ monitoredObject[i] = main.terms.object
  /\ \/ main.todo = RenewProgram
     \/ /\ Addressed(i, main.terms.who)
        /\ \/ main.todo = RenewLoad
           \/ main.todo = RenewConfirm /\ main.byte = flag[i]
           \/ /\ flag[i].confirmed = main.terms.confirmed
              /\ \/ main.todo \in {RenewLoadAgain, Free, Forget}
                 \/ main.todo = RenewRequest /\ main.byte = flag[i]

Added(i) ==
  \/ main.todo \in {NewProgram, NewValidate}
  \/ main.todo = NewAddress /\ flag[i].valid
  \/ /\ flag[i].valid /\ Addressed(i, main.terms.who)
     /\ \/ main.todo = NewObject
        \/ /\ monitoredObject[i] = main.terms.object
           /\ \/ main.todo = NewLoad
              \/ main.todo = NewConfirm /\ main.byte = flag[i]
              \/ /\ flag[i].confirmed = main.terms.confirmed
                 /\ \/ main.todo = NewForget
                    \/ main.todo = NewLoadAgain /\ invokeID[i] = 0
                    \/ main.todo = NewRequest /\ invokeID[i] = 0 /\ main.byte = flag[i]

Doing(i) == IF main.terms = NotAsked THEN Ended(i) ELSE Renewed(i) \/ Added(i)
WorkIsDone == \A i \in Entries \ overlap : main.entry = i => Doing(i)

(* What the COV thread has loaded is still so.                             *)
Current(i) ==
  /\ asked[i] # NotAsked
  /\ cov.pc \in {"mark", "sent"} => cov.byte = flag[i]
  /\ cov.pc \in {"getAddress", "identify"} \cup Identified => cov.value = asked[i].object
  /\ cov.pc \in {"identify"} \cup Identified => cov.dest = dest_index[i] /\ cov.dest # NoSlot
  /\ cov.pc \in Identified => /\ cov.object = asked[i].object
                              /\ (cov.id # 0) = asked[i].confirmed
  /\ cov.pc = "storeId" => cov.id # 0
  /\ cov.pc \in Identified \ {"storeId"} => invokeID[i] = cov.id
LoadsAreCurrent == \A i \in Entries \ overlap : Inside(i) => Current(i)

-----------------------------------------------------------------------------
(* Transactions. The entry i keeps its ID until it is freed: the COV       *)
(* thread, which might store another one there, does not get that far.     *)

Kept(i) ==
  /\ flag[i].confirmed /\ (Loaded(i) => cov.byte.confirmed) /\ ~Composes(i)

KeptByRequest(i) ==
  \/ main.todo \in ToEnd \cup ToRemove \cup ToFree \cup {RenewProgram, RenewLoad, RenewConfirm}
     /\ Kept(i)
  \/ main.todo \in ToInvalidate /\ Kept(i) /\ main.byte.confirmed
  \/ /\ main.todo = RenewLoadAgain
     /\ Loaded(i) /\ flag[i].confirmed => cov.byte.confirmed
     /\ Composes(i) => ~flag[i].confirmed
  \/ /\ main.todo = RenewRequest
     /\ main.byte.confirmed => flag[i].confirmed /\ (Loaded(i) => cov.byte.confirmed)
     /\ Composes(i) => ~flag[i].confirmed
  \/ main.todo = Free /\ (Composes(i) => ~flag[i].confirmed)

Keeps(i) ==
  /\ ~(cov.index = i /\ cov.pc = "storeId")
  /\ IF main.entry = i THEN KeptByRequest(i)
     ELSE /\ Kept(i) /\ asked[i].confirmed
          /\ flag[i].valid /\ (Loaded(i) => cov.byte.valid)

Sending(id) == cov.sweep = "send" /\ cov.id = id /\ cov.index \notin overlap

EveryIdIsKept ==
  \A id \in UsedIds(TSM_List) \ stray :
    Sending(id) \/ \E i \in Entries : invokeID[i] = id /\ Keeps(i)

(* An ID that the COV thread found free, or has freed, stays so while it   *)
(* drops it.                                                               *)
DroppedIdsAreFree ==
  /\ cov.pc = "test" => invokeID[cov.index] \in {0, cov.id}
  /\ cov.pc = "dropId" => invokeID[cov.index] \notin UsedIds(TSM_List)

IInv ==
  /\ TypeOK /\ SweepsAreSeparate /\ ProgramsAreRun /\ OverlapsAreSeen
  /\ AddressesAreUnique /\ EntriesAreSettled /\ WorkIsDone /\ LoadsAreCurrent
  /\ EveryIdIsKept /\ DroppedIdsAreFree

-----------------------------------------------------------------------------
(* The statement that comes next, and the rest of the program.             *)
LEMMA Statement ==
  /\ \A p \in ToEnd : Head(p) = "load" /\ Tail(p) \in ToInvalidate
  /\ \A p \in ToInvalidate : Head(p) = "invalidate" /\ Tail(p) \in ToRemove
  /\ \A p \in ToRemove : Head(p) = "removeAddress" /\ Tail(p) \in ToFree
  /\ \A p \in ToFree : Head(p) \in {"free", "freeConfirmed"} /\ Tail(p) = Forget
  /\ Head(Free) = "free" /\ Tail(Free) = Forget
  /\ Head(Forget) = "forget" /\ Tail(Forget) = << >>
BY DEF ToEnd, ToInvalidate, ToRemove, ToFree, Free, Forget, CancelProgram, ExpireProgram

(* The same of a request that renews a subscription.                       *)
LEMMA StatementOfRenewal ==
  /\ Head(RenewProgram) = "addAddress" /\ Tail(RenewProgram) = RenewLoad
  /\ Head(RenewLoad) = "load" /\ Tail(RenewLoad) = RenewConfirm
  /\ Head(RenewConfirm) = "confirm" /\ Tail(RenewConfirm) = RenewLoadAgain
  /\ Head(RenewLoadAgain) = "load" /\ Tail(RenewLoadAgain) = RenewRequest
  /\ Head(RenewRequest) = "request" /\ Tail(RenewRequest) = Free
BY DEF RenewProgram, RenewLoad, RenewConfirm, RenewLoadAgain, RenewRequest, Free

(* The same of one that makes a new subscription.                          *)
LEMMA StatementOfNew ==
  /\ Head(NewProgram) = "load" /\ Tail(NewProgram) = NewValidate
  /\ Head(NewValidate) = "validate" /\ Tail(NewValidate) = NewAddress
  /\ Head(NewAddress) = "addAddress" /\ Tail(NewAddress) = NewObject
  /\ Head(NewObject) = "setObject" /\ Tail(NewObject) = NewLoad
  /\ Head(NewLoad) = "load" /\ Tail(NewLoad) = NewConfirm
  /\ Head(NewConfirm) = "confirm" /\ Tail(NewConfirm) = NewForget
  /\ Head(NewForget) = "forget" /\ Tail(NewForget) = NewLoadAgain
  /\ Head(NewLoadAgain) = "load" /\ Tail(NewLoadAgain) = NewRequest
  /\ Head(NewRequest) = "request" /\ Tail(NewRequest) = << >>
BY DEF NewProgram, NewValidate, NewAddress, NewObject, NewLoad, NewConfirm, NewForget,
       NewLoadAgain, NewRequest

(* A new subscription is told from the other requests.                     *)
LEMMA OtherPrograms ==
  /\ NewProgram # << >> /\ NewRequest # RenewRequest
  /\ \A p \in ToEnd \cup {RenewProgram} : p # NewProgram
BY DEF ToEnd, CancelProgram, ExpireProgram, RenewProgram, NewProgram, NewRequest, RenewRequest

(* No program is finished while a statement is left.                       *)
LEMMA MoreToDo == \A p \in Ends \cup Renews \cup News : p # << >>
BY DEF Ends, Renews, News, ToEnd, ToInvalidate, ToRemove, ToFree, Free, Forget,
       CancelProgram, ExpireProgram, RenewProgram, RenewLoad, RenewConfirm, RenewLoadAgain,
       RenewRequest, NewProgram, NewValidate, NewAddress, NewObject, NewLoad, NewConfirm,
       NewForget, NewLoadAgain, NewRequest

-----------------------------------------------------------------------------
(* The IDs in use after each function of tsm.c.                            *)
LEMMA FreeUsed ==
  ASSUME NEW list \in [Slots -> Entry], NEW id
  PROVE  /\ FreeInvokeId(list, id) \in [Slots -> Entry]
         /\ UsedIds(FreeInvokeId(list, id)) = UsedIds(list) \ {id}
<1>1. FreeInvokeId(list, id) \in [Slots -> Entry]
  BY FreeIdsType DEF FreeInvokeId
<1>2. \A s \in Slots : FreeInvokeId(list, id)[s].InvokeID =
                         IF list[s].InvokeID = id THEN 0 ELSE list[s].InvokeID
  <2> SUFFICES ASSUME NEW s \in Slots
               PROVE  FreeInvokeId(list, id)[s].InvokeID =
                        IF list[s].InvokeID = id THEN 0 ELSE list[s].InvokeID
    OBVIOUS
  <2>1. FreeInvokeId(list, id)[s] = IF list[s].InvokeID \in {id}
                                    THEN [list[s] EXCEPT !.state = Idle, !.InvokeID = 0]
                                    ELSE list[s]
    BY DEF FreeInvokeId, FreeIds
  <2>2. list[s] \in Entry
    OBVIOUS
  <2>3. [list[s] EXCEPT !.state = Idle, !.InvokeID = 0].InvokeID = 0
    BY <2>2 DEF Entry
  <2>4. QED BY <2>1, <2>3
<1>3. QED BY <1>1, <1>2 DEF UsedIds

(* tsm_next_free_invokeID adds the ID it returns.                          *)
LEMMA ReserveUsed ==
  ASSUME NEW list \in [Slots -> Entry], NEW cursor \in InvokeIds, NEW timeout \in Nat,
         TransactionAvailable(list)
  PROVE  /\ Reserve(list, cursor, timeout) \in [Slots -> Entry]
         /\ UsedIds(Reserve(list, cursor, timeout)) =
              UsedIds(list) \cup {NextFreeInvokeId(list, cursor)}
         /\ NextFreeInvokeId(list, cursor) \in InvokeIds
         /\ CursorAfter(list, cursor) \in InvokeIds
<1> DEFINE id == NextFreeInvokeId(list, cursor)
           slot == FirstFreeSlot(list)
           entry == [list[slot] EXCEPT !.InvokeID = id, !.state = Idle, !.RequestTimer = timeout]
<1>1. slot \in Slots /\ list[slot].InvokeID = 0
  BY FirstFreeSlotIsFree
<1>2. id \in InvokeIds /\ CursorAfter(list, cursor) \in InvokeIds
  BY NextFreeInvokeIdIsFree
<1>3. Reserve(list, cursor, timeout) = [list EXCEPT ![slot] = entry]
  BY DEF Reserve
<1> HIDE DEF id, slot
<1>4. entry \in Entry /\ entry.InvokeID = id
  <2>1. list[slot] \in Entry /\ id \in 0..MaxInvokeId
    BY <1>1, <1>2, TableAssumption DEF InvokeIds
  <2>2. QED BY <2>1 DEF Entry
<1> HIDE DEF entry
<1>5. Reserve(list, cursor, timeout) \in [Slots -> Entry]
  BY <1>1, <1>3, <1>4
<1>6. \A s \in Slots : Reserve(list, cursor, timeout)[s].InvokeID =
                         IF s = slot THEN id ELSE list[s].InvokeID
  BY <1>1, <1>3, <1>4
<1>7. id # 0
  BY <1>2, TableAssumption DEF InvokeIds
<1>8. UsedIds(Reserve(list, cursor, timeout)) = UsedIds(list) \cup {id}
  BY <1>1, <1>6, <1>7 DEF UsedIds
<1>9. QED BY <1>2, <1>5, <1>8 DEF id

(* tsm_set_confirmed_unsegmented_transaction changes no ID.                *)
LEMMA SetUsed ==
  ASSUME NEW list \in [Slots -> Entry], NEW id, NEW timeout \in Nat
  PROVE  /\ SetConfirmedTransaction(list, id, timeout) \in [Slots -> Entry]
         /\ UsedIds(SetConfirmedTransaction(list, id, timeout)) = UsedIds(list)
<1> DEFINE after == SetConfirmedTransaction(list, id, timeout)
<1>1. ASSUME NEW s \in Slots
      PROVE  after[s] \in Entry /\ after[s].InvokeID = list[s].InvokeID
  <2>1. after[s] = IF list[s].InvokeID = id /\ id # 0
                   THEN [list[s] EXCEPT !.state = Await, !.RetryCount = 0, !.RequestTimer = timeout]
                   ELSE list[s]
    BY DEF SetConfirmedTransaction
  <2>2. list[s] \in Entry
    OBVIOUS
  <2>3. /\ [list[s] EXCEPT !.state = Await, !.RetryCount = 0, !.RequestTimer = timeout] \in Entry
        /\ [list[s] EXCEPT !.state = Await, !.RetryCount = 0, !.RequestTimer = timeout].InvokeID
             = list[s].InvokeID
    BY <2>2 DEF Entry
  <2>4. QED BY <2>1, <2>2, <2>3
<1>2. after = [s \in Slots |-> after[s]]
  BY DEF SetConfirmedTransaction
<1> HIDE DEF after
<1>3. after \in [Slots -> Entry]
  BY <1>1, <1>2
<1>4. UsedIds(after) = UsedIds(list)
  BY <1>1 DEF UsedIds
<1>5. QED BY <1>3, <1>4 DEF after

-----------------------------------------------------------------------------
(* The address table.                                                      *)

(* The loops stop at the first index that fits.                            *)
LEMMA LeastIsMember ==
  ASSUME NEW S \in SUBSET Nat, S # {}
  PROVE  Least(S) \in S
<1>1. \E a \in S : \A b \in S : a <= b
  BY LeastNatural
<1>2. QED BY <1>1 DEF Least

(* cov_address_add takes a slot that holds the address or a free one, and  *)
(* there is one if there is room for every subscriber.                     *)
LEMMA SlotForFits ==
  ASSUME TypeOK, AddressesAreUnique, NEW who \in Subscribers
  PROVE  /\ SlotFor(who) \in AddressSlots \cup {NoSlot}
         /\ SlotFor(who) # NoSlot =>
              (COV_Addresses[SlotFor(who)].valid => COV_Addresses[SlotFor(who)].dest = who)
         /\ \A a \in AddressSlots \ {SlotFor(who)} :
              COV_Addresses[a].valid => COV_Addresses[a].dest # who
<1>1. AddressSlots \subseteq Nat
  BY DEF AddressSlots
<1>2. Holding(who) \in SUBSET AddressSlots /\ FreeAddresses \in SUBSET AddressSlots
  BY DEF Holding, FreeAddresses
<1>3. CASE Holding(who) # {}
  <2>1. SlotFor(who) \in Holding(who)
    BY <1>1, <1>2, <1>3, LeastIsMember DEF SlotFor
  <2>2. /\ SlotFor(who) \in AddressSlots
        /\ COV_Addresses[SlotFor(who)] = [valid |-> TRUE, dest |-> who]
    BY <2>1 DEF Holding
  <2>3. QED BY <2>2 DEF AddressesAreUnique
<1>4. CASE Holding(who) = {}
  <2>1. \A a \in AddressSlots : COV_Addresses[a].valid => COV_Addresses[a].dest # who
    <3> SUFFICES ASSUME NEW a \in AddressSlots, COV_Addresses[a].valid, COV_Addresses[a].dest = who
                 PROVE  FALSE
      OBVIOUS
    <3>1. COV_Addresses[a] \in [valid : BOOLEAN, dest : Subscribers \cup {Nobody}]
      BY DEF TypeOK
    <3>2. COV_Addresses[a] = [valid |-> TRUE, dest |-> who]
      BY <3>1
    <3>3. QED BY <1>4, <3>2 DEF Holding
  <2>2. CASE FreeAddresses # {}
    <3>1. SlotFor(who) \in FreeAddresses
      BY <1>1, <1>2, <1>4, <2>2, LeastIsMember DEF SlotFor
    <3>2. QED BY <2>1, <3>1 DEF FreeAddresses
  <2>3. CASE FreeAddresses = {}
    BY <1>4, <2>1, <2>3 DEF SlotFor
  <2>4. QED BY <2>2, <2>3
<1>5. QED BY <1>3, <1>4

(* With room for every subscriber the search for a slot does not fail: by  *)
(* the pigeonhole principle a slot is free or holds the address.           *)
LEMMA SlotIsFound ==
  ASSUME TypeOK, AddressesAreUnique, RoomForAll, NEW who \in Subscribers
  PROVE  SlotFor(who) # NoSlot
<1> SUFFICES ASSUME SlotFor(who) = NoSlot PROVE FALSE
  OBVIOUS
<1> DEFINE Others == Subscribers \ {who}
           holder == [a \in AddressSlots |-> COV_Addresses[a].dest]
<1>1. \A a \in AddressSlots : a # NoSlot
  BY DEF AddressSlots, NoSlot
<1>2. \A a \in AddressSlots : COV_Addresses[a].valid
  <2> SUFFICES ASSUME NEW a \in AddressSlots, ~COV_Addresses[a].valid PROVE FALSE
    OBVIOUS
  <2>1. FreeAddresses # {}
    BY DEF FreeAddresses
  <2>2. AddressSlots \subseteq Nat
    BY DEF AddressSlots
  <2>3. Holding(who) \in SUBSET AddressSlots /\ FreeAddresses \in SUBSET AddressSlots
    BY DEF Holding, FreeAddresses
  <2>4. SlotFor(who) \in AddressSlots
    BY <2>1, <2>2, <2>3, LeastIsMember DEF SlotFor
  <2>5. QED BY <1>1, <2>4
<1>3. \A a \in AddressSlots : COV_Addresses[a].dest \in Others
  BY <1>1, <1>2, SlotForFits DEF AddressesAreUnique
<1>4. holder \in [AddressSlots -> Others]
  BY <1>3
<1>5. IsFiniteSet(Others) /\ Cardinality(Others) = Cardinality(Subscribers) - 1
  BY FS_RemoveElement DEF RoomForAll
<1>6. IsFiniteSet(AddressSlots) /\ Cardinality(AddressSlots) = MaxAddresses
  <2>1. MaxAddresses \in Int /\ 1 \in Int /\ MaxAddresses >= 1
    BY CovRaceAssumption
  <2>2. IsFiniteSet(1..MaxAddresses)
        /\ Cardinality(1..MaxAddresses) = IF 1 > MaxAddresses THEN 0 ELSE MaxAddresses - 1 + 1
    BY <2>1, FS_Interval
  <2>3. QED BY <2>1, <2>2 DEF AddressSlots
<1>7. Cardinality(Others) < Cardinality(AddressSlots)
  <2>1. Cardinality(Subscribers) \in Nat
    BY FS_CardinalityType DEF RoomForAll
  <2>2. QED BY <1>5, <1>6, <2>1, CovRaceAssumption DEF RoomForAll
<1>8. PICK a, b \in AddressSlots : a # b /\ holder[a] = holder[b]
  <2> HIDE DEF Others, holder
  <2> QED BY <1>4, <1>5, <1>6, <1>7, FS_PigeonHole
<1>9. QED BY <1>2, <1>8 DEF AddressesAreUnique

(* cov_address_add leads the entry to its subscriber, and leaves the       *)
(* others where they led.                                                  *)
LEMMA AddAddressEffect ==
  ASSUME TypeOK, AddressesAreUnique, NEW i \in Entries, NEW who \in Subscribers,
         AddAddress(i, who)
  PROVE  /\ dest_index' \in [Entries -> AddressSlots \cup {NoSlot}]
         /\ COV_Addresses' \in [AddressSlots -> [valid : BOOLEAN, dest : Subscribers \cup {Nobody}]]
         /\ AddressesAreUnique' /\ Addressed(i, who)'
         /\ \A j \in Entries \ {i} : dest_index'[j] = dest_index[j]
         /\ \A j \in Entries \ {i}, w \in Subscribers : Addressed(j, w) => Addressed(j, w)'
<1> DEFINE slot == SlotFor(who)
<1>1. /\ slot \in AddressSlots \cup {NoSlot}
      /\ slot # NoSlot => (COV_Addresses[slot].valid => COV_Addresses[slot].dest = who)
      /\ \A a \in AddressSlots \ {slot} : COV_Addresses[a].valid => COV_Addresses[a].dest # who
  BY SlotForFits
<1>2. RoomForAll => slot # NoSlot
  BY SlotIsFound
<1>3. /\ dest_index' = [dest_index EXCEPT ![i] = slot]
      /\ COV_Addresses' = [a \in AddressSlots |->
           IF a = slot THEN [valid |-> TRUE, dest |-> who] ELSE COV_Addresses[a]]
  BY DEF AddAddress
<1> HIDE DEF slot
<1>4. dest_index' \in [Entries -> AddressSlots \cup {NoSlot}]
  BY <1>1, <1>3 DEF TypeOK
<1>5. dest_index'[i] = slot /\ \A j \in Entries \ {i} : dest_index'[j] = dest_index[j]
  BY <1>3 DEF TypeOK
<1>6. COV_Addresses' \in [AddressSlots -> [valid : BOOLEAN, dest : Subscribers \cup {Nobody}]]
  BY <1>3 DEF TypeOK
<1>7. AddressesAreUnique'
  <2>1. \A a \in AddressSlots : COV_Addresses'[a].valid => COV_Addresses'[a].dest \in Subscribers
    BY <1>3 DEF AddressesAreUnique
  <2>2. ASSUME NEW a \in AddressSlots, NEW b \in AddressSlots,
               COV_Addresses'[a].valid, COV_Addresses'[b].valid,
               COV_Addresses'[a].dest = COV_Addresses'[b].dest
        PROVE  a = b
    <3>1. COV_Addresses'[a] = IF a = slot THEN [valid |-> TRUE, dest |-> who] ELSE COV_Addresses[a]
      BY <1>3
    <3>2. COV_Addresses'[b] = IF b = slot THEN [valid |-> TRUE, dest |-> who] ELSE COV_Addresses[b]
      BY <1>3
    <3>3. QED BY <1>1, <2>2, <3>1, <3>2 DEF AddressesAreUnique
  <2>3. QED BY <2>1, <2>2 DEF AddressesAreUnique
<1>8. Addressed(i, who)'
  BY <1>1, <1>2, <1>3, <1>5 DEF Addressed, RoomForAll
<1>9. ASSUME NEW j \in Entries \ {i}, NEW w \in Subscribers, Addressed(j, w)
      PROVE  Addressed(j, w)'
  <2>1. dest_index'[j] = dest_index[j] /\ dest_index[j] \in AddressSlots \cup {NoSlot}
    BY <1>5 DEF TypeOK
  <2>2. ASSUME dest_index[j] # NoSlot
        PROVE  COV_Addresses'[dest_index[j]] = [valid |-> TRUE, dest |-> w]
    <3>1. COV_Addresses[dest_index[j]] = [valid |-> TRUE, dest |-> w] /\ dest_index[j] \in AddressSlots
      BY <1>9, <2>1, <2>2 DEF Addressed
    <3>2. dest_index[j] = slot => w = who
      BY <1>1, <2>2, <3>1
    <3>3. QED BY <1>3, <3>1, <3>2
  <2>3. QED BY <1>9, <2>1, <2>2 DEF Addressed, RoomForAll
<1>10. QED BY <1>4, <1>5, <1>6, <1>7, <1>8, <1>9

(* cov_address_remove_unused takes no slot from an entry that is in use.   *)
LEMMA RemoveAddressEffect ==
  ASSUME TypeOK, AddressesAreUnique, NEW i \in Entries, RemoveAddress(i)
  PROVE  /\ dest_index' \in [Entries -> AddressSlots \cup {NoSlot}]
         /\ COV_Addresses' \in [AddressSlots -> [valid : BOOLEAN, dest : Subscribers \cup {Nobody}]]
         /\ AddressesAreUnique'
         /\ \A j \in Entries \ {i} : dest_index'[j] = dest_index[j]
         /\ \A j \in Entries \ {i}, w \in Subscribers :
              flag[j].valid /\ Addressed(j, w) => Addressed(j, w)'
<1>1. /\ dest_index' = [dest_index EXCEPT ![i] = NoSlot]
      /\ COV_Addresses' = [a \in AddressSlots |->
           [COV_Addresses[a] EXCEPT !.valid = @ /\ \E j \in Entries \ {i} :
              flag[j].valid /\ dest_index[j] = a]]
  BY DEF RemoveAddress
<1>2. dest_index' \in [Entries -> AddressSlots \cup {NoSlot}]
      /\ \A j \in Entries \ {i} : dest_index'[j] = dest_index[j]
  BY <1>1 DEF TypeOK
<1>3. ASSUME NEW a \in AddressSlots
      PROVE  /\ COV_Addresses'[a] \in [valid : BOOLEAN, dest : Subscribers \cup {Nobody}]
             /\ COV_Addresses'[a].dest = COV_Addresses[a].dest
             /\ COV_Addresses'[a].valid => COV_Addresses[a].valid
             /\ (\E j \in Entries \ {i} : flag[j].valid /\ dest_index[j] = a)
                  => COV_Addresses'[a] = COV_Addresses[a]
  <2> DEFINE used == \E j \in Entries \ {i} : flag[j].valid /\ dest_index[j] = a
  <2>1. COV_Addresses'[a] = [COV_Addresses[a] EXCEPT !.valid = @ /\ used]
    BY <1>1
  <2>2. COV_Addresses[a] \in [valid : BOOLEAN, dest : Subscribers \cup {Nobody}]
    BY DEF TypeOK
  <2> HIDE DEF used
  <2>3. /\ COV_Addresses'[a] \in [valid : BOOLEAN, dest : Subscribers \cup {Nobody}]
        /\ COV_Addresses'[a].dest = COV_Addresses[a].dest
        /\ COV_Addresses'[a].valid => COV_Addresses[a].valid
        /\ used => COV_Addresses'[a] = COV_Addresses[a]
    BY <2>1, <2>2
  <2>4. QED BY <2>3 DEF used
<1>4. COV_Addresses' \in [AddressSlots -> [valid : BOOLEAN, dest : Subscribers \cup {Nobody}]]
  <2>1. COV_Addresses' = [a \in AddressSlots |-> COV_Addresses'[a]]
    BY <1>1
  <2>2. QED BY <1>3, <2>1
<1>5. AddressesAreUnique'
  BY <1>3 DEF AddressesAreUnique
<1>6. ASSUME NEW j \in Entries \ {i}, NEW w \in Subscribers, flag[j].valid, Addressed(j, w)
      PROVE  Addressed(j, w)'
  <2>1. dest_index'[j] = dest_index[j] /\ dest_index[j] \in AddressSlots \cup {NoSlot}
    BY <1>2 DEF TypeOK
  <2>2. dest_index[j] # NoSlot => COV_Addresses'[dest_index[j]] = COV_Addresses[dest_index[j]]
    BY <1>3, <1>6, <2>1
  <2>3. QED BY <1>6, <2>1, <2>2 DEF Addressed, RoomForAll
<1>7. QED BY <1>2, <1>4, <1>5, <1>6

-----------------------------------------------------------------------------
(* What a step leaves alone.                                               *)

(* The history of a step that gives no entry to a new subscription.        *)
LEMMA WatchEffect ==
  ASSUME Watch, main.entry # 0 \/ main'.todo # NewProgram
  PROVE  /\ overlap \subseteq overlap' /\ Together(main', cov') \subseteq overlap'
         /\ overlap' = overlap \cup Together(main', cov')
         /\ \A id \in UsedIds(TSM_List') \ stray' : id \notin stray
         /\ cov'.sweep = "send" /\ cov'.index \in overlap' /\ cov'.id # 0 => cov'.id \in stray'
BY DEF Watch

(* A statement of the main thread is about its entry, i.                   *)
LEMMA MainFrame ==
  ASSUME IInv, Watch, TypeOK', ProgramsAreRun', AddressesAreUnique', cov' = cov,
         NEW i \in Entries, main.entry = i, main'.entry \in {0, i},
         \A j \in Entries \ {i} :
           /\ flag'[j] = flag[j] /\ dest_index'[j] = dest_index[j]
           /\ invokeID'[j] = invokeID[j] /\ monitoredObject'[j] = monitoredObject[j]
           /\ asked'[j] = asked[j],
         \A j \in Entries \ {i}, w \in Subscribers :
           flag[j].valid /\ Addressed(j, w) => Addressed(j, w)',
         i \notin overlap => IF main'.entry = 0 THEN Settled(i)' ELSE Doing(i)',
         UsedIds(TSM_List') \subseteq UsedIds(TSM_List),
         invokeID'[i] \in {invokeID[i], 0},
         Keeps(i) /\ invokeID[i] \in UsedIds(TSM_List') =>
           Keeps(i)' /\ invokeID'[i] = invokeID[i]
  PROVE  IInv'
<1>1. i # 0
  BY DEF Entries
<1>2. /\ overlap \subseteq overlap' /\ Together(main', cov') \subseteq overlap'
      /\ \A id \in UsedIds(TSM_List') \ stray' : id \notin stray
      /\ cov'.sweep = "send" /\ cov'.index \in overlap' /\ cov'.id # 0 => cov'.id \in stray'
  BY <1>1, WatchEffect
<1>3. SweepsAreSeparate'
  BY DEF IInv, SweepsAreSeparate
<1>4. OverlapsAreSeen'
  BY <1>1, <1>2 DEF OverlapsAreSeen, Inside, Together
<1>5. Inside(i) => i \in overlap
  BY <1>1 DEF IInv, OverlapsAreSeen
<1>6. EntriesAreSettled'
  <2> SUFFICES ASSUME NEW j \in Entries, j \notin overlap', j # main'.entry PROVE Settled(j)'
    BY DEF EntriesAreSettled
  <2>1. CASE j = i
    BY <1>2, <2>1
  <2>2. CASE j # i
    <3>1. Settled(j)
      BY <1>2, <2>2 DEF IInv, EntriesAreSettled
    <3>2. asked[j] # NotAsked => Addressed(j, asked[j].who)'
      BY <2>2, <3>1 DEF Settled
    <3>3. QED BY <2>2, <3>1, <3>2 DEF Settled, Addressed, RoomForAll
  <2>3. QED BY <2>1, <2>2
<1>7. WorkIsDone'
  <2> SUFFICES ASSUME NEW j \in Entries, j \notin overlap', main'.entry = j PROVE Doing(j)'
    BY DEF WorkIsDone
  <2>1. j = i /\ main'.entry # 0
    BY DEF Entries
  <2>2. QED BY <1>2, <2>1
<1>8. LoadsAreCurrent'
  <2> SUFFICES ASSUME NEW j \in Entries, j \notin overlap', Inside(j)' PROVE Current(j)'
    BY DEF LoadsAreCurrent
  <2>1. Inside(j) /\ j # i
    BY <1>2, <1>5 DEF Inside
  <2>2. Current(j)
    BY <1>2, <2>1 DEF IInv, LoadsAreCurrent
  <2>3. QED BY <2>1, <2>2 DEF Current
<1>9. EveryIdIsKept'
  <2> SUFFICES ASSUME NEW id \in UsedIds(TSM_List') \ stray'
               PROVE  Sending(id)' \/ \E j \in Entries : invokeID'[j] = id /\ Keeps(j)'
    BY DEF EveryIdIsKept
  <2>1. id \in UsedIds(TSM_List) \ stray /\ id # 0
    BY <1>2 DEF UsedIds
  <2>2. CASE Sending(id)
    BY <1>2, <2>1, <2>2 DEF Sending
  <2>3. ASSUME NEW j \in Entries, invokeID[j] = id, Keeps(j)
        PROVE  invokeID'[j] = id /\ Keeps(j)'
    <3>1. CASE j = i
      BY <2>3, <3>1
    <3>2. CASE j # i
      <4>1. j # main.entry /\ j # main'.entry
        BY <3>2 DEF Entries
      <4>2. QED BY <2>3, <3>2, <4>1 DEF Keeps, Kept, Loaded, Composes
    <3>3. QED BY <3>1, <3>2
  <2>4. QED BY <2>1, <2>2, <2>3 DEF IInv, EveryIdIsKept
<1>10. DroppedIdsAreFree'
  <2>1. 0 \notin UsedIds(TSM_List')
    BY DEF UsedIds
  <2>2. cov.index \in Entries
    BY DEF IInv, TypeOK, Sweeping
  <2>3. QED BY <2>1, <2>2 DEF IInv, DroppedIdsAreFree
<1>11. QED
  BY <1>3, <1>4, <1>6, <1>7, <1>8, <1>9, <1>10 DEF IInv

-----------------------------------------------------------------------------
(* The statements of the main thread.                                      *)

(* What the end of a statement changes.                                    *)
LEMMA ProceedEffect ==
  ASSUME IInv, NEW i \in Entries, main.entry = i, NEW rest, NEW byte \in Flags,
         Proceed(rest, byte), rest \in Ends \cup Renews \cup News \cup {<< >>}
  PROVE  /\ cov' = cov /\ Current_Invoke_ID' = Current_Invoke_ID
         /\ main' \in Serving
         /\ asked' \in [Entries -> Terms]
         /\ \A j \in Entries \ {i} : asked'[j] = asked[j]
         /\ rest = << >> => main' = NoWork /\ asked'[i] = main.terms
         /\ rest # << >> => /\ asked' = asked /\ main'.entry = i /\ main'.todo = rest
                            /\ main'.terms = main.terms /\ main'.byte = byte
<1>1. /\ main' = IF rest = << >> THEN NoWork ELSE [main EXCEPT !.todo = rest, !.byte = byte]
      /\ asked' = IF rest = << >> THEN [asked EXCEPT ![main.entry] = main.terms] ELSE asked
      /\ cov' = cov /\ Current_Invoke_ID' = Current_Invoke_ID
  BY DEF Proceed
<1>2. /\ main \in Serving
      /\ asked \in [Entries -> Terms]
  BY DEF IInv, TypeOK
<1>3. NoWork \in Serving
  BY CovRaceAssumption DEF Serving, NoWork, NotAsked, NoFlags, Terms, Flags
<1>4. QED BY <1>1, <1>2, <1>3 DEF Serving

(* On to the next statement, or back to the loop of the server.            *)
LEMMA Continues ==
  ASSUME IInv, NEW i \in Entries, main.entry = i, NEW rest \in Ends \cup Renews \cup News,
         NEW byte \in Flags, Proceed(rest, byte)
  PROVE  /\ cov' = cov /\ Current_Invoke_ID' = Current_Invoke_ID
         /\ main' \in Serving /\ asked' = asked
         /\ main'.entry = i /\ main'.todo = rest
         /\ main'.terms = main.terms /\ main'.byte = byte
<1>1. rest # << >>
  BY MoreToDo
<1>2. rest \in Ends \cup Renews \cup News \cup {<< >>}
  OBVIOUS
<1>3. QED BY <1>1, <1>2, ProceedEffect

(* The last statement of a request records what was asked.                 *)
LEMMA Finishes ==
  ASSUME IInv, NEW i \in Entries, main.entry = i, NEW byte \in Flags, Proceed(<< >>, byte)
  PROVE  /\ cov' = cov /\ Current_Invoke_ID' = Current_Invoke_ID
         /\ main' \in Serving /\ asked' \in [Entries -> Terms]
         /\ main' = NoWork /\ asked'[i] = main.terms
         /\ \A j \in Entries \ {i} : asked'[j] = asked[j]
<1>1. << >> \in Ends \cup Renews \cup News \cup {<< >>}
  OBVIOUS
<1>2. QED BY <1>1, ProceedEffect

(* A request has terms that are not those of an end.                       *)
LEMMA TermsDiffer == ASSUME main.terms.who \in Subscribers PROVE main.terms # NotAsked
BY CovRaceAssumption DEF NotAsked

(* Within a program, its terms say which.                                  *)
LEMMA ProgramOf ==
  ASSUME IInv, NEW i \in Entries, main.entry = i
  PROVE  \/ main.terms = NotAsked /\ main.todo \in Ends
         \/ /\ main.terms.who \in Subscribers /\ main.terms # NotAsked
            /\ main.todo \in Renews \cup News
<1>1. main.entry # 0
  BY DEF Entries
<1>2. QED BY <1>1, TermsDiffer DEF IInv, ProgramsAreRun

(* The byte of the bit fields is loaded.                                   *)
LEMMA LoadStep ==
  ASSUME IInv, Watch, NEW i \in Entries, main.entry = i, Head(main.todo) = "load",
         Proceed(Tail(main.todo), flag[i]), UNCHANGED <<fields, TSM_List>>
  PROVE  IInv'
<1>1. UNCHANGED <<flag, dest_index, invokeID, monitoredObject, COV_Addresses, TSM_List>>
  BY DEF fields
<1>2. \/ main.terms = NotAsked /\ main.todo \in ToEnd
      \/ /\ main.terms.who \in Subscribers
         /\ main.todo \in {RenewLoad, RenewLoadAgain, NewProgram, NewLoad, NewLoadAgain}
  <2>1. ASSUME main.todo \in Ends PROVE main.todo \in ToEnd
    BY <2>1, Statement DEF Ends
  <2>2. ASSUME main.todo \in Renews PROVE main.todo \in {RenewLoad, RenewLoadAgain}
    BY <2>2, Statement, StatementOfRenewal DEF Renews
  <2>3. ASSUME main.todo \in News PROVE main.todo \in {NewProgram, NewLoad, NewLoadAgain}
    BY <2>3, StatementOfNew DEF News
  <2>4. QED BY <2>1, <2>2, <2>3, ProgramOf
<1>3. /\ Tail(main.todo) \in Ends \cup Renews \cup News
      /\ main.terms = NotAsked => Tail(main.todo) \in ToInvalidate
      /\ main.terms.who \in Subscribers => Tail(main.todo) \in Renews \cup News
  <2>1. CASE main.terms = NotAsked /\ main.todo \in ToEnd
    <3>1. Tail(main.todo) \in ToInvalidate
      BY <2>1, Statement
    <3>2. QED BY <2>1, <3>1, TermsDiffer DEF Ends
  <2>2. CASE main.terms.who \in Subscribers /\ main.todo \in {RenewLoad, RenewLoadAgain}
    <3>1. Tail(main.todo) \in Renews
      BY <2>2, StatementOfRenewal DEF Renews
    <3>2. QED BY <2>2, <3>1, TermsDiffer
  <2>3. CASE main.terms.who \in Subscribers /\ main.todo \in {NewProgram, NewLoad, NewLoadAgain}
    <3>1. Tail(main.todo) \in News
      BY <2>3, StatementOfNew DEF News
    <3>2. QED BY <2>3, <3>1, TermsDiffer
  <2>4. QED BY <1>2, <2>1, <2>2, <2>3
<1>4. /\ cov' = cov /\ asked' = asked /\ Current_Invoke_ID' = Current_Invoke_ID
      /\ main' \in Serving
      /\ main'.entry = i /\ main'.todo = Tail(main.todo)
      /\ main'.terms = main.terms /\ main'.byte = flag[i]
  <2>1. PICK rest, byte : rest = Tail(main.todo) /\ byte = flag[i]
    OBVIOUS
  <2>2. rest \in Ends \cup Renews \cup News /\ byte \in Flags
    BY <1>3, <2>1 DEF IInv, TypeOK
  <2>3. Proceed(rest, byte)
    BY <2>1
  <2>4. QED BY <2>1, <2>2, <2>3, Continues
<1>5. TypeOK' /\ AddressesAreUnique'
  BY <1>1, <1>4 DEF IInv, TypeOK, AddressesAreUnique
<1>6. ProgramsAreRun'
  BY <1>2, <1>3, <1>4 DEF ProgramsAreRun, Entries, Ends
<1>7. ASSUME i \notin overlap PROVE Doing(i)'
  <2>1. Doing(i)
    BY <1>7 DEF IInv, WorkIsDone
  <2>2. CASE main.terms = NotAsked
    <3>1. main.todo \in ToEnd /\ Ended(i)
      BY <1>2, <2>1, <2>2, TermsDiffer DEF Doing
    <3>2. main'.todo \in ToInvalidate /\ (flag[i].confirmed \/ invokeID[i] = 0)
      BY <1>4, <3>1, Statement DEF Ended
    <3>3. QED BY <1>1, <1>4, <2>2, <3>2 DEF Doing, Ended
  <2>3. CASE main.terms # NotAsked
    <3>1. Renewed(i) \/ Added(i)
      BY <2>1, <2>3 DEF Doing
    <3>2. ASSUME Renewed(i) PROVE Renewed(i)'
      <4>1. main.todo \notin {RenewProgram, RenewConfirm, RenewRequest, Free, Forget}
        BY Statement, StatementOfRenewal
      <4>2. CASE main.todo = RenewLoad
        <5>1. main'.todo = RenewConfirm
          BY <1>4, <4>2, StatementOfRenewal
        <5>2. /\ flag[i].valid /\ monitoredObject[i] = main.terms.object
              /\ Addressed(i, main.terms.who)
          BY <3>2, <4>1 DEF Renewed
        <5>3. QED BY <1>1, <1>4, <5>1, <5>2 DEF Renewed, Addressed, RoomForAll
      <4>3. CASE main.todo = RenewLoadAgain
        <5>1. main'.todo = RenewRequest /\ main.todo # RenewLoad
          BY <1>4, <4>3, StatementOfRenewal
        <5>2. /\ flag[i].valid /\ monitoredObject[i] = main.terms.object
              /\ Addressed(i, main.terms.who) /\ flag[i].confirmed = main.terms.confirmed
          BY <3>2, <4>1, <5>1 DEF Renewed
        <5>3. QED BY <1>1, <1>4, <5>1, <5>2 DEF Renewed, Addressed, RoomForAll
      <4>4. QED BY <3>2, <4>1, <4>2, <4>3 DEF Renewed
    <3>3. ASSUME Added(i) PROVE Added(i)'
      <4>1. main.todo \notin {NewValidate, NewAddress, NewObject, NewConfirm, NewForget, NewRequest}
        BY StatementOfNew
      <4>2. CASE main.todo = NewProgram
        BY <1>4, <4>2, StatementOfNew DEF Added
      <4>3. CASE main.todo = NewLoad
        <5>1. main'.todo = NewConfirm /\ main.todo \notin {NewProgram, NewLoadAgain}
          BY <1>4, <4>3, StatementOfNew
        <5>2. /\ flag[i].valid /\ monitoredObject[i] = main.terms.object
              /\ Addressed(i, main.terms.who)
          BY <3>3, <4>1, <5>1 DEF Added
        <5>3. QED BY <1>1, <1>4, <5>1, <5>2 DEF Added, Addressed, RoomForAll
      <4>4. CASE main.todo = NewLoadAgain
        <5>1. main'.todo = NewRequest /\ main.todo \notin {NewProgram, NewLoad}
          BY <1>4, <4>4, StatementOfNew
        <5>2. /\ flag[i].valid /\ monitoredObject[i] = main.terms.object
              /\ Addressed(i, main.terms.who) /\ flag[i].confirmed = main.terms.confirmed
              /\ invokeID[i] = 0
          BY <3>3, <4>1, <5>1 DEF Added
        <5>3. QED BY <1>1, <1>4, <5>1, <5>2 DEF Added, Addressed, RoomForAll
      <4>5. QED BY <3>3, <4>1, <4>2, <4>3, <4>4 DEF Added
    <3>4. QED BY <1>4, <2>3, <3>1, <3>2, <3>3 DEF Doing
  <2>4. QED BY <2>2, <2>3
<1>8. ASSUME Keeps(i) PROVE Keeps(i)'
  <2>1. KeptByRequest(i) /\ ~(cov.index = i /\ cov.pc = "storeId")
    BY <1>8 DEF Keeps
  <2>2. main.todo \notin ToRemove \cup ToFree \cup ToInvalidate
          \cup {RenewProgram, RenewConfirm, RenewRequest, Free}
    BY Statement, StatementOfRenewal
  <2>3. \/ main.todo \in ToEnd \cup {RenewLoad} /\ Kept(i)
        \/ /\ main.todo = RenewLoadAgain
           /\ Loaded(i) /\ flag[i].confirmed => cov.byte.confirmed
           /\ Composes(i) => ~flag[i].confirmed
    BY <2>1, <2>2 DEF KeptByRequest
  <2>4. \/ main'.todo \in ToInvalidate \cup {RenewConfirm} /\ Kept(i)' /\ main'.byte.confirmed
        \/ /\ main'.todo = RenewRequest
           /\ main'.byte.confirmed => flag'[i].confirmed /\ (Loaded(i)' => cov'.byte.confirmed)
           /\ Composes(i)' => ~flag'[i].confirmed
    <3>1. CASE main.todo \in ToEnd \cup {RenewLoad} /\ Kept(i)
      <4>1. main'.todo \in ToInvalidate \cup {RenewConfirm}
        <5>1. main.todo \in ToEnd => main'.todo \in ToInvalidate
          BY <1>4, Statement
        <5>2. main.todo = RenewLoad => main'.todo = RenewConfirm
          BY <1>4, StatementOfRenewal
        <5>3. QED BY <3>1, <5>1, <5>2
      <4>2. Kept(i)' /\ main'.byte.confirmed
        BY <1>1, <1>4, <3>1 DEF Kept, Loaded, Composes
      <4>3. QED BY <4>1, <4>2
    <3>2. CASE /\ main.todo = RenewLoadAgain
               /\ Loaded(i) /\ flag[i].confirmed => cov.byte.confirmed
               /\ Composes(i) => ~flag[i].confirmed
      <4>1. main'.todo = RenewRequest
        BY <1>4, <3>2, StatementOfRenewal
      <4>2. /\ Loaded(i)' = Loaded(i) /\ Composes(i)' = Composes(i) /\ cov' = cov /\ flag' = flag
            /\ main'.byte = flag[i]
        BY <1>1, <1>4 DEF Loaded, Composes
      <4>3. QED BY <3>2, <4>1, <4>2
    <3>3. QED BY <2>3, <3>1, <3>2
  <2>5. KeptByRequest(i)'
    BY <2>4 DEF KeptByRequest
  <2>6. QED BY <1>4, <2>1, <2>5 DEF Keeps
<1>9. QED
  <2>1. main'.entry # 0
    BY <1>4 DEF Entries
  <2>2. \A j \in Entries, w \in Subscribers : Addressed(j, w) => Addressed(j, w)'
    BY <1>1 DEF Addressed, RoomForAll
  <2>3. QED BY <1>1, <1>4, <1>5, <1>6, <1>7, <1>8, <2>1, <2>2, MainFrame

(* An assignment to a bit field of the entry.                              *)
LEMMA StoreEffect ==
  ASSUME IInv, NEW i \in Entries, NEW b \in Flags, flag' = [flag EXCEPT ![i] = b],
         UNCHANGED <<dest_index, invokeID, monitoredObject, COV_Addresses, TSM_List>>,
         Current_Invoke_ID' = Current_Invoke_ID, cov' = cov,
         main' \in Serving, asked' \in [Entries -> Terms]
  PROVE  /\ TypeOK' /\ AddressesAreUnique'
         /\ flag'[i] = b /\ \A j \in Entries \ {i} : flag'[j] = flag[j]
         /\ \A w : \A j \in Entries : Addressed(j, w)' = Addressed(j, w)
<1>1. flag' \in [Entries -> Flags]
      /\ flag'[i] = b /\ \A j \in Entries \ {i} : flag'[j] = flag[j]
  BY DEF IInv, TypeOK
<1>2. TypeOK' /\ AddressesAreUnique'
  BY <1>1 DEF IInv, TypeOK, AddressesAreUnique
<1>3. QED BY <1>1, <1>2 DEF Addressed, RoomForAll

(* The byte that is stored.                                                *)
LEMMA StoredIsFlags ==
  ASSUME IInv, NEW op \in {"invalidate", "validate", "confirm", "request"}
  PROVE  /\ Stored(op) \in Flags /\ NoFlags \in Flags
         /\ op = "invalidate" => ~Stored(op).valid /\ Stored(op).confirmed = main.byte.confirmed
         /\ op = "validate" => Stored(op).valid
         /\ op = "confirm" => /\ Stored(op).valid = main.byte.valid
                              /\ Stored(op).confirmed = main.terms.confirmed
         /\ op = "request" => /\ Stored(op).valid = main.byte.valid
                              /\ Stored(op).confirmed = main.byte.confirmed
<1>1. main.byte \in Flags /\ main.terms.confirmed \in BOOLEAN
  BY DEF IInv, TypeOK, Serving, Terms
<1>2. /\ op = "invalidate" => Stored(op) = [main.byte EXCEPT !.valid = FALSE]
      /\ op = "validate" => Stored(op) = [main.byte EXCEPT !.valid = TRUE]
      /\ op = "confirm" => Stored(op) = [main.byte EXCEPT !.confirmed = main.terms.confirmed]
      /\ op = "request" => Stored(op) = [main.byte EXCEPT !.requested = TRUE]
  BY DEF Stored
<1>3. QED BY <1>1, <1>2 DEF Flags, NoFlags

(* valid is cleared, of a cancelled or an expired subscription.            *)
LEMMA InvalidateStep ==
  ASSUME IInv, Watch, NEW i \in Entries, main.entry = i, Head(main.todo) = "invalidate",
         flag' = [flag EXCEPT ![i] = Stored("invalidate")],
         Proceed(Tail(main.todo), NoFlags),
         UNCHANGED <<dest_index, invokeID, monitoredObject, COV_Addresses, TSM_List>>
  PROVE  IInv'
<1>1. main.terms = NotAsked /\ main.todo \in ToInvalidate
  <2>1. ASSUME main.todo \in Ends PROVE main.todo \in ToInvalidate
    BY <2>1, Statement DEF Ends
  <2>2. main.todo \notin Renews
    BY Statement, StatementOfRenewal DEF Renews
  <2>3. main.todo \notin News
    BY StatementOfNew DEF News
  <2>4. QED BY <2>1, <2>2, <2>3, ProgramOf
<1>2. PICK b, rest : b = Stored("invalidate") /\ rest = Tail(main.todo)
  OBVIOUS
<1>3. b \in Flags /\ NoFlags \in Flags /\ ~b.valid /\ b.confirmed = main.byte.confirmed
  BY <1>2, StoredIsFlags
<1>4. rest \in ToRemove /\ rest \in Ends
  BY <1>1, <1>2, Statement DEF Ends
<1>5. /\ cov' = cov /\ asked' = asked /\ Current_Invoke_ID' = Current_Invoke_ID
      /\ main' \in Serving /\ main'.entry = i /\ main'.todo = rest /\ main'.terms = main.terms
  BY <1>2, <1>3, <1>4, Continues
<1>6. /\ TypeOK' /\ AddressesAreUnique'
      /\ flag'[i] = b /\ \A j \in Entries \ {i} : flag'[j] = flag[j]
      /\ \A w : \A j \in Entries : Addressed(j, w)' = Addressed(j, w)
  BY <1>2, <1>3, <1>5, StoreEffect DEF IInv, TypeOK
<1>7. ProgramsAreRun' /\ main'.entry # 0
  BY <1>1, <1>4, <1>5 DEF ProgramsAreRun, Entries
<1>8. ASSUME i \notin overlap PROVE Doing(i)'
  <2>1. Ended(i)
    BY <1>1, <1>8 DEF IInv, WorkIsDone, Doing
  <2>2. (flag[i].confirmed \/ invokeID[i] = 0) /\ main.byte = flag[i]
    <3>1. main.todo \notin ToEnd \cup ToRemove \cup ToFree \cup {Forget}
      BY Statement
    <3>2. QED BY <2>1, <3>1 DEF Ended
  <2>3. QED BY <1>1, <1>3, <1>4, <1>5, <1>6, <2>2 DEF Doing, Ended
<1>9. ASSUME Keeps(i) PROVE Keeps(i)'
  <2>1. Kept(i) /\ main.byte.confirmed /\ ~(cov.index = i /\ cov.pc = "storeId")
    <3>1. main.todo \notin ToEnd \cup ToRemove \cup ToFree
            \cup {RenewProgram, RenewLoad, RenewConfirm, RenewLoadAgain, RenewRequest, Free}
      BY Statement, StatementOfRenewal
    <3>2. QED BY <1>9, <3>1 DEF Keeps, KeptByRequest
  <2>2. Kept(i)'
    BY <1>3, <1>5, <1>6, <2>1 DEF Kept, Loaded, Composes
  <2>3. QED BY <1>4, <1>5, <2>1, <2>2 DEF Keeps, KeptByRequest
<1>10. QED
  BY <1>5, <1>6, <1>7, <1>8, <1>9, MainFrame

(* valid is set, of a new subscription.                                    *)
LEMMA ValidateStep ==
  ASSUME IInv, Watch, NEW i \in Entries, main.entry = i, Head(main.todo) = "validate",
         flag' = [flag EXCEPT ![i] = Stored("validate")],
         Proceed(Tail(main.todo), NoFlags),
         UNCHANGED <<dest_index, invokeID, monitoredObject, COV_Addresses, TSM_List>>
  PROVE  IInv'
<1>1. main.terms # NotAsked /\ main.terms.who \in Subscribers /\ main.todo = NewValidate
  <2>1. ASSUME main.todo \in News PROVE main.todo = NewValidate
    BY <2>1, StatementOfNew DEF News
  <2>2. main.todo \notin Ends \cup Renews
    BY Statement, StatementOfRenewal DEF Ends, Renews
  <2>3. QED BY <2>1, <2>2, ProgramOf
<1>2. PICK b, rest : b = Stored("validate") /\ rest = Tail(main.todo)
  OBVIOUS
<1>3. b \in Flags /\ NoFlags \in Flags /\ b.valid
  BY <1>2, StoredIsFlags
<1>4. rest = NewAddress /\ rest \in News
  BY <1>1, <1>2, StatementOfNew DEF News
<1>5. /\ cov' = cov /\ asked' = asked /\ Current_Invoke_ID' = Current_Invoke_ID
      /\ main' \in Serving /\ main'.entry = i /\ main'.todo = rest /\ main'.terms = main.terms
  BY <1>2, <1>3, <1>4, Continues
<1>6. /\ TypeOK' /\ AddressesAreUnique'
      /\ flag'[i] = b /\ \A j \in Entries \ {i} : flag'[j] = flag[j]
      /\ \A w : \A j \in Entries : Addressed(j, w)' = Addressed(j, w)
  BY <1>2, <1>3, <1>5, StoreEffect DEF IInv, TypeOK
<1>7. ProgramsAreRun' /\ main'.entry # 0
  BY <1>1, <1>4, <1>5 DEF ProgramsAreRun, Entries
<1>8. Doing(i)'
  BY <1>1, <1>3, <1>4, <1>5, <1>6 DEF Doing, Added
<1>9. ~Keeps(i)
  BY Statement, StatementOfRenewal DEF Keeps, KeptByRequest
<1>10. QED
  BY <1>5, <1>6, <1>7, <1>8, <1>9, MainFrame

(* issueConfirmedNotifications is set as the request says.                 *)
LEMMA ConfirmStep ==
  ASSUME IInv, Watch, NEW i \in Entries, main.entry = i, Head(main.todo) = "confirm",
         flag' = [flag EXCEPT ![i] = Stored("confirm")],
         Proceed(Tail(main.todo), NoFlags),
         UNCHANGED <<dest_index, invokeID, monitoredObject, COV_Addresses, TSM_List>>
  PROVE  IInv'
<1>1. /\ main.terms # NotAsked /\ main.terms.who \in Subscribers
      /\ main.todo \in {RenewConfirm, NewConfirm}
  <2>1. ASSUME main.todo \in Renews PROVE main.todo = RenewConfirm
    BY <2>1, Statement, StatementOfRenewal DEF Renews
  <2>2. ASSUME main.todo \in News PROVE main.todo = NewConfirm
    BY <2>2, StatementOfNew DEF News
  <2>3. main.todo \notin Ends
    BY Statement DEF Ends
  <2>4. QED BY <2>1, <2>2, <2>3, ProgramOf
<1>2. PICK b, rest : b = Stored("confirm") /\ rest = Tail(main.todo)
  OBVIOUS
<1>3. /\ b \in Flags /\ NoFlags \in Flags
      /\ b.valid = main.byte.valid /\ b.confirmed = main.terms.confirmed
  BY <1>2, StoredIsFlags
<1>4. /\ main.todo = RenewConfirm => rest = RenewLoadAgain
      /\ main.todo = NewConfirm => rest = NewForget
      /\ rest \in Renews \cup News
  BY <1>1, <1>2, StatementOfRenewal, StatementOfNew DEF Renews, News
<1>5. /\ cov' = cov /\ asked' = asked /\ Current_Invoke_ID' = Current_Invoke_ID
      /\ main' \in Serving /\ main'.entry = i /\ main'.todo = rest /\ main'.terms = main.terms
  BY <1>2, <1>3, <1>4, Continues
<1>6. /\ TypeOK' /\ AddressesAreUnique'
      /\ flag'[i] = b /\ \A j \in Entries \ {i} : flag'[j] = flag[j]
      /\ \A w : \A j \in Entries : Addressed(j, w)' = Addressed(j, w)
  BY <1>2, <1>3, <1>5, StoreEffect DEF IInv, TypeOK
<1>7. ProgramsAreRun' /\ main'.entry # 0
  BY <1>1, <1>4, <1>5 DEF ProgramsAreRun, Entries
<1>8. ASSUME i \notin overlap PROVE Doing(i)'
  <2>1. Renewed(i) \/ Added(i)
    BY <1>1, <1>8 DEF IInv, WorkIsDone, Doing
  <2>2. ASSUME Renewed(i) PROVE Renewed(i)'
    <3>1. main.todo \notin {RenewProgram, RenewLoad, RenewLoadAgain, Free, Forget, RenewRequest}
      BY Statement, StatementOfRenewal
    <3>2. /\ flag[i].valid /\ monitoredObject[i] = main.terms.object
          /\ Addressed(i, main.terms.who) /\ main.todo = RenewConfirm /\ main.byte = flag[i]
      BY <2>2, <3>1 DEF Renewed
    <3>3. QED BY <1>3, <1>4, <1>5, <1>6, <3>2 DEF Renewed, Addressed, RoomForAll
  <2>3. ASSUME Added(i) PROVE Added(i)'
    <3>1. main.todo \notin {NewProgram, NewValidate, NewAddress, NewObject, NewLoad, NewForget,
                            NewLoadAgain, NewRequest}
      BY StatementOfNew
    <3>2. /\ flag[i].valid /\ monitoredObject[i] = main.terms.object
          /\ Addressed(i, main.terms.who) /\ main.todo = NewConfirm /\ main.byte = flag[i]
      BY <2>3, <3>1 DEF Added
    <3>3. QED BY <1>3, <1>4, <1>5, <1>6, <3>2 DEF Added, Addressed, RoomForAll
  <2>4. QED BY <1>1, <1>5, <2>1, <2>2, <2>3 DEF Doing
<1>9. ASSUME Keeps(i) PROVE Keeps(i)'
  <2>1. Kept(i) /\ main.todo = RenewConfirm /\ ~(cov.index = i /\ cov.pc = "storeId")
    <3>1. main.todo \notin ToEnd \cup ToInvalidate \cup ToRemove \cup ToFree
            \cup {RenewProgram, RenewLoad, RenewLoadAgain, RenewRequest, Free}
      BY Statement, StatementOfRenewal
    <3>2. QED BY <1>9, <3>1 DEF Keeps, KeptByRequest
  <2>2. /\ Loaded(i)' /\ flag'[i].confirmed => cov'.byte.confirmed
        /\ Composes(i)' => ~flag'[i].confirmed
    BY <1>5, <2>1 DEF Kept, Loaded, Composes
  <2>3. QED BY <1>4, <1>5, <2>1, <2>2 DEF Keeps, KeptByRequest
<1>10. QED
  BY <1>5, <1>6, <1>7, <1>8, <1>9, MainFrame

(* send_requested is set, so that a first notification is sent.            *)
LEMMA RequestStep ==
  ASSUME IInv, Watch, NEW i \in Entries, main.entry = i, Head(main.todo) = "request",
         flag' = [flag EXCEPT ![i] = Stored("request")],
         Proceed(Tail(main.todo), NoFlags),
         UNCHANGED <<dest_index, invokeID, monitoredObject, COV_Addresses, TSM_List>>
  PROVE  IInv'
<1>1. /\ main.terms # NotAsked /\ main.terms.who \in Subscribers
      /\ main.todo \in {RenewRequest, NewRequest}
  <2>1. ASSUME main.todo \in Renews PROVE main.todo = RenewRequest
    BY <2>1, Statement, StatementOfRenewal DEF Renews
  <2>2. ASSUME main.todo \in News PROVE main.todo = NewRequest
    BY <2>2, StatementOfNew DEF News
  <2>3. main.todo \notin Ends
    BY Statement DEF Ends
  <2>4. QED BY <2>1, <2>2, <2>3, ProgramOf
<1>2. PICK b, rest : b = Stored("request") /\ rest = Tail(main.todo)
  OBVIOUS
<1>3. /\ b \in Flags /\ NoFlags \in Flags
      /\ b.valid = main.byte.valid /\ b.confirmed = main.byte.confirmed
  BY <1>2, StoredIsFlags
<1>4. ASSUME i \notin overlap
      PROVE  \/ /\ main.todo = RenewRequest
                /\ flag[i].valid /\ monitoredObject[i] = main.terms.object
                /\ Addressed(i, main.terms.who) /\ main.byte = flag[i]
                /\ flag[i].confirmed = main.terms.confirmed
             \/ /\ main.todo = NewRequest
                /\ flag[i].valid /\ monitoredObject[i] = main.terms.object
                /\ Addressed(i, main.terms.who) /\ main.byte = flag[i]
                /\ flag[i].confirmed = main.terms.confirmed /\ invokeID[i] = 0
  <2>1. Renewed(i) \/ Added(i)
    BY <1>1, <1>4 DEF IInv, WorkIsDone, Doing
  <2>2. main.todo \notin {RenewProgram, RenewLoad, RenewConfirm, RenewLoadAgain, Free, Forget}
    BY Statement, StatementOfRenewal
  <2>3. main.todo \notin {NewProgram, NewValidate, NewAddress, NewObject, NewLoad, NewConfirm,
                          NewForget, NewLoadAgain}
    BY StatementOfNew
  <2>4. QED BY <2>1, <2>2, <2>3 DEF Renewed, Added
<1>5. CASE main.todo = RenewRequest
  <2>1. rest = Free /\ rest \in Renews
    BY <1>2, <1>5, StatementOfRenewal DEF Renews
  <2>2. /\ cov' = cov /\ asked' = asked /\ Current_Invoke_ID' = Current_Invoke_ID
        /\ main' \in Serving /\ main'.entry = i /\ main'.todo = rest /\ main'.terms = main.terms
    BY <1>2, <1>3, <2>1, Continues
  <2>3. /\ TypeOK' /\ AddressesAreUnique'
        /\ flag'[i] = b /\ \A j \in Entries \ {i} : flag'[j] = flag[j]
        /\ \A w : \A j \in Entries : Addressed(j, w)' = Addressed(j, w)
    BY <1>2, <1>3, <2>2, StoreEffect DEF IInv, TypeOK
  <2>4. ProgramsAreRun' /\ main'.entry # 0
    BY <1>1, <2>1, <2>2 DEF ProgramsAreRun, Entries
  <2>5. ASSUME i \notin overlap PROVE Doing(i)'
    <3>1. main.todo # NewRequest
      BY <1>5, OtherPrograms
    <3>2. /\ flag'[i].valid /\ flag'[i].confirmed = main'.terms.confirmed
          /\ monitoredObject'[i] = main'.terms.object /\ Addressed(i, main.terms.who)'
      BY <1>3, <1>4, <2>2, <2>3, <2>5, <3>1
    <3>3. QED BY <1>1, <2>1, <2>2, <3>2 DEF Doing, Renewed, Addressed, RoomForAll
  <2>6. ASSUME Keeps(i) PROVE Keeps(i)'
    <3>1. /\ main.byte.confirmed => flag[i].confirmed
          /\ Composes(i) => ~flag[i].confirmed
          /\ ~(cov.index = i /\ cov.pc = "storeId")
      <4>1. main.todo \notin ToEnd \cup ToInvalidate \cup ToRemove \cup ToFree
              \cup {RenewProgram, RenewLoad, RenewConfirm, RenewLoadAgain, Free}
        BY Statement, StatementOfRenewal
      <4>2. QED BY <2>6, <4>1 DEF Keeps, KeptByRequest
    <3>2. Composes(i)' => ~flag'[i].confirmed
      BY <1>3, <2>2, <2>3, <3>1 DEF Composes
    <3>3. QED BY <2>1, <2>2, <3>1, <3>2 DEF Keeps, KeptByRequest
  <2>7. QED BY <2>2, <2>3, <2>4, <2>5, <2>6, MainFrame
<1>6. CASE main.todo = NewRequest
  <2>1. rest = << >>
    BY <1>2, <1>6, StatementOfNew
  <2>2. /\ cov' = cov /\ asked' \in [Entries -> Terms] /\ Current_Invoke_ID' = Current_Invoke_ID
        /\ main' \in Serving /\ main' = NoWork /\ asked'[i] = main.terms
        /\ \A j \in Entries \ {i} : asked'[j] = asked[j]
    BY <1>2, <1>3, <2>1, Finishes
  <2>3. /\ TypeOK' /\ AddressesAreUnique'
        /\ flag'[i] = b /\ \A j \in Entries \ {i} : flag'[j] = flag[j]
        /\ \A w : \A j \in Entries : Addressed(j, w)' = Addressed(j, w)
    BY <1>2, <1>3, <2>2, StoreEffect DEF IInv, TypeOK
  <2>4. ProgramsAreRun' /\ main'.entry = 0
    BY <2>2 DEF ProgramsAreRun, NoWork
  <2>5. ASSUME i \notin overlap PROVE Settled(i)'
    <3>1. main.todo # RenewRequest
      BY <1>6, OtherPrograms
    <3>2. /\ flag'[i].valid /\ flag'[i].confirmed = asked'[i].confirmed
          /\ monitoredObject'[i] = asked'[i].object /\ invokeID'[i] = 0
      BY <1>3, <1>4, <2>2, <2>3, <2>5, <3>1
    <3>3. PICK who : who = main.terms.who
      OBVIOUS
    <3>4. Addressed(i, who)' /\ asked'[i].who = who
      BY <1>4, <2>2, <2>3, <2>5, <3>1, <3>3
    <3>5. QED BY <1>1, <2>2, <3>2, <3>3, <3>4 DEF Settled, Addressed, RoomForAll
  <2>6. ~Keeps(i)
    <3>1. main.todo # RenewRequest
      BY <1>6, OtherPrograms
    <3>2. QED BY <3>1, Statement, StatementOfRenewal DEF Keeps, KeptByRequest
  <2>7. QED BY <2>2, <2>3, <2>4, <2>5, <2>6, MainFrame
<1>7. QED BY <1>1, <1>5, <1>6

(* cov_address_add, which finds a slot that no other entry loses.          *)
LEMMA AddAddressStep ==
  ASSUME IInv, Watch, NEW i \in Entries, main.entry = i, Head(main.todo) = "addAddress",
         AddAddress(i, main.terms.who), Proceed(Tail(main.todo), NoFlags),
         UNCHANGED <<flag, invokeID, monitoredObject, TSM_List>>
  PROVE  IInv'
<1>1. /\ main.terms # NotAsked /\ main.terms.who \in Subscribers
      /\ main.todo \in {RenewProgram, NewAddress}
  <2>1. ASSUME main.todo \in Renews PROVE main.todo = RenewProgram
    BY <2>1, Statement, StatementOfRenewal DEF Renews
  <2>2. ASSUME main.todo \in News PROVE main.todo = NewAddress
    BY <2>2, StatementOfNew DEF News
  <2>3. main.todo \notin Ends
    BY Statement DEF Ends
  <2>4. QED BY <2>1, <2>2, <2>3, ProgramOf
<1>2. PICK who, rest : who = main.terms.who /\ rest = Tail(main.todo)
  OBVIOUS
<1>3. NoFlags \in Flags
  BY DEF NoFlags, Flags
<1>4. /\ main.todo = RenewProgram => rest = RenewLoad
      /\ main.todo = NewAddress => rest = NewObject
      /\ rest \in Renews \cup News
  BY <1>1, <1>2, StatementOfRenewal, StatementOfNew DEF Renews, News
<1>5. /\ cov' = cov /\ asked' = asked /\ Current_Invoke_ID' = Current_Invoke_ID
      /\ main' \in Serving /\ main'.entry = i /\ main'.todo = rest /\ main'.terms = main.terms
  BY <1>2, <1>3, <1>4, Continues
<1>6. /\ dest_index' \in [Entries -> AddressSlots \cup {NoSlot}]
      /\ COV_Addresses' \in [AddressSlots -> [valid : BOOLEAN, dest : Subscribers \cup {Nobody}]]
      /\ AddressesAreUnique' /\ Addressed(i, who)'
      /\ \A j \in Entries \ {i} : dest_index'[j] = dest_index[j]
      /\ \A j \in Entries \ {i}, w \in Subscribers : Addressed(j, w) => Addressed(j, w)'
  <2>1. who \in Subscribers /\ AddAddress(i, who)
    BY <1>1, <1>2
  <2>2. QED BY <2>1, AddAddressEffect DEF IInv
<1>7. TypeOK'
  BY <1>5, <1>6 DEF IInv, TypeOK
<1>8. ProgramsAreRun' /\ main'.entry # 0
  BY <1>1, <1>4, <1>5 DEF ProgramsAreRun, Entries
<1>9. ASSUME i \notin overlap PROVE Doing(i)'
  <2>1. Renewed(i) \/ Added(i)
    BY <1>1, <1>9 DEF IInv, WorkIsDone, Doing
  <2>2. \/ /\ main.todo = RenewProgram
           /\ flag[i].valid /\ monitoredObject[i] = main.terms.object
        \/ main.todo = NewAddress /\ flag[i].valid
    <3>1. main.todo \notin {RenewLoad, RenewConfirm, RenewLoadAgain, RenewRequest, Free, Forget}
      BY Statement, StatementOfRenewal
    <3>2. main.todo \notin {NewProgram, NewValidate, NewObject, NewLoad, NewConfirm, NewForget,
                            NewLoadAgain, NewRequest}
      BY StatementOfNew
    <3>3. QED BY <2>1, <3>1, <3>2 DEF Renewed, Added
  <2>3. CASE /\ main.todo = RenewProgram
             /\ flag[i].valid /\ monitoredObject[i] = main.terms.object
    BY <1>1, <1>2, <1>4, <1>5, <1>6, <2>3 DEF Doing, Renewed, Addressed, RoomForAll
  <2>4. CASE main.todo = NewAddress /\ flag[i].valid
    BY <1>1, <1>2, <1>4, <1>5, <1>6, <2>4 DEF Doing, Added, Addressed, RoomForAll
  <2>5. QED BY <2>2, <2>3, <2>4
<1>10. ASSUME Keeps(i) PROVE Keeps(i)'
  <2>1. main.todo = RenewProgram /\ Kept(i) /\ ~(cov.index = i /\ cov.pc = "storeId")
    <3>1. main.todo \notin ToEnd \cup ToInvalidate \cup ToRemove \cup ToFree
            \cup {RenewLoad, RenewConfirm, RenewLoadAgain, RenewRequest, Free}
      BY Statement, StatementOfRenewal
    <3>2. QED BY <1>10, <3>1 DEF Keeps, KeptByRequest
  <2>2. Kept(i)'
    BY <1>5, <2>1 DEF Kept, Loaded, Composes
  <2>3. QED BY <1>4, <1>5, <2>1, <2>2 DEF Keeps, KeptByRequest
<1>11. QED
  BY <1>5, <1>6, <1>7, <1>8, <1>9, <1>10, MainFrame

(* cov_address_remove_unused, which leaves the slots of valid entries.     *)
LEMMA RemoveAddressStep ==
  ASSUME IInv, Watch, NEW i \in Entries, main.entry = i, Head(main.todo) = "removeAddress",
         RemoveAddress(i), Proceed(Tail(main.todo), NoFlags),
         UNCHANGED <<flag, invokeID, monitoredObject, TSM_List>>
  PROVE  IInv'
<1>1. main.terms = NotAsked /\ main.todo \in ToRemove
  <2>1. ASSUME main.todo \in Ends PROVE main.todo \in ToRemove
    BY <2>1, Statement DEF Ends
  <2>2. main.todo \notin Renews
    BY Statement, StatementOfRenewal DEF Renews
  <2>3. main.todo \notin News
    BY StatementOfNew DEF News
  <2>4. QED BY <2>1, <2>2, <2>3, ProgramOf
<1>2. PICK rest : rest = Tail(main.todo)
  OBVIOUS
<1>3. NoFlags \in Flags
  BY DEF NoFlags, Flags
<1>4. rest \in ToFree /\ rest \in Ends
  BY <1>1, <1>2, Statement DEF Ends
<1>5. /\ cov' = cov /\ asked' = asked /\ Current_Invoke_ID' = Current_Invoke_ID
      /\ main' \in Serving /\ main'.entry = i /\ main'.todo = rest /\ main'.terms = main.terms
  BY <1>2, <1>3, <1>4, Continues
<1>6. /\ dest_index' \in [Entries -> AddressSlots \cup {NoSlot}]
      /\ COV_Addresses' \in [AddressSlots -> [valid : BOOLEAN, dest : Subscribers \cup {Nobody}]]
      /\ AddressesAreUnique'
      /\ \A j \in Entries \ {i} : dest_index'[j] = dest_index[j]
      /\ \A j \in Entries \ {i}, w \in Subscribers :
           flag[j].valid /\ Addressed(j, w) => Addressed(j, w)'
  BY RemoveAddressEffect DEF IInv
<1>7. TypeOK'
  BY <1>5, <1>6 DEF IInv, TypeOK
<1>8. ProgramsAreRun' /\ main'.entry # 0
  BY <1>1, <1>4, <1>5 DEF ProgramsAreRun, Entries
<1>9. ASSUME i \notin overlap PROVE Doing(i)'
  <2>1. Ended(i)
    BY <1>1, <1>9 DEF IInv, WorkIsDone, Doing
  <2>2. (flag[i].confirmed \/ invokeID[i] = 0) /\ ~flag[i].valid
    <3>1. main.todo \notin ToEnd \cup ToInvalidate \cup {Forget}
      BY Statement
    <3>2. QED BY <2>1, <3>1 DEF Ended
  <2>3. QED BY <1>1, <1>4, <1>5, <2>2 DEF Doing, Ended
<1>10. ASSUME Keeps(i) PROVE Keeps(i)'
  <2>1. Kept(i) /\ ~(cov.index = i /\ cov.pc = "storeId")
    <3>1. main.todo \notin ToEnd \cup ToInvalidate \cup ToFree
            \cup {RenewProgram, RenewLoad, RenewConfirm, RenewLoadAgain, RenewRequest, Free}
      BY Statement, StatementOfRenewal
    <3>2. QED BY <1>10, <3>1 DEF Keeps, KeptByRequest
  <2>2. Kept(i)'
    BY <1>5, <2>1 DEF Kept, Loaded, Composes
  <2>3. QED BY <1>4, <1>5, <2>1, <2>2 DEF Keeps, KeptByRequest
<1>11. QED
  BY <1>5, <1>6, <1>7, <1>8, <1>9, <1>10, MainFrame

(* The object of a new subscription is stored.                             *)
LEMMA SetObjectStep ==
  ASSUME IInv, Watch, NEW i \in Entries, main.entry = i, Head(main.todo) = "setObject",
         monitoredObject' = [monitoredObject EXCEPT ![i] = main.terms.object],
         Proceed(Tail(main.todo), NoFlags),
         UNCHANGED <<flag, dest_index, invokeID, COV_Addresses, TSM_List>>
  PROVE  IInv'
<1>1. main.terms # NotAsked /\ main.terms.who \in Subscribers /\ main.todo = NewObject
  <2>1. ASSUME main.todo \in News PROVE main.todo = NewObject
    BY <2>1, StatementOfNew DEF News
  <2>2. main.todo \notin Ends \cup Renews
    BY Statement, StatementOfRenewal DEF Ends, Renews
  <2>3. QED BY <2>1, <2>2, ProgramOf
<1>2. PICK rest : rest = Tail(main.todo)
  OBVIOUS
<1>3. NoFlags \in Flags
  BY DEF NoFlags, Flags
<1>4. rest = NewLoad /\ rest \in News
  BY <1>1, <1>2, StatementOfNew DEF News
<1>5. /\ cov' = cov /\ asked' = asked /\ Current_Invoke_ID' = Current_Invoke_ID
      /\ main' \in Serving /\ main'.entry = i /\ main'.todo = rest /\ main'.terms = main.terms
  BY <1>2, <1>3, <1>4, Continues
<1>6. /\ monitoredObject' \in [Entries -> Objects]
      /\ monitoredObject'[i] = main.terms.object
      /\ \A j \in Entries \ {i} : monitoredObject'[j] = monitoredObject[j]
  <2>1. main.terms.object \in Objects
    BY DEF IInv, TypeOK, Serving, Terms
  <2>2. QED BY <2>1 DEF IInv, TypeOK
<1>7. TypeOK' /\ AddressesAreUnique'
  BY <1>5, <1>6 DEF IInv, TypeOK, AddressesAreUnique
<1>8. ProgramsAreRun' /\ main'.entry # 0
  BY <1>1, <1>4, <1>5 DEF ProgramsAreRun, Entries
<1>9. \A w : \A j \in Entries : Addressed(j, w)' = Addressed(j, w)
  BY DEF Addressed, RoomForAll
<1>10. ASSUME i \notin overlap PROVE Doing(i)'
  <2>1. Renewed(i) \/ Added(i)
    BY <1>1, <1>10 DEF IInv, WorkIsDone, Doing
  <2>2. flag[i].valid /\ Addressed(i, main.terms.who)
    <3>1. main.todo \notin {RenewProgram, RenewLoad, RenewConfirm, RenewLoadAgain, RenewRequest,
                            Free, Forget}
      BY Statement, StatementOfRenewal
    <3>2. main.todo \notin {NewProgram, NewValidate, NewAddress, NewLoad, NewConfirm, NewForget,
                            NewLoadAgain, NewRequest}
      BY StatementOfNew
    <3>3. QED BY <2>1, <3>1, <3>2 DEF Renewed, Added
  <2>3. QED BY <1>1, <1>4, <1>5, <1>6, <1>9, <2>2 DEF Doing, Added, Addressed, RoomForAll
<1>11. ~Keeps(i)
  BY Statement, StatementOfRenewal DEF Keeps, KeptByRequest
<1>12. QED
  BY <1>5, <1>6, <1>7, <1>8, <1>9, <1>10, <1>11, MainFrame

(* tsm_free_invoke_id, or the condition that makes it needless.            *)
LEMMA FreeStep ==
  ASSUME IInv, Watch, NEW i \in Entries, main.entry = i,
         Head(main.todo) \in {"free", "freeConfirmed"},
         IF invokeID[i] # 0 /\ (Head(main.todo) = "freeConfirmed" => flag[i].confirmed)
         THEN Proceed(Tail(main.todo), NoFlags) /\ TSM_List' = FreeInvokeId(TSM_List, invokeID[i])
         ELSE Proceed(<< >>, NoFlags) /\ UNCHANGED TSM_List,
         UNCHANGED fields
  PROVE  IInv'
<1>1. UNCHANGED <<flag, dest_index, invokeID, monitoredObject, COV_Addresses>>
  BY DEF fields
<1>2. \/ main.terms = NotAsked /\ main.todo \in ToFree
      \/ main.terms # NotAsked /\ main.terms.who \in Subscribers /\ main.todo = Free
  <2>1. ASSUME main.todo \in Ends PROVE main.todo \in ToFree
    BY <2>1, Statement DEF Ends
  <2>2. ASSUME main.todo \in Renews PROVE main.todo = Free
    BY <2>2, Statement, StatementOfRenewal DEF Renews
  <2>3. main.todo \notin News
    BY StatementOfNew DEF News
  <2>4. QED BY <2>1, <2>2, <2>3, ProgramOf
<1>3. NoFlags \in Flags /\ Free \in ToFree
  BY DEF NoFlags, Flags, ToFree
<1>4. ASSUME i \notin overlap
      PROVE  \/ /\ main.terms = NotAsked /\ ~flag[i].valid
                /\ flag[i].confirmed \/ invokeID[i] = 0
             \/ /\ main.terms # NotAsked
                /\ flag[i].valid /\ monitoredObject[i] = main.terms.object
                /\ Addressed(i, main.terms.who)
                /\ flag[i].confirmed = main.terms.confirmed
  <2>1. Doing(i)
    BY <1>4 DEF IInv, WorkIsDone
  <2>2. main.todo \notin ToEnd \cup ToInvalidate \cup {Forget}
    BY Statement
  <2>3. main.todo \notin {RenewProgram, RenewLoad, RenewConfirm, RenewLoadAgain, RenewRequest,
                          NewProgram, NewValidate, NewAddress, NewObject, NewLoad, NewConfirm,
                          NewForget, NewLoadAgain, NewRequest}
    BY StatementOfRenewal, StatementOfNew
  <2>4. QED BY <1>2, <2>1, <2>2, <2>3 DEF Doing, Ended, Renewed, Added
<1>5. \A w : \A j \in Entries : Addressed(j, w)' = Addressed(j, w)
  BY <1>1 DEF Addressed, RoomForAll
<1>6. CASE invokeID[i] # 0 /\ (Head(main.todo) = "freeConfirmed" => flag[i].confirmed)
  <2>1. PICK rest, id : rest = Tail(main.todo) /\ id = invokeID[i]
    OBVIOUS
  <2>2. rest = Forget /\ rest \in Ends /\ rest \in Renews
    BY <1>2, <1>3, <2>1, Statement DEF Ends, Renews
  <2>3. /\ cov' = cov /\ asked' = asked /\ Current_Invoke_ID' = Current_Invoke_ID
        /\ main' \in Serving /\ main'.entry = i /\ main'.todo = rest /\ main'.terms = main.terms
    BY <1>3, <1>6, <2>1, <2>2, Continues
  <2>4. TSM_List' \in [Slots -> Entry] /\ UsedIds(TSM_List') = UsedIds(TSM_List) \ {id}
    <3>1. TSM_List' = FreeInvokeId(TSM_List, id)
      BY <1>6, <2>1
    <3>2. PICK list \in [Slots -> Entry] : list = TSM_List
      BY DEF IInv, TypeOK
    <3>3. /\ FreeInvokeId(list, id) \in [Slots -> Entry]
          /\ UsedIds(FreeInvokeId(list, id)) = UsedIds(list) \ {id}
      BY FreeUsed
    <3>4. QED BY <3>1, <3>2, <3>3
  <2>5. TypeOK' /\ AddressesAreUnique'
    BY <1>1, <2>3, <2>4 DEF IInv, TypeOK, AddressesAreUnique
  <2>6. ProgramsAreRun' /\ main'.entry # 0
    BY <1>2, <2>2, <2>3 DEF ProgramsAreRun, Entries
  <2>7. ASSUME i \notin overlap PROVE Doing(i)'
    <3>1. CASE main.terms = NotAsked /\ ~flag[i].valid
      BY <1>1, <2>2, <2>3, <3>1 DEF Doing, Ended
    <3>2. CASE /\ main.terms # NotAsked
               /\ flag[i].valid /\ monitoredObject[i] = main.terms.object
               /\ Addressed(i, main.terms.who)
               /\ flag[i].confirmed = main.terms.confirmed
      BY <1>1, <2>2, <2>3, <3>2 DEF Doing, Renewed, Addressed, RoomForAll
    <3>3. QED BY <1>4, <2>7, <3>1, <3>2
  <2>8. invokeID[i] \notin UsedIds(TSM_List')
    BY <2>1, <2>4
  <2>9. UsedIds(TSM_List') \subseteq UsedIds(TSM_List)
    BY <2>4
  <2>10. QED BY <1>1, <1>5, <2>3, <2>5, <2>6, <2>7, <2>8, <2>9, MainFrame
<1>7. CASE ~(invokeID[i] # 0 /\ (Head(main.todo) = "freeConfirmed" => flag[i].confirmed))
  <2>1. TSM_List' = TSM_List /\ Proceed(<< >>, NoFlags)
    BY <1>7
  <2>2. /\ cov' = cov /\ asked' \in [Entries -> Terms] /\ Current_Invoke_ID' = Current_Invoke_ID
        /\ main' \in Serving /\ main' = NoWork /\ asked'[i] = main.terms
        /\ \A j \in Entries \ {i} : asked'[j] = asked[j]
    BY <1>3, <2>1, Finishes
  <2>3. TypeOK' /\ AddressesAreUnique'
    BY <1>1, <2>1, <2>2 DEF IInv, TypeOK, AddressesAreUnique
  <2>4. ProgramsAreRun' /\ main'.entry = 0
    BY <2>2 DEF ProgramsAreRun, NoWork
  <2>5. ASSUME i \notin overlap PROVE Settled(i)'
    <3>1. CASE /\ main.terms = NotAsked /\ ~flag[i].valid
               /\ flag[i].confirmed \/ invokeID[i] = 0
      BY <1>1, <1>7, <2>2, <3>1 DEF Settled
    <3>2. CASE /\ main.terms # NotAsked
               /\ flag[i].valid /\ monitoredObject[i] = main.terms.object
               /\ Addressed(i, main.terms.who)
               /\ flag[i].confirmed = main.terms.confirmed
      <4>1. invokeID[i] = 0 /\ main.terms.who \in Subscribers
        BY <1>2, <1>7, <3>2, Statement
      <4>2. PICK who : who = main.terms.who
        OBVIOUS
      <4>3. Addressed(i, who)' /\ asked'[i].who = who
        BY <1>5, <2>2, <3>2, <4>2
      <4>4. QED BY <1>1, <2>2, <3>2, <4>1, <4>2, <4>3 DEF Settled, Addressed, RoomForAll
    <3>3. QED BY <1>4, <2>5, <3>1, <3>2
  <2>6. ~(Keeps(i) /\ invokeID[i] \in UsedIds(TSM_List'))
    <3> SUFFICES ASSUME Keeps(i), invokeID[i] \in UsedIds(TSM_List') PROVE FALSE
      OBVIOUS
    <3>1. invokeID[i] # 0
      BY DEF UsedIds
    <3>2. Head(main.todo) = "freeConfirmed" /\ ~flag[i].confirmed
      BY <1>7, <3>1
    <3>3. main.todo \notin ToEnd \cup ToInvalidate \cup ToRemove
            \cup {RenewProgram, RenewLoad, RenewConfirm, RenewLoadAgain, RenewRequest, Free}
      BY <3>2, Statement, StatementOfRenewal
    <3>4. QED BY <3>2, <3>3 DEF Keeps, KeptByRequest, Kept
  <2>7. QED BY <1>1, <1>5, <2>1, <2>2, <2>3, <2>4, <2>5, <2>6, MainFrame
<1>8. QED BY <1>6, <1>7

(* The last statement of a renewal, a cancellation or an expiry, or one of *)
(* a new subscription.                                                     *)
LEMMA ForgetStep ==
  ASSUME IInv, Watch, NEW i \in Entries, main.entry = i, Head(main.todo) = "forget",
         invokeID' = [invokeID EXCEPT ![i] = 0], Proceed(Tail(main.todo), NoFlags),
         UNCHANGED <<flag, dest_index, monitoredObject, COV_Addresses, TSM_List>>
  PROVE  IInv'
<1>1. \/ main.terms = NotAsked /\ main.todo = Forget
      \/ /\ main.terms # NotAsked /\ main.terms.who \in Subscribers
         /\ main.todo \in {Forget, NewForget}
  <2>1. ASSUME main.todo \in Ends PROVE main.todo = Forget
    BY <2>1, Statement DEF Ends
  <2>2. ASSUME main.todo \in Renews PROVE main.todo = Forget
    BY <2>2, Statement, StatementOfRenewal DEF Renews
  <2>3. ASSUME main.todo \in News PROVE main.todo = NewForget
    BY <2>3, StatementOfNew DEF News
  <2>4. QED BY <2>1, <2>2, <2>3, ProgramOf
<1>2. NoFlags \in Flags
  BY DEF NoFlags, Flags
<1>3. /\ invokeID' \in [Entries -> 0..MaxInvokeId] /\ invokeID'[i] = 0
      /\ \A j \in Entries \ {i} : invokeID'[j] = invokeID[j]
  BY TableAssumption DEF IInv, TypeOK
<1>4. \A w : \A j \in Entries : Addressed(j, w)' = Addressed(j, w)
  BY DEF Addressed, RoomForAll
<1>5. ~Keeps(i)
  BY Statement, StatementOfRenewal DEF Keeps, KeptByRequest
<1>6. ASSUME i \notin overlap
      PROVE  \/ main.terms = NotAsked /\ ~flag[i].valid
             \/ /\ main.terms # NotAsked
                /\ flag[i].valid /\ monitoredObject[i] = main.terms.object
                /\ Addressed(i, main.terms.who)
                /\ flag[i].confirmed = main.terms.confirmed
  <2>1. Doing(i)
    BY <1>6 DEF IInv, WorkIsDone
  <2>2. main.todo \notin ToEnd \cup ToInvalidate \cup ToRemove \cup ToFree
    BY Statement
  <2>3. main.todo \notin {RenewProgram, RenewLoad, RenewConfirm, RenewLoadAgain, RenewRequest,
                          NewProgram, NewValidate, NewAddress, NewObject, NewLoad, NewConfirm,
                          NewLoadAgain, NewRequest}
    BY StatementOfRenewal, StatementOfNew
  <2>4. CASE main.terms = NotAsked
    BY <2>1, <2>2, <2>4 DEF Doing, Ended
  <2>5. CASE main.terms # NotAsked
    <3>1. CASE Renewed(i)
      <4>1. main.todo # RenewProgram
        BY <2>3
      <4>2. QED BY <2>3, <2>5, <3>1, <4>1 DEF Renewed
    <3>2. CASE Added(i)
      BY <2>3, <2>5, <3>2 DEF Added
    <3>3. QED BY <2>1, <2>5, <3>1, <3>2 DEF Doing
  <2>6. QED BY <2>4, <2>5
<1>7. CASE main.todo = NewForget
  <2>1. PICK rest : rest = Tail(main.todo)
    OBVIOUS
  <2>2. rest = NewLoadAgain /\ rest \in News
    BY <1>7, <2>1, StatementOfNew DEF News
  <2>3. /\ cov' = cov /\ asked' = asked /\ Current_Invoke_ID' = Current_Invoke_ID
        /\ main' \in Serving /\ main'.entry = i /\ main'.todo = rest /\ main'.terms = main.terms
    BY <1>2, <2>1, <2>2, Continues
  <2>4. TypeOK' /\ AddressesAreUnique'
    BY <1>3, <2>3 DEF IInv, TypeOK, AddressesAreUnique
  <2>5. main.terms # NotAsked /\ main.terms.who \in Subscribers
    <3>1. NewForget # Forget
      BY Statement, StatementOfNew, MoreToDo DEF News
    <3>2. QED BY <1>1, <1>7, <3>1
  <2>6. ProgramsAreRun' /\ main'.entry # 0
    BY <2>2, <2>3, <2>5 DEF ProgramsAreRun, Entries
  <2>7. ASSUME i \notin overlap PROVE Doing(i)'
    BY <1>3, <1>6, <2>2, <2>3, <2>5, <2>7 DEF Doing, Added, Addressed, RoomForAll
  <2>8. QED BY <1>3, <1>4, <1>5, <2>3, <2>4, <2>6, <2>7, MainFrame
<1>8. CASE main.todo = Forget
  <2>1. Proceed(<< >>, NoFlags)
    <3>1. PICK rest : rest = Tail(main.todo)
      OBVIOUS
    <3>2. rest = << >> /\ Proceed(rest, NoFlags)
      BY <1>8, <3>1, Statement
    <3>3. QED BY <3>2
  <2>2. /\ cov' = cov /\ asked' \in [Entries -> Terms] /\ Current_Invoke_ID' = Current_Invoke_ID
        /\ main' \in Serving /\ main' = NoWork /\ asked'[i] = main.terms
        /\ \A j \in Entries \ {i} : asked'[j] = asked[j]
    BY <1>2, <2>1, Finishes
  <2>3. TypeOK' /\ AddressesAreUnique'
    BY <1>3, <2>2 DEF IInv, TypeOK, AddressesAreUnique
  <2>4. ProgramsAreRun' /\ main'.entry = 0
    BY <2>2 DEF ProgramsAreRun, NoWork
  <2>5. ASSUME i \notin overlap PROVE Settled(i)'
    <3>1. CASE main.terms = NotAsked /\ ~flag[i].valid
      BY <1>3, <2>2, <3>1 DEF Settled
    <3>2. CASE /\ main.terms # NotAsked
               /\ flag[i].valid /\ monitoredObject[i] = main.terms.object
               /\ Addressed(i, main.terms.who)
               /\ flag[i].confirmed = main.terms.confirmed
      <4>1. main.terms.who \in Subscribers
        BY <1>1, <3>2
      <4>2. PICK who : who = main.terms.who
        OBVIOUS
      <4>3. Addressed(i, who)' /\ asked'[i].who = who
        BY <1>4, <2>2, <3>2, <4>2
      <4>4. QED BY <1>3, <2>2, <3>2, <4>1, <4>2, <4>3 DEF Settled, Addressed, RoomForAll
    <3>3. QED BY <1>6, <2>5, <3>1, <3>2
  <2>6. QED BY <1>3, <1>4, <1>5, <2>2, <2>3, <2>4, <2>5, MainFrame
<1>9. QED BY <1>1, <1>7, <1>8

(* Every statement of the main thread preserves the invariant.             *)
LEMMA ExecuteStep ==
  ASSUME IInv, Watch, main.entry # 0, Execute(Head(main.todo), main.entry, Tail(main.todo))
  PROVE  IInv'
<1>1. PICK i : i = main.entry
  OBVIOUS
<1>2. PICK op, rest : op = Head(main.todo) /\ rest = Tail(main.todo)
  OBVIOUS
<1>3. i \in Entries
  BY <1>1 DEF IInv, TypeOK, Serving
<1>4. Execute(op, i, rest)
  BY <1>1, <1>2
<1>5. CASE /\ op = "load"
           /\ Proceed(rest, flag[i])
           /\ UNCHANGED <<fields, TSM_List>>
  BY <1>1, <1>2, <1>3, <1>5, LoadStep
<1>6. CASE /\ op \in {"invalidate", "validate", "confirm", "request"}
           /\ flag' = [flag EXCEPT ![i] = Stored(op)]
           /\ Proceed(rest, NoFlags)
           /\ UNCHANGED <<dest_index, invokeID, monitoredObject, COV_Addresses, TSM_List>>
  <2>1. CASE op = "invalidate"
    BY <1>1, <1>2, <1>3, <1>6, <2>1, InvalidateStep
  <2>2. CASE op = "validate"
    BY <1>1, <1>2, <1>3, <1>6, <2>2, ValidateStep
  <2>3. CASE op = "confirm"
    BY <1>1, <1>2, <1>3, <1>6, <2>3, ConfirmStep
  <2>4. CASE op = "request"
    BY <1>1, <1>2, <1>3, <1>6, <2>4, RequestStep
  <2>5. QED BY <1>6, <2>1, <2>2, <2>3, <2>4
<1>7. CASE /\ op = "addAddress" /\ AddAddress(i, main.terms.who)
           /\ Proceed(rest, NoFlags)
           /\ UNCHANGED <<flag, invokeID, monitoredObject, TSM_List>>
  BY <1>1, <1>2, <1>3, <1>7, AddAddressStep
<1>8. CASE /\ op = "removeAddress" /\ RemoveAddress(i)
           /\ Proceed(rest, NoFlags)
           /\ UNCHANGED <<flag, invokeID, monitoredObject, TSM_List>>
  BY <1>1, <1>2, <1>3, <1>8, RemoveAddressStep
<1>9. CASE /\ op = "setObject"
           /\ monitoredObject' = [monitoredObject EXCEPT ![i] = main.terms.object]
           /\ Proceed(rest, NoFlags)
           /\ UNCHANGED <<flag, dest_index, invokeID, COV_Addresses, TSM_List>>
  BY <1>1, <1>2, <1>3, <1>9, SetObjectStep
<1>10. CASE /\ op \in {"free", "freeConfirmed"}
            /\ IF invokeID[i] # 0 /\ (op = "freeConfirmed" => flag[i].confirmed)
               THEN Proceed(rest, NoFlags) /\ TSM_List' = FreeInvokeId(TSM_List, invokeID[i])
               ELSE Proceed(<< >>, NoFlags) /\ UNCHANGED TSM_List
            /\ UNCHANGED fields
  BY <1>1, <1>2, <1>3, <1>10, FreeStep
<1>11. CASE /\ op = "forget"
            /\ invokeID' = [invokeID EXCEPT ![i] = 0]
            /\ Proceed(rest, NoFlags)
            /\ UNCHANGED <<flag, dest_index, monitoredObject, COV_Addresses, TSM_List>>
  BY <1>1, <1>2, <1>3, <1>11, ForgetStep
<1>12. QED
  BY <1>4, <1>5, <1>6, <1>7, <1>8, <1>9, <1>10, <1>11 DEF Execute

(* A request is begun for an entry in use, or for an unused one.           *)
LEMMA BeginStep ==
  ASSUME IInv, Watch, main.entry = 0, NEW i \in Entries, NEW program, NEW terms \in Terms,
         Begin(i, program, terms),
         \/ program \in ToEnd /\ terms = NotAsked /\ flag[i].valid
         \/ /\ program = RenewProgram /\ terms.who \in Subscribers
            /\ flag[i].valid /\ monitoredObject[i] = terms.object
         \/ program = NewProgram /\ terms.who \in Subscribers /\ ~flag[i].valid
  PROVE  IInv'
<1>1. /\ main' = [entry |-> i, todo |-> program, terms |-> terms, byte |-> NoFlags]
      /\ UNCHANGED <<flag, dest_index, invokeID, monitoredObject, COV_Addresses,
                     TSM_List, Current_Invoke_ID, cov, asked>>
  BY DEF Begin, fields, table
<1>2. /\ main'.entry = i /\ main'.todo = program /\ main'.terms = terms /\ i # 0
      /\ program \in Ends \cup Renews \cup News
  BY <1>1 DEF Entries, Ends, Renews, News
<1>3. /\ \A j \in overlap \ overlap' : j = i /\ program = NewProgram
      /\ Together(main', cov) \subseteq overlap'
      /\ \A id \in UsedIds(TSM_List) \ stray' : id \notin stray
      /\ cov.sweep = "send" /\ cov.index \in overlap' /\ cov.id # 0 => cov.id \in stray'
  BY <1>1, <1>2 DEF Watch
<1>4. Inside(i) => i \in overlap'
  BY <1>2, <1>3 DEF Inside, Together
<1>5. TypeOK'
  <2>1. main' \in Serving
    BY <1>1, <1>2 DEF Serving, NoFlags, Flags
  <2>2. QED BY <1>1, <2>1 DEF IInv, TypeOK
<1>6. SweepsAreSeparate' /\ AddressesAreUnique' /\ DroppedIdsAreFree'
  BY <1>1 DEF IInv, SweepsAreSeparate, AddressesAreUnique, DroppedIdsAreFree
<1>7. ProgramsAreRun'
  BY <1>2 DEF ProgramsAreRun, Ends, Renews, News
<1>8. OverlapsAreSeen'
  BY <1>1, <1>2, <1>4 DEF OverlapsAreSeen, Inside
<1>9. EntriesAreSettled'
  <2> SUFFICES ASSUME NEW j \in Entries, j \notin overlap', j # main'.entry PROVE Settled(j)'
    BY DEF EntriesAreSettled
  <2>1. Settled(j)
    BY <1>2, <1>3 DEF IInv, EntriesAreSettled, Entries
  <2>2. QED BY <1>1, <2>1 DEF Settled, Addressed, RoomForAll
<1>10. WorkIsDone'
  <2> SUFFICES ASSUME i \notin overlap' PROVE Doing(i)'
    BY <1>2 DEF WorkIsDone
  <2>1. CASE program = NewProgram
    <3>1. terms.who \in Subscribers
      BY <2>1, OtherPrograms
    <3>2. terms # NotAsked
      BY <3>1, CovRaceAssumption DEF NotAsked
    <3>3. QED BY <1>2, <2>1, <3>2 DEF Doing, Added
  <2>2. CASE program # NewProgram
    <3>1. Settled(i)
      BY <1>2, <1>3, <2>2 DEF IInv, EntriesAreSettled
    <3>2. flag[i].valid
      BY <2>2
    <3>3. flag[i].confirmed \/ invokeID[i] = 0
      BY <3>1, <3>2 DEF Settled
    <3>4. CASE program \in ToEnd /\ terms = NotAsked
      BY <1>1, <1>2, <3>3, <3>4 DEF Doing, Ended
    <3>5. CASE /\ program = RenewProgram /\ terms.who \in Subscribers
               /\ monitoredObject[i] = terms.object
      BY <1>1, <1>2, <3>2, <3>5, CovRaceAssumption DEF Doing, Renewed, NotAsked
    <3>6. QED BY <2>2, <3>4, <3>5
  <2>3. QED BY <2>1, <2>2
<1>11. LoadsAreCurrent'
  <2> SUFFICES ASSUME NEW j \in Entries, j \notin overlap', Inside(j)' PROVE Current(j)'
    BY DEF LoadsAreCurrent
  <2>1. Inside(j) /\ j \notin overlap
    BY <1>1, <1>3, <1>4 DEF Inside
  <2>2. Current(j)
    BY <2>1 DEF IInv, LoadsAreCurrent
  <2>3. QED BY <1>1, <2>2 DEF Current
<1>12. EveryIdIsKept'
  <2> SUFFICES ASSUME NEW id \in UsedIds(TSM_List) \ stray'
               PROVE  Sending(id)' \/ \E j \in Entries : invokeID[j] = id /\ Keeps(j)'
    BY <1>1 DEF EveryIdIsKept
  <2>1. id \in UsedIds(TSM_List) \ stray /\ id # 0
    BY <1>3 DEF UsedIds
  <2>2. CASE Sending(id)
    BY <1>1, <1>3, <2>1, <2>2 DEF Sending
  <2>3. ASSUME NEW j \in Entries, invokeID[j] = id, Keeps(j) PROVE Keeps(j)'
    <3>1. j # main.entry
      BY DEF Entries
    <3>2. CASE j = i
      <4>1. Kept(i) /\ flag[i].valid /\ ~(cov.index = i /\ cov.pc = "storeId")
        BY <2>3, <3>1, <3>2 DEF Keeps
      <4>2. Kept(i)' /\ ~(cov.index = i /\ cov.pc = "storeId")'
        BY <1>1, <4>1 DEF Kept, Loaded, Composes
      <4>3. main'.entry = i /\ main'.todo \in ToEnd \cup {RenewProgram}
        BY <1>2, <4>1
      <4>4. KeptByRequest(i)'
        BY <4>2, <4>3 DEF KeptByRequest
      <4>5. QED BY <3>2, <4>2, <4>3, <4>4 DEF Keeps
    <3>3. CASE j # i
      BY <1>1, <1>2, <2>3, <3>1, <3>3 DEF Keeps, Kept, Loaded, Composes
    <3>4. QED BY <3>2, <3>3
  <2>4. QED BY <2>1, <2>2, <2>3 DEF IInv, EveryIdIsKept
<1>13. QED
  BY <1>5, <1>6, <1>7, <1>8, <1>9, <1>10, <1>11, <1>12 DEF IInv

-----------------------------------------------------------------------------
(* A step that leaves the main thread alone, where the COV thread is at i. *)
LEMMA OtherFrame ==
  ASSUME IInv, Watch, TypeOK', SweepsAreSeparate', DroppedIdsAreFree',
         UNCHANGED <<main, asked, dest_index, monitoredObject, COV_Addresses>>,
         NEW i \in Entries, cov.index = i, cov'.pc # "enter" => cov'.index = i,
         \A j \in Entries : ~Inside(j) => flag'[j] = flag[j] /\ invokeID'[j] = invokeID[j],
         i \notin overlap /\ i # main.entry /\ Settled(i) /\ (Inside(i) => Current(i)) =>
           Settled(i)' /\ (cov'.pc # "enter" => Current(i)'),
         \A id \in UsedIds(TSM_List') \ UsedIds(TSM_List) : cov'.sweep = "send" /\ cov'.id = id,
         cov.sweep = "send" /\ cov.id # 0 =>
           \/ cov'.sweep = "send" /\ cov'.id = cov.id
           \/ i \notin overlap => invokeID'[i] = cov.id /\ Keeps(i)',
         Keeps(i) /\ invokeID[i] \in UsedIds(TSM_List') =>
           Keeps(i)' /\ invokeID'[i] = invokeID[i]
  PROVE  IInv'
<1>1. main.entry # 0 \/ main'.todo # NewProgram
  BY OtherPrograms DEF IInv, ProgramsAreRun, NoWork
<1>2. /\ overlap \subseteq overlap' /\ Together(main', cov') \subseteq overlap'
      /\ overlap' = overlap \cup Together(main', cov')
      /\ \A id \in UsedIds(TSM_List') \ stray' : id \notin stray
      /\ cov'.sweep = "send" /\ cov'.index \in overlap' /\ cov'.id # 0 => cov'.id \in stray'
  BY <1>1, WatchEffect
<1>3. ProgramsAreRun' /\ AddressesAreUnique'
  BY DEF IInv, ProgramsAreRun, AddressesAreUnique
<1>4. OverlapsAreSeen'
  BY <1>2 DEF OverlapsAreSeen, Inside, Together
<1>5. \A j \in Entries : Inside(j) => j = i
  BY DEF Inside
<1>6. \A j \in Entries : j = main.entry /\ Inside(j) => j \in overlap
  BY DEF IInv, OverlapsAreSeen, Entries
<1>7. \A j \in Entries \ (overlap \cup {main.entry}) :
        Settled(j) /\ (Inside(j) => Current(j))
  BY DEF IInv, EntriesAreSettled, LoadsAreCurrent
<1>8. EntriesAreSettled'
  <2> SUFFICES ASSUME NEW j \in Entries, j \notin overlap', j # main'.entry PROVE Settled(j)'
    BY DEF EntriesAreSettled
  <2>1. j \notin overlap /\ j # main.entry /\ Settled(j) /\ (Inside(j) => Current(j))
    BY <1>2, <1>7
  <2>2. CASE j = i
    BY <2>1, <2>2
  <2>3. CASE j # i
    <3>1. ~Inside(j)
      BY <1>5, <2>3
    <3>2. flag'[j] = flag[j] /\ invokeID'[j] = invokeID[j]
      BY <3>1
    <3>3. QED BY <2>1, <3>2 DEF Settled, Addressed, RoomForAll
  <2>4. QED BY <2>2, <2>3
<1>9. WorkIsDone'
  <2> SUFFICES ASSUME NEW j \in Entries, j \notin overlap', main'.entry = j PROVE Doing(j)'
    BY DEF WorkIsDone
  <2>1. j \notin overlap /\ main.entry = j
    BY <1>2
  <2>2. flag'[j] = flag[j] /\ invokeID'[j] = invokeID[j]
    BY <1>6, <2>1
  <2>3. Doing(j)
    BY <2>1 DEF IInv, WorkIsDone
  <2>4. QED BY <2>2, <2>3 DEF Doing, Ended, Renewed, Added, Addressed, RoomForAll
<1>10. LoadsAreCurrent'
  <2> SUFFICES ASSUME NEW j \in Entries, j \notin overlap', Inside(j)' PROVE Current(j)'
    BY DEF LoadsAreCurrent
  <2>1. j = i /\ cov'.pc # "enter"
    BY DEF Inside
  <2>2. i \notin overlap /\ i # main.entry
    <3>1. Together(main', cov') = {} \/ i # main.entry
      BY <1>2, <2>1 DEF Together
    <3>2. i = main.entry => Together(main', cov') = {i}
      BY <2>1 DEF Together
    <3>3. QED BY <1>2, <2>1, <3>1, <3>2
  <2>3. QED BY <1>7, <2>1, <2>2
<1>11. EveryIdIsKept'
  <2> SUFFICES ASSUME NEW id \in UsedIds(TSM_List') \ stray'
               PROVE  Sending(id)' \/ \E j \in Entries : invokeID'[j] = id /\ Keeps(j)'
    BY DEF EveryIdIsKept
  <2>1. id \notin stray /\ id # 0
    BY <1>2 DEF UsedIds
  <2>2. cov'.sweep = "send" /\ cov'.id = id => Sending(id)'
    BY <1>2, <2>1 DEF Sending
  <2>3. CASE id \notin UsedIds(TSM_List)
    BY <2>2, <2>3
  <2>4. CASE Sending(id)
    <3>1. cov.sweep = "send" /\ cov.id = id /\ i \notin overlap
      BY <2>4 DEF Sending
    <3>2. QED BY <2>1, <2>2, <3>1
  <2>5. ASSUME NEW j \in Entries, invokeID[j] = id, Keeps(j)
        PROVE  invokeID'[j] = id /\ Keeps(j)'
    <3>1. CASE j = i
      BY <2>5, <3>1
    <3>2. CASE j # i
      <4>1. flag'[j] = flag[j] /\ invokeID'[j] = invokeID[j]
        BY <1>5, <3>2
      <4>2. ~Loaded(j)' /\ ~Composes(j)' /\ ~(cov.index = j /\ cov.pc = "storeId")'
        BY <3>2 DEF Loaded, Composes, Composing
      <4>3. ~Loaded(j) /\ ~Composes(j)
        BY <3>2 DEF Loaded, Composes
      <4>4. QED BY <2>5, <4>1, <4>2, <4>3 DEF Keeps, KeptByRequest, Kept
    <3>3. QED BY <3>1, <3>2
  <2>6. QED BY <2>1, <2>3, <2>4, <2>5 DEF IInv, EveryIdIsKept
<1>12. QED
  BY <1>3, <1>4, <1>8, <1>9, <1>10, <1>11 DEF IInv

(* The answer to a notification, and the loss of one.                      *)
LEMMA AnswerStep ==
  ASSUME IInv, Watch, NEW id, Answer(id)
  PROVE  IInv'
<1>1. UNCHANGED <<flag, dest_index, invokeID, monitoredObject, COV_Addresses,
                  Current_Invoke_ID, main, cov, asked>>
  BY DEF Answer, fields
<1>2. TSM_List' \in [Slots -> Entry] /\ UsedIds(TSM_List') = UsedIds(TSM_List) \ {id}
  <2>1. PICK list \in [Slots -> Entry] : list = TSM_List
    BY DEF IInv, TypeOK
  <2>2. TSM_List' = FreeInvokeId(list, id)
    BY <2>1 DEF Answer
  <2>3. QED BY <2>1, <2>2, FreeUsed
<1>3. PICK i \in Entries : i = cov.index
  BY DEF IInv, TypeOK, Sweeping
<1>4. TypeOK' /\ SweepsAreSeparate' /\ DroppedIdsAreFree'
  BY <1>1, <1>2 DEF IInv, TypeOK, SweepsAreSeparate, DroppedIdsAreFree
<1>5. /\ Settled(i)' = Settled(i) /\ Keeps(i)' = Keeps(i) /\ Current(i)' = Current(i)
      /\ cov'.pc # "enter" => Inside(i)
  BY <1>1, <1>3 DEF Settled, Addressed, RoomForAll, Keeps, KeptByRequest, Kept, Loaded, Composes,
                    Current, Inside
<1>6. QED BY <1>1, <1>2, <1>3, <1>4, <1>5, OtherFrame

(* A notification, or its answer, is lost.                                 *)
LEMMA LoseStep ==
  ASSUME IInv, Watch, NEW id, Lose(id)
  PROVE  IInv'
<1>1. UNCHANGED <<flag, dest_index, invokeID, monitoredObject, COV_Addresses,
                  TSM_List, Current_Invoke_ID, main, cov, asked>>
  BY DEF Lose, fields, table
<1>2. PICK i \in Entries : i = cov.index
  BY DEF IInv, TypeOK, Sweeping
<1>3. TypeOK' /\ SweepsAreSeparate' /\ DroppedIdsAreFree'
  BY <1>1 DEF IInv, TypeOK, SweepsAreSeparate, DroppedIdsAreFree
<1>4. /\ Settled(i)' = Settled(i) /\ Keeps(i)' = Keeps(i) /\ Current(i)' = Current(i)
      /\ cov'.pc # "enter" => Inside(i)
  BY <1>1, <1>2 DEF Settled, Addressed, RoomForAll, Keeps, KeptByRequest, Kept, Loaded, Composes,
                    Current, Inside
<1>5. QED BY <1>1, <1>2, <1>3, <1>4, OtherFrame

-----------------------------------------------------------------------------
(* The statements of the COV thread.                                       *)

(* The sweep goes on to the next entry, or to the next sweep.              *)
LEMMA AdvanceEffect ==
  ASSUME IInv, Advance
  PROVE  /\ cov' \in Sweeping /\ SweepsAreSeparate' /\ DroppedIdsAreFree'
         /\ cov'.pc = "enter" /\ cov'.id = 0
<1>1. cov.index \in Entries /\ cov.sweep \in {"mark", "free", "send"}
  BY DEF IInv, TypeOK, Sweeping
<1>2. PICK sweep \in {"mark", "free", "send"}, j \in Entries : cov' = AtEntry(sweep, j)
  <2>1. 1 \in Entries /\ (cov.index < MaxSubscriptions => cov.index + 1 \in Entries)
    BY <1>1, CovRaceAssumption DEF Entries
  <2>2. CASE cov.index < MaxSubscriptions
    BY <1>1, <2>1, <2>2 DEF Advance, NextEntry
  <2>3. CASE ~(cov.index < MaxSubscriptions)
    <3>1. PICK next : next = CASE cov.sweep = "mark" -> "free" [] cov.sweep = "free" -> "send"
                               [] OTHER -> "mark"
      OBVIOUS
    <3>2. next \in {"mark", "free", "send"}
      BY <3>1
    <3>3. cov' = AtEntry(next, 1)
      BY <2>3, <3>1 DEF Advance, NextEntry
    <3>4. QED BY <2>1, <3>2, <3>3
  <2>4. QED BY <2>2, <2>3
<1>3. cov'.pc = "enter" /\ cov'.id = 0
  BY <1>2 DEF AtEntry
<1>4. cov' \in Sweeping
  BY <1>2, CovRaceAssumption, TableAssumption
  DEF AtEntry, Sweeping, Statements, NoFlags, Flags, NoSlot
<1>5. QED BY <1>3, <1>4 DEF SweepsAreSeparate, DroppedIdsAreFree, Marking, Freeing, Composing,
                            Identified

(* Where the COV thread stands, without the other fields of its state.     *)
LEMMA Position ==
  ASSUME IInv
  PROVE  /\ cov \in Sweeping
         /\ cov.pc \in {"enter"} \cup Marking \cup Composing => cov.id = 0
         /\ cov.pc \in Marking => cov.sweep = "mark"
         /\ cov.pc \in Freeing => cov.sweep = "free"
         /\ cov.pc \in Composing \cup Identified => cov.sweep = "send"
BY DEF IInv, TypeOK, SweepsAreSeparate

(* A statement that writes no field of the entry and no transaction.       *)
LEMMA QuietStep ==
  ASSUME IInv, Watch, NothingWritten, UNCHANGED <<main, asked>>,
         cov' \in Sweeping, SweepsAreSeparate', DroppedIdsAreFree',
         NEW i \in Entries, cov.index = i, cov'.pc # "enter" => cov'.index = i,
         i \notin overlap /\ i # main.entry /\ Settled(i) /\ (Inside(i) => Current(i)) =>
           (cov'.pc # "enter" => Current(i)'),
         cov.sweep = "send" /\ cov.id # 0 =>
           \/ cov'.sweep = "send" /\ cov'.id = cov.id
           \/ i \notin overlap => invokeID[i] = cov.id /\ Keeps(i)',
         Keeps(i) /\ invokeID[i] \in UsedIds(TSM_List) => Keeps(i)'
  PROVE  IInv'
<1>1. UNCHANGED <<flag, dest_index, invokeID, monitoredObject, COV_Addresses,
                  TSM_List, Current_Invoke_ID>>
  BY DEF NothingWritten, fields, table
<1>2. TypeOK'
  BY <1>1 DEF IInv, TypeOK
<1>3. Settled(i)' = Settled(i)
  BY <1>1 DEF Settled, Addressed, RoomForAll
<1>4. QED BY <1>1, <1>2, <1>3, OtherFrame

(* The sweep looks at an entry, and takes it up or not.                    *)
LEMMA EnterStep ==
  ASSUME IInv, Watch, UNCHANGED <<main, asked>>, NEW i \in Entries, cov.index = i, Enter(i)
  PROVE  IInv'
<1>1. cov.pc = "enter" /\ cov.id = 0 /\ NothingWritten /\ cov \in Sweeping
  BY Position DEF Enter
<1>2. UNCHANGED <<flag, dest_index, invokeID, monitoredObject, COV_Addresses,
                  TSM_List, Current_Invoke_ID>>
  BY <1>1 DEF NothingWritten, fields, table
<1>3. ~Loaded(i) /\ ~Composes(i) /\ ~(cov.index = i /\ cov.pc = "storeId")
  BY <1>1 DEF Loaded, Composes, Composing
<1>4. CASE Advance
  <2>1. cov' \in Sweeping /\ SweepsAreSeparate' /\ DroppedIdsAreFree' /\ cov'.pc = "enter"
    BY <1>4, AdvanceEffect
  <2>2. ~Loaded(i)' /\ ~Composes(i)' /\ ~(cov.index = i /\ cov.pc = "storeId")'
    BY <2>1 DEF Loaded, Composes, Composing
  <2>3. Keeps(i) => Keeps(i)'
    BY <1>2, <1>3, <2>2 DEF Keeps, KeptByRequest, Kept
  <2>4. QED BY <1>1, <2>1, <2>3, QuietStep
<1>5. CASE cov.sweep = "mark" /\ flag[i].valid /\ Goto("loadMark")
  <2>1. cov' = [cov EXCEPT !.pc = "loadMark"]
    BY <1>5 DEF Goto
  <2>2. cov' \in Sweeping /\ cov'.pc = "loadMark" /\ cov'.index = i /\ cov'.id = 0
        /\ cov'.sweep = "mark"
    BY <1>1, <1>5, <2>1 DEF Sweeping, Statements, Marking
  <2>3. SweepsAreSeparate' /\ DroppedIdsAreFree'
    BY <2>2 DEF SweepsAreSeparate, DroppedIdsAreFree, Marking, Freeing, Composing, Identified
  <2>4. Settled(i) => Current(i)'
    BY <1>2, <1>5, <2>2 DEF Settled, Current, Identified
  <2>5. ~Loaded(i)' /\ ~Composes(i)' /\ ~(cov.index = i /\ cov.pc = "storeId")'
    BY <2>2 DEF Loaded, Composes, Composing
  <2>6. Keeps(i) => Keeps(i)'
    BY <1>2, <1>3, <2>5 DEF Keeps, KeptByRequest, Kept
  <2>7. QED BY <1>1, <2>2, <2>3, <2>4, <2>6, QuietStep
<1>6. CASE /\ cov.sweep = "free" /\ flag[i].valid /\ flag[i].confirmed /\ invokeID[i] # 0
           /\ cov' = [cov EXCEPT !.pc = "test", !.id = invokeID[i]]
  <2>1. invokeID[i] \in 0..MaxInvokeId
    BY DEF IInv, TypeOK
  <2>2. cov' \in Sweeping /\ cov'.pc = "test" /\ cov'.index = i /\ cov'.id = invokeID[i]
        /\ cov'.sweep = "free"
    BY <1>1, <1>6, <2>1 DEF Sweeping, Statements, Freeing
  <2>3. SweepsAreSeparate' /\ DroppedIdsAreFree'
    BY <1>2, <2>2 DEF SweepsAreSeparate, DroppedIdsAreFree, Marking, Freeing, Composing, Identified
  <2>4. Settled(i) => Current(i)'
    BY <1>2, <1>6, <2>2 DEF Settled, Current, Identified
  <2>5. ~Loaded(i)' /\ ~Composes(i)' /\ ~(cov.index = i /\ cov.pc = "storeId")'
    BY <2>2 DEF Loaded, Composes, Composing
  <2>6. Keeps(i) => Keeps(i)'
    BY <1>2, <1>3, <2>5 DEF Keeps, KeptByRequest, Kept
  <2>7. QED BY <1>1, <2>2, <2>3, <2>4, <2>6, QuietStep
<1>7. CASE cov.sweep = "send" /\ CanSend(i) /\ Goto("encodeValue")
  <2>1. cov' = [cov EXCEPT !.pc = "encodeValue"]
    BY <1>7 DEF Goto
  <2>2. cov' \in Sweeping /\ cov'.pc = "encodeValue" /\ cov'.index = i /\ cov'.id = 0
        /\ cov'.sweep = "send"
    BY <1>1, <1>7, <2>1 DEF Sweeping, Statements, Composing
  <2>3. SweepsAreSeparate' /\ DroppedIdsAreFree'
    BY <2>2 DEF SweepsAreSeparate, DroppedIdsAreFree, Marking, Freeing, Composing, Identified
  <2>4. flag[i].valid /\ (flag[i].confirmed => invokeID[i] = 0)
    BY <1>7 DEF CanSend
  <2>5. Settled(i) => Current(i)'
    BY <1>2, <2>2, <2>4 DEF Settled, Current, Identified
  <2>6. ~Loaded(i)' /\ Composes(i)' /\ ~(cov.index = i /\ cov.pc = "storeId")'
    BY <2>2 DEF Loaded, Composes, Composing
  <2>7. ASSUME Keeps(i), invokeID[i] \in UsedIds(TSM_List) PROVE Keeps(i)'
    <3>1. ~flag[i].confirmed
      BY <2>4, <2>7 DEF UsedIds
    <3>2. ~Kept(i)
      BY <3>1 DEF Kept
    <3>3. main.entry = i /\ KeptByRequest(i) /\ main.todo \in {RenewLoadAgain, RenewRequest, Free}
      BY <2>7, <3>2 DEF Keeps, KeptByRequest
    <3>4. KeptByRequest(i)'
      BY <1>2, <2>6, <3>1, <3>2, <3>3 DEF KeptByRequest
    <3>5. QED BY <2>6, <3>3, <3>4 DEF Keeps
  <2>8. QED BY <1>1, <2>2, <2>3, <2>5, <2>7, QuietStep
<1>8. QED BY <1>4, <1>5, <1>6, <1>7 DEF Enter

(* send_requested is read, to be set or cleared.                           *)
LEMMA LoadFlagStep ==
  ASSUME IInv, Watch, UNCHANGED <<main, asked>>, NEW i \in Entries, cov.index = i, LoadFlag(i)
  PROVE  IInv'
<1>1. NothingWritten /\ cov \in Sweeping
  BY Position DEF LoadFlag
<1>2. UNCHANGED <<flag, dest_index, invokeID, monitoredObject, COV_Addresses,
                  TSM_List, Current_Invoke_ID>>
  BY <1>1 DEF NothingWritten, fields, table
<1>3. PICK pc : /\ \/ pc = "mark" /\ cov.pc = "loadMark"
                   \/ pc = "sent" /\ cov.pc = "loadSent"
                /\ cov' = [cov EXCEPT !.pc = pc, !.byte = flag[i]]
  BY DEF LoadFlag
<1>4. flag[i] \in Flags
  BY DEF IInv, TypeOK
<1>5. /\ cov' \in Sweeping /\ cov'.pc = pc /\ cov'.byte = flag[i]
      /\ cov'.index = i /\ cov'.id = cov.id /\ cov'.sweep = cov.sweep
      /\ cov'.value = cov.value /\ cov'.dest = cov.dest /\ cov'.object = cov.object
  <2>1. pc \in Statements
    BY <1>3 DEF Statements, Marking, Identified
  <2>2. QED BY <1>1, <1>3, <1>4, <2>1 DEF Sweeping
<1>6. SweepsAreSeparate' /\ DroppedIdsAreFree'
  BY <1>3, <1>5, Position
  DEF SweepsAreSeparate, DroppedIdsAreFree, Marking, Freeing, Composing, Identified
<1>7. ASSUME Current(i) PROVE Current(i)'
  BY <1>2, <1>3, <1>5, <1>7 DEF Current, Identified
<1>8. Inside(i)
  BY <1>3 DEF Inside
<1>9. ~Loaded(i) /\ ~Composes(i) /\ ~(cov.index = i /\ cov.pc = "storeId")
  BY <1>3 DEF Loaded, Composes, Composing
<1>10. ~Composes(i)' /\ ~(cov.index = i /\ cov.pc = "storeId")'
  BY <1>3, <1>5 DEF Composes, Composing
<1>11. Keeps(i) => Keeps(i)'
  BY <1>2, <1>5, <1>9, <1>10 DEF Keeps, KeptByRequest, Kept
<1>12. QED BY <1>1, <1>5, <1>6, <1>7, <1>8, <1>11, QuietStep

(* The ID of a confirmed subscription is looked up in the table.           *)
LEMMA TestIdStep ==
  ASSUME IInv, Watch, UNCHANGED <<main, asked>>, NEW i \in Entries, cov.index = i, TestId(i)
  PROVE  IInv'
<1>1. cov.pc = "test" /\ NothingWritten /\ cov \in Sweeping /\ cov.sweep = "free"
  BY Position DEF TestId, Freeing
<1>2. UNCHANGED <<flag, dest_index, invokeID, monitoredObject, COV_Addresses,
                  TSM_List, Current_Invoke_ID>>
  BY <1>1 DEF NothingWritten, fields, table
<1>3. ~Loaded(i) /\ ~Composes(i) /\ Inside(i)
  BY <1>1 DEF Loaded, Composes, Composing, Inside
<1>4. CASE Advance
  <2>1. cov' \in Sweeping /\ SweepsAreSeparate' /\ DroppedIdsAreFree' /\ cov'.pc = "enter"
    BY <1>4, AdvanceEffect
  <2>2. ~Loaded(i)' /\ ~Composes(i)' /\ ~(cov.index = i /\ cov.pc = "storeId")'
    BY <2>1 DEF Loaded, Composes, Composing
  <2>3. Keeps(i) => Keeps(i)'
    BY <1>2, <1>3, <2>2 DEF Keeps, KeptByRequest, Kept
  <2>4. QED BY <1>1, <2>1, <2>3, QuietStep
<1>5. ASSUME NEW pc \in {"dropId", "freeId"}, Goto(pc),
             pc = "dropId" => InvokeIdFree(TSM_List, cov.id)
      PROVE  IInv'
  <2>1. cov' = [cov EXCEPT !.pc = pc]
    BY <1>5 DEF Goto
  <2>2. cov' \in Sweeping /\ cov'.pc = pc /\ cov'.index = i /\ cov'.sweep = "free"
    <3>1. pc \in Statements
      BY DEF Statements, Freeing
    <3>2. QED BY <1>1, <2>1, <3>1 DEF Sweeping
  <2>3. pc = "dropId" => invokeID[i] \notin UsedIds(TSM_List)
    <3>1. invokeID[i] \in {0, cov.id}
      BY <1>1 DEF IInv, DroppedIdsAreFree
    <3>2. InvokeIdFree(TSM_List, cov.id) => cov.id \notin UsedIds(TSM_List)
      BY DEF InvokeIdFree, UsedIds
    <3>3. QED BY <1>5, <3>1, <3>2 DEF UsedIds
  <2>4. SweepsAreSeparate' /\ DroppedIdsAreFree'
    BY <1>2, <2>2, <2>3
    DEF SweepsAreSeparate, DroppedIdsAreFree, Marking, Freeing, Composing, Identified
  <2>5. Current(i) => Current(i)'
    BY <1>2, <2>2 DEF Current, Identified
  <2>6. ~Loaded(i)' /\ ~Composes(i)' /\ ~(cov.index = i /\ cov.pc = "storeId")'
    BY <2>2 DEF Loaded, Composes, Composing
  <2>7. Keeps(i) => Keeps(i)'
    BY <1>2, <1>3, <2>6 DEF Keeps, KeptByRequest, Kept
  <2>8. QED BY <1>1, <1>3, <2>2, <2>4, <2>5, <2>7, QuietStep
<1>6. QED BY <1>4, <1>5 DEF TestId

(* After the last statement of a notification, the entry keeps the ID.     *)
LEMMA SentIsKept ==
  ASSUME IInv, NEW i \in Entries, cov.index = i, cov.pc \in {"send", "sent"}, cov.id # 0,
         i \notin overlap
  PROVE  /\ invokeID[i] = cov.id /\ i # main.entry
         /\ asked[i].confirmed /\ flag[i].valid /\ flag[i].confirmed
         /\ cov.pc = "sent" => cov.byte = flag[i]
<1>1. Inside(i) /\ i # 0
  BY DEF Inside, Entries
<1>2. Current(i) /\ i # main.entry
  BY <1>1 DEF IInv, LoadsAreCurrent, OverlapsAreSeen
<1>3. Settled(i)
  BY <1>2 DEF IInv, EntriesAreSettled
<1>4. asked[i] # NotAsked /\ asked[i].confirmed /\ invokeID[i] = cov.id
  BY <1>2 DEF Current, Identified
<1>5. QED BY <1>2, <1>3, <1>4 DEF Current, Settled

(* The byte is stored as it was loaded, but for send_requested.            *)
LEMMA StoreFlagStep ==
  ASSUME IInv, Watch, UNCHANGED <<main, asked>>, NEW i \in Entries, cov.index = i, StoreFlag(i)
  PROVE  IInv'
<1>1. /\ cov.pc \in {"mark", "sent"} /\ cov \in Sweeping /\ Advance
      /\ UNCHANGED <<dest_index, invokeID, monitoredObject, COV_Addresses,
                     TSM_List, Current_Invoke_ID>>
  BY Position DEF StoreFlag, table
<1>2. PICK b : b = [cov.byte EXCEPT !.requested = (cov.pc = "mark")]
  OBVIOUS
<1>3. b \in Flags /\ b.valid = cov.byte.valid /\ b.confirmed = cov.byte.confirmed
  <2>1. cov.byte \in Flags
    BY <1>1 DEF Sweeping
  <2>2. QED BY <1>2, <2>1 DEF Flags
<1>4. flag' = [flag EXCEPT ![i] = b]
  BY <1>2 DEF StoreFlag
<1>5. /\ flag' \in [Entries -> Flags] /\ flag'[i] = b
      /\ \A j \in Entries \ {i} : flag'[j] = flag[j]
  BY <1>3, <1>4 DEF IInv, TypeOK
<1>6. cov' \in Sweeping /\ SweepsAreSeparate' /\ DroppedIdsAreFree' /\ cov'.pc = "enter"
  BY <1>1, AdvanceEffect
<1>7. TypeOK'
  BY <1>1, <1>5, <1>6 DEF IInv, TypeOK
<1>8. Inside(i) /\ Loaded(i) /\ ~Composes(i)
  BY <1>1 DEF Inside, Loaded, Composes, Composing
<1>9. ~Loaded(i)' /\ ~Composes(i)' /\ ~(cov.index = i /\ cov.pc = "storeId")'
  BY <1>6 DEF Loaded, Composes, Composing
<1>10. Settled(i) /\ Current(i) => Settled(i)'
  <2>1. Current(i) => cov.byte = flag[i]
    BY <1>1 DEF Current
  <2>2. QED BY <1>1, <1>3, <1>5, <2>1 DEF Settled, Addressed, RoomForAll
<1>11. Keeps(i) => Keeps(i)'
  BY <1>1, <1>3, <1>5, <1>8, <1>9 DEF Keeps, KeptByRequest, Kept
<1>12. ASSUME cov.id # 0, i \notin overlap PROVE invokeID'[i] = cov.id /\ Keeps(i)'
  <2>1. cov.pc = "sent"
    BY <1>1, <1>12, Position DEF Marking
  <2>2. /\ invokeID[i] = cov.id /\ i # main.entry
        /\ asked[i].confirmed /\ flag[i].valid /\ flag[i].confirmed /\ cov.byte = flag[i]
    BY <1>12, <2>1, SentIsKept
  <2>3. QED BY <1>1, <1>3, <1>5, <1>9, <2>2 DEF Keeps, Kept
<1>13. \A j \in Entries : ~Inside(j) => flag'[j] = flag[j] /\ invokeID'[j] = invokeID[j]
  BY <1>1, <1>5, <1>8
<1>14. QED BY <1>1, <1>6, <1>7, <1>8, <1>10, <1>11, <1>12, <1>13, OtherFrame

(* The ID of a transaction that failed is freed.                           *)
LEMMA FreeIdStep ==
  ASSUME IInv, Watch, UNCHANGED <<main, asked>>, NEW i \in Entries, cov.index = i, FreeId(i)
  PROVE  IInv'
<1>1. /\ cov.pc = "freeId" /\ cov \in Sweeping /\ cov.sweep = "free"
      /\ UNCHANGED <<flag, dest_index, invokeID, monitoredObject, COV_Addresses,
                     Current_Invoke_ID>>
  BY Position DEF FreeId, Freeing, fields
<1>2. cov' = [cov EXCEPT !.pc = "dropId"]
  BY DEF FreeId, Goto
<1>3. cov' \in Sweeping /\ cov'.pc = "dropId" /\ cov'.index = i /\ cov'.sweep = "free"
  BY <1>1, <1>2 DEF Sweeping, Statements, Freeing
<1>4. TSM_List' \in [Slots -> Entry] /\ UsedIds(TSM_List') = UsedIds(TSM_List) \ {invokeID[i]}
  <2>1. TSM_List \in [Slots -> Entry]
    BY DEF IInv, TypeOK
  <2>2. TSM_List' = FreeInvokeId(TSM_List, invokeID[i])
    BY DEF FreeId
  <2>3. QED BY <2>1, <2>2, FreeUsed
<1>5. TypeOK'
  BY <1>1, <1>3, <1>4 DEF IInv, TypeOK
<1>6. SweepsAreSeparate' /\ DroppedIdsAreFree'
  BY <1>1, <1>3, <1>4
  DEF SweepsAreSeparate, DroppedIdsAreFree, Marking, Freeing, Composing, Identified
<1>7. Inside(i) /\ (Current(i) => Current(i)') /\ Settled(i)' = Settled(i)
  BY <1>1, <1>3 DEF Inside, Current, Identified, Settled, Addressed, RoomForAll
<1>8. UsedIds(TSM_List') \subseteq UsedIds(TSM_List) /\ invokeID[i] \notin UsedIds(TSM_List')
  BY <1>4
<1>9. QED BY <1>1, <1>3, <1>5, <1>6, <1>7, <1>8, OtherFrame

(* The ID of the entry is dropped, or that of its notification stored.     *)
LEMMA WriteIdStep ==
  ASSUME IInv, Watch, UNCHANGED <<main, asked>>, NEW i \in Entries, cov.index = i, WriteId(i)
  PROVE  IInv'
<1>1. /\ cov \in Sweeping
      /\ UNCHANGED <<flag, dest_index, monitoredObject, COV_Addresses,
                     TSM_List, Current_Invoke_ID>>
  BY Position DEF WriteId, table
<1>2. CASE cov.pc = "dropId" /\ invokeID' = [invokeID EXCEPT ![i] = 0] /\ Advance
  <2>1. /\ invokeID' \in [Entries -> 0..MaxInvokeId] /\ invokeID'[i] = 0
        /\ \A j \in Entries \ {i} : invokeID'[j] = invokeID[j]
    BY <1>2, TableAssumption DEF IInv, TypeOK
  <2>2. cov' \in Sweeping /\ SweepsAreSeparate' /\ DroppedIdsAreFree' /\ cov'.pc = "enter"
    BY <1>2, AdvanceEffect
  <2>3. TypeOK'
    BY <1>1, <2>1, <2>2 DEF IInv, TypeOK
  <2>4. Inside(i) /\ cov.sweep = "free" /\ invokeID[i] \notin UsedIds(TSM_List)
    BY <1>2, Position DEF Inside, Freeing, IInv, DroppedIdsAreFree
  <2>5. Settled(i) /\ Current(i) => Settled(i)'
    BY <1>1, <2>1 DEF Current, Settled, Addressed, RoomForAll
  <2>6. \A j \in Entries : ~Inside(j) => flag'[j] = flag[j] /\ invokeID'[j] = invokeID[j]
    BY <1>1, <2>1, <2>4
  <2>7. QED BY <1>1, <2>2, <2>3, <2>4, <2>5, <2>6, OtherFrame
<1>3. CASE cov.pc = "storeId" /\ invokeID' = [invokeID EXCEPT ![i] = cov.id] /\ Goto("set")
  <2>1. PICK id \in 0..MaxInvokeId : id = cov.id
    BY <1>1 DEF Sweeping
  <2>2. /\ invokeID' \in [Entries -> 0..MaxInvokeId] /\ invokeID'[i] = id
        /\ \A j \in Entries \ {i} : invokeID'[j] = invokeID[j]
    BY <1>3, <2>1 DEF IInv, TypeOK
  <2>3. cov' = [cov EXCEPT !.pc = "set"]
    BY <1>3 DEF Goto
  <2>4. cov' \in Sweeping /\ cov'.pc = "set" /\ cov'.index = i /\ cov'.sweep = cov.sweep
        /\ cov'.id = cov.id /\ cov'.value = cov.value /\ cov'.dest = cov.dest
        /\ cov'.object = cov.object
    BY <1>1, <2>3 DEF Sweeping, Statements, Identified
  <2>5. TypeOK'
    BY <1>1, <2>2, <2>4 DEF IInv, TypeOK
  <2>6. SweepsAreSeparate' /\ DroppedIdsAreFree'
    BY <1>3, <2>4, Position
    DEF SweepsAreSeparate, DroppedIdsAreFree, Marking, Freeing, Composing, Identified
  <2>7. Inside(i) /\ ~Keeps(i)
    BY <1>3 DEF Inside, Keeps
  <2>8. Settled(i) /\ Current(i) => Settled(i)' /\ Current(i)'
    <3>1. ASSUME Current(i) PROVE /\ asked[i] # NotAsked /\ asked[i].confirmed
                                  /\ cov.value = asked[i].object /\ cov.object = asked[i].object
                                  /\ cov.dest = dest_index[i] /\ cov.dest # NoSlot
                                  /\ cov.id # 0
      BY <1>3, <3>1 DEF Current, Identified
    <3>2. ASSUME Current(i), Settled(i) PROVE Settled(i)'
      BY <1>1, <2>2, <3>1, <3>2 DEF Settled, Addressed, RoomForAll
    <3>3. ASSUME Current(i) PROVE Current(i)'
      BY <1>1, <2>1, <2>2, <2>4, <3>1, <3>3 DEF Current
    <3>4. QED BY <3>2, <3>3
  <2>9. \A j \in Entries : ~Inside(j) => flag'[j] = flag[j] /\ invokeID'[j] = invokeID[j]
    BY <1>1, <2>2, <2>7
  <2>10. QED BY <1>1, <2>4, <2>5, <2>6, <2>7, <2>8, <2>9, OtherFrame
<1>4. QED BY <1>2, <1>3 DEF WriteId

(* The value of the object is encoded.                                     *)
LEMMA EncodeValueStep ==
  ASSUME IInv, Watch, UNCHANGED <<main, asked>>, NEW i \in Entries, cov.index = i, EncodeValue(i)
  PROVE  IInv'
<1>1. /\ cov.pc = "encodeValue" /\ NothingWritten /\ cov \in Sweeping
      /\ cov.sweep = "send" /\ cov.id = 0
  BY Position DEF EncodeValue, Composing
<1>2. UNCHANGED <<flag, dest_index, invokeID, monitoredObject, COV_Addresses,
                  TSM_List, Current_Invoke_ID>>
  BY <1>1 DEF NothingWritten, fields, table
<1>3. cov' = [cov EXCEPT !.pc = "getAddress", !.value = monitoredObject[i]]
  BY DEF EncodeValue
<1>4. monitoredObject[i] \in Objects
  BY DEF IInv, TypeOK
<1>5. cov' \in Sweeping /\ cov'.pc = "getAddress" /\ cov'.index = i /\ cov'.sweep = "send"
      /\ cov'.id = 0 /\ cov'.value = monitoredObject[i]
  BY <1>1, <1>3, <1>4 DEF Sweeping, Statements, Composing
<1>6. SweepsAreSeparate' /\ DroppedIdsAreFree'
  BY <1>5 DEF SweepsAreSeparate, DroppedIdsAreFree, Marking, Freeing, Composing, Identified
<1>7. Inside(i) /\ Composes(i) /\ ~Loaded(i)
  BY <1>1 DEF Inside, Composes, Composing, Loaded
<1>8. Composes(i)' /\ ~Loaded(i)' /\ ~(cov.index = i /\ cov.pc = "storeId")'
  BY <1>5 DEF Composes, Composing, Loaded
<1>9. Settled(i) /\ Current(i) => Current(i)'
  <2>1. Settled(i) /\ Current(i) => asked[i] # NotAsked /\ monitoredObject[i] = asked[i].object
    BY DEF Settled, Current
  <2>2. QED BY <1>2, <1>5, <2>1 DEF Current, Identified
<1>10. Keeps(i) => Keeps(i)'
  BY <1>2, <1>7, <1>8 DEF Keeps, KeptByRequest, Kept
<1>11. QED BY <1>1, <1>5, <1>6, <1>7, <1>9, <1>10, QuietStep

(* cov_address_get leads to the slot of the subscriber.                    *)
LEMMA GetAddressStep ==
  ASSUME IInv, Watch, UNCHANGED <<main, asked>>, NEW i \in Entries, cov.index = i, GetAddress(i)
  PROVE  IInv'
<1>1. /\ cov.pc = "getAddress" /\ NothingWritten /\ cov \in Sweeping
      /\ cov.sweep = "send" /\ cov.id = 0
  BY Position DEF GetAddress, Composing
<1>2. UNCHANGED <<flag, dest_index, invokeID, monitoredObject, COV_Addresses,
                  TSM_List, Current_Invoke_ID>>
  BY <1>1 DEF NothingWritten, fields, table
<1>3. Inside(i) /\ Composes(i) /\ ~Loaded(i)
  BY <1>1 DEF Inside, Composes, Composing, Loaded
<1>4. CASE HasAddress(i) /\ cov' = [cov EXCEPT !.pc = "identify", !.dest = dest_index[i]]
  <2>1. dest_index[i] \in AddressSlots \cup {NoSlot} /\ dest_index[i] # NoSlot
    BY <1>4 DEF IInv, TypeOK, HasAddress
  <2>2. cov' \in Sweeping /\ cov'.pc = "identify" /\ cov'.index = i /\ cov'.sweep = "send"
        /\ cov'.id = 0 /\ cov'.value = cov.value /\ cov'.dest = dest_index[i]
    BY <1>1, <1>4, <2>1 DEF Sweeping, Statements, Composing
  <2>3. SweepsAreSeparate' /\ DroppedIdsAreFree'
    BY <2>2 DEF SweepsAreSeparate, DroppedIdsAreFree, Marking, Freeing, Composing, Identified
  <2>4. Composes(i)' /\ ~Loaded(i)' /\ ~(cov.index = i /\ cov.pc = "storeId")'
    BY <2>2 DEF Composes, Composing, Loaded
  <2>5. Current(i) => Current(i)'
    BY <1>1, <1>2, <2>1, <2>2 DEF Current, Identified
  <2>6. Keeps(i) => Keeps(i)'
    BY <1>2, <1>3, <2>4 DEF Keeps, KeptByRequest, Kept
  <2>7. QED BY <1>1, <1>3, <2>2, <2>3, <2>5, <2>6, QuietStep
<1>5. CASE Advance
  <2>1. cov' \in Sweeping /\ SweepsAreSeparate' /\ DroppedIdsAreFree' /\ cov'.pc = "enter"
    BY <1>5, AdvanceEffect
  <2>2. ~Loaded(i)' /\ ~Composes(i)' /\ ~(cov.index = i /\ cov.pc = "storeId")'
    BY <2>1 DEF Loaded, Composes, Composing
  <2>3. Keeps(i) => Keeps(i)'
    BY <1>2, <1>3, <2>2 DEF Keeps, KeptByRequest, Kept
  <2>4. QED BY <1>1, <2>1, <2>3, QuietStep
<1>6. QED BY <1>4, <1>5 DEF GetAddress

(* The transaction is set up, once the invoke ID is stored.                *)
LEMMA SetTransactionStep ==
  ASSUME IInv, Watch, UNCHANGED <<main, asked>>, NEW i \in Entries, cov.index = i,
         SetTransaction(i)
  PROVE  IInv'
<1>1. /\ cov.pc = "set" /\ cov \in Sweeping /\ cov.sweep = "send"
      /\ UNCHANGED <<flag, dest_index, invokeID, monitoredObject, COV_Addresses,
                     Current_Invoke_ID>>
  BY Position DEF SetTransaction, Identified, fields
<1>2. cov' = [cov EXCEPT !.pc = "send"]
  BY DEF SetTransaction, Goto
<1>3. cov' \in Sweeping /\ cov'.pc = "send" /\ cov'.index = i /\ cov'.sweep = "send"
      /\ cov'.id = cov.id /\ cov'.value = cov.value /\ cov'.dest = cov.dest
      /\ cov'.object = cov.object
  BY <1>1, <1>2 DEF Sweeping, Statements, Identified
<1>4. TSM_List' \in [Slots -> Entry] /\ UsedIds(TSM_List') = UsedIds(TSM_List)
  <2>1. TSM_List \in [Slots -> Entry]
    BY DEF IInv, TypeOK
  <2>2. ApduTimeout \in Nat
    BY CovRaceAssumption
  <2>3. TSM_List' = TSM_List \/ TSM_List' = SetConfirmedTransaction(TSM_List, cov.id, ApduTimeout)
    BY DEF SetTransaction
  <2>4. QED BY <2>1, <2>2, <2>3, SetUsed
<1>5. TypeOK'
  BY <1>1, <1>3, <1>4 DEF IInv, TypeOK
<1>6. SweepsAreSeparate' /\ DroppedIdsAreFree'
  BY <1>3 DEF SweepsAreSeparate, DroppedIdsAreFree, Marking, Freeing, Composing, Identified
<1>7. Inside(i) /\ ~Composes(i) /\ ~Loaded(i)
  BY <1>1 DEF Inside, Composes, Composing, Loaded
<1>8. ~Composes(i)' /\ ~Loaded(i)' /\ ~(cov.index = i /\ cov.pc = "storeId")'
  BY <1>3 DEF Composes, Composing, Loaded
<1>9. (Current(i) => Current(i)') /\ Settled(i)' = Settled(i)
  BY <1>1, <1>3 DEF Current, Identified, Settled, Addressed, RoomForAll
<1>10. Keeps(i) => Keeps(i)'
  BY <1>1, <1>7, <1>8 DEF Keeps, KeptByRequest, Kept
<1>11. QED BY <1>1, <1>3, <1>4, <1>5, <1>6, <1>7, <1>9, <1>10, OtherFrame

(* datalink_send_pdu sends the notification or fails.                      *)
LEMMA SendStep ==
  ASSUME IInv, Watch, UNCHANGED <<main, asked>>, NEW i \in Entries, cov.index = i, Send
  PROVE  IInv'
<1>1. /\ cov.pc = "send" /\ cov \in Sweeping /\ cov.sweep = "send"
      /\ UNCHANGED <<flag, dest_index, invokeID, monitoredObject, COV_Addresses,
                     TSM_List, Current_Invoke_ID>>
  BY Position DEF Send, Identified, fields, table
<1>2. Inside(i) /\ ~Composes(i) /\ ~Loaded(i)
  BY <1>1 DEF Inside, Composes, Composing, Loaded
<1>3. Settled(i)' = Settled(i)
  BY <1>1 DEF Settled, Addressed, RoomForAll
<1>4. CASE Goto("loadSent")
  <2>1. cov' = [cov EXCEPT !.pc = "loadSent"]
    BY <1>4 DEF Goto
  <2>2. cov' \in Sweeping /\ cov'.pc = "loadSent" /\ cov'.index = i /\ cov'.sweep = "send"
        /\ cov'.id = cov.id /\ cov'.value = cov.value /\ cov'.dest = cov.dest
        /\ cov'.object = cov.object
    BY <1>1, <2>1 DEF Sweeping, Statements, Identified
  <2>3. SweepsAreSeparate' /\ DroppedIdsAreFree'
    BY <2>2 DEF SweepsAreSeparate, DroppedIdsAreFree, Marking, Freeing, Composing, Identified
  <2>4. ~Composes(i)' /\ ~Loaded(i)' /\ ~(cov.index = i /\ cov.pc = "storeId")'
    BY <2>2 DEF Composes, Composing, Loaded
  <2>5. Current(i) => Current(i)'
    BY <1>1, <2>2 DEF Current, Identified
  <2>6. Keeps(i) => Keeps(i)'
    BY <1>1, <1>2, <2>4 DEF Keeps, KeptByRequest, Kept
  <2>7. TypeOK'
    BY <1>1, <2>2 DEF IInv, TypeOK
  <2>8. QED BY <1>1, <1>2, <1>3, <2>2, <2>3, <2>5, <2>6, <2>7, OtherFrame
<1>5. CASE Advance
  <2>1. cov' \in Sweeping /\ SweepsAreSeparate' /\ DroppedIdsAreFree' /\ cov'.pc = "enter"
    BY <1>5, AdvanceEffect
  <2>2. ~Loaded(i)' /\ ~Composes(i)' /\ ~(cov.index = i /\ cov.pc = "storeId")'
    BY <2>1 DEF Loaded, Composes, Composing
  <2>3. Keeps(i) => Keeps(i)'
    BY <1>1, <1>2, <2>2 DEF Keeps, KeptByRequest, Kept
  <2>4. ASSUME cov.id # 0, i \notin overlap PROVE invokeID'[i] = cov.id /\ Keeps(i)'
    BY <1>1, <2>2, <2>4, SentIsKept DEF Keeps, Kept
  <2>5. TypeOK'
    BY <1>1, <2>1 DEF IInv, TypeOK
  <2>6. QED BY <1>1, <1>2, <1>3, <2>1, <2>3, <2>4, <2>5, OtherFrame
<1>6. QED BY <1>4, <1>5 DEF Send

(* The kind of notification is looked up a second time, and an ID reserved *)
(* for a confirmed one.                                                    *)
LEMMA IdentifyStep ==
  ASSUME IInv, Watch, UNCHANGED <<main, asked>>, NEW i \in Entries, cov.index = i, Identify(i)
  PROVE  IInv'
<1>1. /\ cov.pc = "identify" /\ cov \in Sweeping /\ cov.sweep = "send" /\ cov.id = 0
      /\ UNCHANGED <<flag, dest_index, invokeID, monitoredObject, COV_Addresses>>
  BY Position DEF Identify, Composing, fields
<1>2. Inside(i) /\ Composes(i) /\ ~Loaded(i)
  BY <1>1 DEF Inside, Composes, Composing, Loaded
<1>3. Settled(i)' = Settled(i)
  BY <1>1 DEF Settled, Addressed, RoomForAll
<1>4. monitoredObject[i] \in Objects
  BY DEF IInv, TypeOK
<1>5. CASE ~flag[i].confirmed
  <2>1. /\ cov' = [cov EXCEPT !.pc = "set", !.object = monitoredObject[i]]
        /\ UNCHANGED <<TSM_List, Current_Invoke_ID>>
    BY <1>5 DEF Identify, table
  <2>2. cov' \in Sweeping /\ cov'.pc = "set" /\ cov'.index = i /\ cov'.sweep = "send"
        /\ cov'.id = 0 /\ cov'.value = cov.value /\ cov'.dest = cov.dest
        /\ cov'.object = monitoredObject[i]
    BY <1>1, <1>4, <2>1 DEF Sweeping, Statements, Identified
  <2>3. SweepsAreSeparate' /\ DroppedIdsAreFree'
    BY <2>2 DEF SweepsAreSeparate, DroppedIdsAreFree, Marking, Freeing, Composing, Identified
  <2>4. ~Composes(i)' /\ ~Loaded(i)' /\ ~(cov.index = i /\ cov.pc = "storeId")'
    BY <2>2 DEF Composes, Composing, Loaded
  <2>5. ASSUME Settled(i), Current(i) PROVE Current(i)'
    <3>1. asked[i] # NotAsked /\ ~asked[i].confirmed /\ invokeID[i] = 0
          /\ monitoredObject[i] = asked[i].object
      BY <1>5, <2>5 DEF Settled, Current
    <3>2. asked[i].confirmed \in BOOLEAN
      BY DEF IInv, TypeOK, Terms
    <3>3. cov.value = asked[i].object /\ cov.dest = dest_index[i] /\ cov.dest # NoSlot
      BY <1>1, <2>5 DEF Current
    <3>4. QED BY <1>1, <2>2, <3>1, <3>2, <3>3 DEF Current
  <2>6. Keeps(i) => Keeps(i)'
    BY <1>1, <1>2, <1>5, <2>4 DEF Keeps, KeptByRequest, Kept
  <2>7. TypeOK'
    BY <1>1, <2>1, <2>2 DEF IInv, TypeOK
  <2>8. QED BY <1>1, <1>2, <1>3, <2>1, <2>2, <2>3, <2>5, <2>6, <2>7, OtherFrame
<1>6. CASE flag[i].confirmed /\ ~TransactionAvailable(TSM_List)
  <2>1. Advance /\ UNCHANGED <<TSM_List, Current_Invoke_ID>>
    BY <1>6 DEF Identify, table
  <2>2. cov' \in Sweeping /\ SweepsAreSeparate' /\ DroppedIdsAreFree' /\ cov'.pc = "enter"
    BY <2>1, AdvanceEffect
  <2>3. ~Loaded(i)' /\ ~Composes(i)' /\ ~(cov.index = i /\ cov.pc = "storeId")'
    BY <2>2 DEF Loaded, Composes, Composing
  <2>4. Keeps(i) => Keeps(i)'
    BY <1>1, <1>2, <2>3 DEF Keeps, KeptByRequest, Kept
  <2>5. TypeOK'
    BY <1>1, <2>1, <2>2 DEF IInv, TypeOK
  <2>6. QED BY <1>1, <1>2, <1>3, <2>1, <2>2, <2>4, <2>5, OtherFrame
<1>7. CASE flag[i].confirmed /\ TransactionAvailable(TSM_List)
  <2>1. PICK list \in [Slots -> Entry], cursor \in InvokeIds :
          list = TSM_List /\ cursor = Current_Invoke_ID
    BY DEF IInv, TypeOK
  <2>2. PICK id : id = NextFreeInvokeId(list, cursor)
    OBVIOUS
  <2>3. /\ cov' = [cov EXCEPT !.pc = "storeId", !.object = monitoredObject[i], !.id = id]
        /\ TSM_List' = Reserve(list, cursor, ApduTimeout)
        /\ Current_Invoke_ID' = CursorAfter(list, cursor)
    BY <1>7, <2>1, <2>2 DEF Identify
  <2>4. /\ TSM_List' \in [Slots -> Entry] /\ UsedIds(TSM_List') = UsedIds(TSM_List) \cup {id}
        /\ id \in InvokeIds /\ Current_Invoke_ID' \in InvokeIds
    <3>1. ApduTimeout \in Nat /\ TransactionAvailable(list)
      BY <1>7, <2>1, CovRaceAssumption
    <3>2. QED BY <2>1, <2>2, <2>3, <3>1, ReserveUsed
  <2>5. id \in 0..MaxInvokeId /\ id # 0
    BY <2>4, TableAssumption DEF InvokeIds
  <2>6. cov' \in Sweeping /\ cov'.pc = "storeId" /\ cov'.index = i /\ cov'.sweep = "send"
        /\ cov'.id = id /\ cov'.value = cov.value /\ cov'.dest = cov.dest
        /\ cov'.object = monitoredObject[i]
    BY <1>1, <1>4, <2>3, <2>5 DEF Sweeping, Statements, Identified
  <2>7. SweepsAreSeparate' /\ DroppedIdsAreFree'
    BY <2>6 DEF SweepsAreSeparate, DroppedIdsAreFree, Marking, Freeing, Composing, Identified
  <2>8. ~Keeps(i)
    <3>1. ~Kept(i)
      BY <1>2 DEF Kept
    <3>2. QED BY <1>2, <1>7, <3>1 DEF Keeps, KeptByRequest
  <2>9. ASSUME Settled(i), Current(i) PROVE Current(i)'
    <3>1. asked[i] # NotAsked /\ asked[i].confirmed /\ monitoredObject[i] = asked[i].object
      BY <1>7, <2>9 DEF Settled, Current
    <3>2. cov.value = asked[i].object /\ cov.dest = dest_index[i] /\ cov.dest # NoSlot
      BY <1>1, <2>9 DEF Current
    <3>3. QED BY <1>1, <2>5, <2>6, <3>1, <3>2 DEF Current
  <2>10. TypeOK'
    BY <1>1, <2>4, <2>6 DEF IInv, TypeOK
  <2>11. QED BY <1>1, <1>2, <1>3, <2>4, <2>6, <2>7, <2>8, <2>9, <2>10, OtherFrame
<1>8. QED BY <1>5, <1>6, <1>7

(* Every statement of the COV thread preserves the invariant.              *)
LEMMA CovStep == ASSUME IInv, Watch, CovThread PROVE IInv'
<1>1. PICK i \in Entries : i = cov.index
  BY DEF IInv, TypeOK, Sweeping
<1>2. /\ \/ Enter(i) \/ LoadFlag(i) \/ StoreFlag(i)
         \/ TestId(i) \/ FreeId(i) \/ WriteId(i)
         \/ EncodeValue(i) \/ GetAddress(i) \/ Identify(i) \/ SetTransaction(i) \/ Send
      /\ UNCHANGED <<main, asked>>
  BY <1>1 DEF CovThread
<1>3. QED
  BY <1>1, <1>2, EnterStep, LoadFlagStep, StoreFlagStep, TestIdStep, FreeIdStep, WriteIdStep,
     EncodeValueStep, GetAddressStep, IdentifyStep, SetTransactionStep, SendStep

-----------------------------------------------------------------------------
(* The main thread between two requests.                                   *)

(* A subscription is renewed or made, at the first entry that fits.        *)
LEMMA SubscribeStep ==
  ASSUME IInv, Watch, main.entry = 0, NEW who \in Subscribers, NEW object \in Objects,
         NEW c \in Confirmations,
         Subscribe([who |-> who, object |-> object, confirmed |-> c])
  PROVE  IInv'
<1>1. PICK terms : terms = [who |-> who, object |-> object, confirmed |-> c]
  OBVIOUS
<1>2. terms \in Terms /\ terms.who = who /\ terms.object = object
  BY <1>1, CovRaceAssumption DEF Terms
<1>3. PICK existing : existing = Existing(who, object)
  OBVIOUS
<1>4. \/ existing # {} /\ Begin(Least(existing), RenewProgram, terms)
      \/ existing = {} /\ Unused # {} /\ Begin(Least(Unused), NewProgram, terms)
  BY <1>1, <1>2, <1>3 DEF Subscribe
<1>5. Entries \subseteq Nat
  BY DEF Entries
<1>6. CASE existing # {} /\ Begin(Least(existing), RenewProgram, terms)
  <2>1. existing \in SUBSET Entries
    BY <1>3 DEF Existing
  <2>2. PICK i : i = Least(existing)
    OBVIOUS
  <2>3. i \in existing
    BY <1>5, <1>6, <2>1, <2>2, LeastIsMember
  <2>4. i \in Entries /\ flag[i].valid /\ monitoredObject[i] = object
    BY <1>3, <2>3 DEF Existing
  <2>5. Begin(i, RenewProgram, terms)
    BY <1>6, <2>2
  <2>6. QED BY <1>2, <2>4, <2>5, BeginStep
<1>7. CASE Unused # {} /\ Begin(Least(Unused), NewProgram, terms)
  <2>1. PICK unused : unused = Unused
    OBVIOUS
  <2>2. unused \in SUBSET Entries
    BY <2>1 DEF Unused
  <2>3. PICK i : i = Least(unused)
    OBVIOUS
  <2>4. i \in unused
    BY <1>5, <1>7, <2>1, <2>2, <2>3, LeastIsMember
  <2>5. i \in Entries /\ ~flag[i].valid
    BY <2>1, <2>4 DEF Unused
  <2>6. Begin(i, NewProgram, terms)
    BY <1>7, <2>1, <2>3
  <2>7. QED BY <1>2, <2>5, <2>6, BeginStep
<1>8. QED BY <1>4, <1>6, <1>7

(* A subscription is cancelled or expires.                                 *)
LEMMA EndStep ==
  ASSUME IInv, Watch, main.entry = 0,
         \/ \E who \in Subscribers, object \in Objects : Cancel(who, object)
         \/ \E i \in Entries : Expire(i)
  PROVE  IInv'
<1>1. NotAsked \in Terms
  BY CovRaceAssumption DEF NotAsked, Terms
<1>2. Entries \subseteq Nat /\ {CancelProgram, ExpireProgram} = ToEnd
  BY DEF Entries, ToEnd
<1>3. ASSUME NEW who \in Subscribers, NEW object \in Objects, Cancel(who, object)
      PROVE  IInv'
  <2>1. PICK existing : existing = Existing(who, object)
    OBVIOUS
  <2>2. existing # {} /\ Begin(Least(existing), CancelProgram, NotAsked)
    BY <1>3, <2>1 DEF Cancel
  <2>3. existing \in SUBSET Entries
    BY <2>1 DEF Existing
  <2>4. PICK i, terms : i = Least(existing) /\ terms = NotAsked
    OBVIOUS
  <2>5. i \in existing
    BY <1>2, <2>2, <2>3, <2>4, LeastIsMember
  <2>6. i \in Entries /\ flag[i].valid
    BY <2>1, <2>5 DEF Existing
  <2>7. Begin(i, CancelProgram, terms)
    BY <2>2, <2>4
  <2>8. QED BY <1>1, <1>2, <2>4, <2>6, <2>7, BeginStep
<1>4. ASSUME NEW i \in Entries, Expire(i) PROVE IInv'
  BY <1>1, <1>2, <1>4, BeginStep DEF Expire
<1>5. QED BY <1>3, <1>4

(* Every step of the main thread preserves the invariant.                  *)
LEMMA MainStep == ASSUME IInv, Watch, MainThread PROVE IInv'
<1>1. CASE main.entry # 0 /\ Execute(Head(main.todo), main.entry, Tail(main.todo))
  BY <1>1, ExecuteStep
<1>2. CASE main.entry = 0 /\ \E id \in inflight : Answer(id)
  BY <1>2, AnswerStep
<1>3. CASE /\ main.entry = 0
           /\ \/ \E who \in Subscribers, object \in Objects : Cancel(who, object)
              \/ \E i \in Entries : Expire(i)
  BY <1>3, EndStep
<1>4. CASE /\ main.entry = 0
           /\ \E who \in Subscribers, object \in Objects, c \in Confirmations :
                Subscribe([who |-> who, object |-> object, confirmed |-> c])
  BY <1>4, SubscribeStep
<1>5. QED BY <1>1, <1>2, <1>3, <1>4 DEF MainThread

(* The empty tables satisfy the invariant.                                 *)
LEMMA InitIInv == Init => IInv
<1> SUFFICES ASSUME Init PROVE IInv
  OBVIOUS
<1>1. \A i \in Entries : flag[i] = NoFlags /\ invokeID[i] = 0 /\ asked[i] = NotAsked
  BY DEF Init
<1>2. main = NoWork /\ main.entry = 0 /\ cov = AtEntry("mark", 1) /\ cov.pc = "enter" /\ cov.id = 0
  BY DEF Init, NoWork, AtEntry
<1>3. TypeOK
  <2>1. 1 \in Entries /\ 1 \in AddressSlots /\ 1 \in InvokeIds /\ 0 \in 0..MaxInvokeId
    BY CovRaceAssumption, TableAssumption DEF Entries, AddressSlots, InvokeIds
  <2>2. NoFlags \in Flags /\ NotAsked \in Terms
    BY CovRaceAssumption DEF NoFlags, Flags, NotAsked, Terms
  <2>3. cov \in Sweeping
    BY <1>2, <2>1, <2>2, CovRaceAssumption DEF AtEntry, Sweeping, Statements, NoSlot
  <2>4. main \in Serving
    BY <1>2, <2>2 DEF NoWork, Serving
  <2>5. TSM_List \in [Slots -> Entry]
    BY <2>1 DEF Init, EmptyTable, FreeEntry, Entry
  <2>6. QED BY <2>1, <2>2, <2>3, <2>4, <2>5, CovRaceAssumption DEF Init, TypeOK
<1>4. SweepsAreSeparate /\ OverlapsAreSeen /\ LoadsAreCurrent /\ DroppedIdsAreFree
  BY <1>2 DEF SweepsAreSeparate, OverlapsAreSeen, LoadsAreCurrent, DroppedIdsAreFree, Inside,
              Marking, Freeing, Composing, Identified
<1>5. ProgramsAreRun /\ WorkIsDone
  BY <1>2 DEF ProgramsAreRun, WorkIsDone, Entries
<1>6. AddressesAreUnique
  BY DEF Init, AddressesAreUnique
<1>7. EntriesAreSettled
  BY <1>1 DEF EntriesAreSettled, Settled, NoFlags
<1>8. EveryIdIsKept
  <2>1. UsedIds(TSM_List) = {}
    BY DEF Init, UsedIds, EmptyTable, FreeEntry
  <2>2. QED BY <2>1 DEF EveryIdIsKept
<1>9. QED BY <1>3, <1>4, <1>5, <1>6, <1>7, <1>8 DEF IInv

(* So does a step of neither thread.                                       *)
LEMMA StutteringStep == ASSUME IInv, UNCHANGED vars PROVE IInv'
<1>1. UNCHANGED <<flag, dest_index, invokeID, monitoredObject, COV_Addresses,
                  TSM_List, Current_Invoke_ID, main, cov, asked, overlap, stray>>
  BY DEF vars, fields, table
<1>2. /\ TypeOK' /\ SweepsAreSeparate' /\ ProgramsAreRun' /\ OverlapsAreSeen'
      /\ AddressesAreUnique' /\ DroppedIdsAreFree'
  BY <1>1 DEF IInv, TypeOK, SweepsAreSeparate, ProgramsAreRun, OverlapsAreSeen, Inside,
              AddressesAreUnique, DroppedIdsAreFree
<1>3. EntriesAreSettled' /\ LoadsAreCurrent'
  BY <1>1 DEF IInv, EntriesAreSettled, Settled, Addressed, RoomForAll, LoadsAreCurrent, Inside,
              Current
<1>4. WorkIsDone'
  <2> SUFFICES ASSUME NEW i \in Entries, i \notin overlap', main'.entry = i PROVE Doing(i)'
    BY DEF WorkIsDone
  <2>1. Doing(i)
    BY <1>1 DEF IInv, WorkIsDone
  <2>2. QED BY <1>1, <2>1 DEF Doing, Ended, Renewed, Added, Addressed, RoomForAll
<1>5. EveryIdIsKept'
  BY <1>1 DEF IInv, EveryIdIsKept, Sending, Keeps, KeptByRequest, Kept, Loaded, Composes
<1>6. QED BY <1>2, <1>3, <1>4, <1>5 DEF IInv

(* The invariant holds in every reachable state.                           *)
LEMMA Invariance == Spec => []IInv
<1>1. IInv /\ [Next]_vars => IInv'
  BY MainStep, CovStep, LoseStep, StutteringStep DEF Next
<1>2. QED BY <1>1, InitIInv, PTL DEF Spec

-----------------------------------------------------------------------------
(* The theorems.                                                           *)

(* However the statements of handler_cov_fsm interleave with those of the  *)
(* requests, a transaction in use belongs to a confirmed subscription, to  *)
(* a request about to free it or to the COV thread, unless a request came  *)
(* for the entry whose notification was being sent.                        *)
THEOREM TransactionsStayHeld == Spec => []TransactionsAreHeld
<1>1. IInv => TransactionsAreHeld
  <2> SUFFICES ASSUME IInv, NEW id \in UsedIds(TSM_List) \ stray
               PROVE  \/ cov.id = id
                      \/ \E i \in Entries : invokeID[i] = id /\ (asked[i].confirmed \/ main.entry = i)
    BY DEF TransactionsAreHeld
  <2>1. Sending(id) \/ \E i \in Entries : invokeID[i] = id /\ Keeps(i)
    BY DEF IInv, EveryIdIsKept
  <2>2. QED BY <2>1 DEF Sending, Keeps
<1>2. QED BY <1>1, Invariance, PTL

(* A notification tells the value of the object it names, to the           *)
(* subscriber that asked for it and in the kind it asked for, although     *)
(* cov_send_request reads the entry field by field while handler_cov_      *)
(* subscribe writes others, and holds a pointer into the address table.    *)
THEOREM NotificationsStayTrue == Spec => []NotificationsAreTrue
<1>1. IInv => NotificationsAreTrue
  <2> SUFFICES ASSUME IInv, cov.pc = "send", cov.index \notin overlap
               PROVE  /\ cov.value = asked[cov.index].object
                      /\ cov.object = asked[cov.index].object
                      /\ COV_Addresses[cov.dest] = [valid |-> TRUE, dest |-> asked[cov.index].who]
                      /\ (cov.id # 0) = asked[cov.index].confirmed
    BY DEF NotificationsAreTrue
  <2>1. PICK i \in Entries : i = cov.index
    BY DEF IInv, TypeOK, Sweeping
  <2>2. Inside(i) /\ i # 0
    BY <2>1 DEF Inside, Entries
  <2>3. Current(i) /\ Settled(i)
    BY <2>1, <2>2 DEF IInv, LoadsAreCurrent, EntriesAreSettled, OverlapsAreSeen
  <2>4. /\ asked[i] # NotAsked /\ cov.value = asked[i].object /\ cov.object = asked[i].object
        /\ cov.dest = dest_index[i] /\ cov.dest # NoSlot /\ (cov.id # 0) = asked[i].confirmed
    BY <2>3 DEF Current, Identified
  <2>5. COV_Addresses[dest_index[i]] = [valid |-> TRUE, dest |-> asked[i].who]
    BY <2>3, <2>4 DEF Settled, Addressed
  <2>6. QED BY <2>1, <2>4, <2>5
<1>2. QED BY <1>1, Invariance, PTL

(* An entry that the two threads did not work on at once is what its last  *)
(* request made of it, and leads to its subscriber, if the address table   *)
(* has room for every subscriber. A cancelled one keeps no ID.             *)
THEOREM EntriesStayAsAsked == ASSUME RoomForAll PROVE Spec => []EntriesAreAsAsked
<1>1. IInv => EntriesAreAsAsked
  <2> SUFFICES ASSUME IInv, NEW i \in Entries \ (overlap \cup {main.entry})
               PROVE  IF asked[i] = NotAsked THEN ~flag[i].valid /\ invokeID[i] = 0
                      ELSE /\ flag[i].valid /\ flag[i].confirmed = asked[i].confirmed
                           /\ monitoredObject[i] = asked[i].object
                           /\ HasAddress(i) /\ COV_Addresses[dest_index[i]].dest = asked[i].who
                           /\ ~asked[i].confirmed => invokeID[i] = 0
    BY DEF EntriesAreAsAsked
  <2>1. Settled(i)
    BY DEF IInv, EntriesAreSettled
  <2>2. asked[i] # NotAsked =>
          HasAddress(i) /\ COV_Addresses[dest_index[i]].dest = asked[i].who
    BY <2>1 DEF Settled, Addressed, HasAddress
  <2>3. QED BY <2>1, <2>2 DEF Settled
<1>2. QED BY <1>1, Invariance, PTL
=============================================================================
