-------------------------------- MODULE Cov ---------------------------------
(***************************************************************************)
(* Change-of-value subscriptions, main/handler/h_cov.c, together with the  *)
(* transaction table they use. Three activities run concurrently:          *)
(*                                                                         *)
(*  - the COV thread runs handler_cov_fsm, which sweeps the subscriptions  *)
(*    four times: mark, clear, free, send. One call of it is one step;     *)
(*  - the main thread handles SubscribeCOV requests, the answers to        *)
(*    confirmed notifications, and the one-second timers. It holds         *)
(*    server_sem and the COV thread holds cov_sem, two different           *)
(*    semaphores, so its steps fall anywhere between those of the sweep;   *)
(*  - the refresh thread changes values and flags without any lock, and    *)
(*    replaces the object lists.                                           *)
(*                                                                         *)
(* The network loses, delays and duplicates notifications and answers.     *)
(* A value is not represented: "owed" says who has not been sent the       *)
(* current one. Fields of an unused subscription that nothing reads are    *)
(* reset, so that unused entries are all alike. Communication is always    *)
(* enabled: the server registers no DeviceCommunicationControl handler.    *)
(***************************************************************************)
EXTENDS TransactionTable

CONSTANTS
  MaxSubscriptions,  \* MAX_COV_SUBCRIPTIONS, 2000 in this build
  MaxAddresses,      \* MAX_COV_ADDRESSES, 16
  Addresses,         \* BACnet addresses of the subscribers
  ProcessIds,        \* subscriber process identifiers
  Objects,           \* objects that support COV
  NoAddress, NoProcess, NoObject,  \* what an unused entry holds
  ObjectLists,       \* sets of objects object_init leaves behind
  Confirmations,     \* kinds of notification that are requested, BOOLEAN
  Lifetimes,         \* requested lifetimes in seconds, 0 is indefinite
  ElapsedSeconds,    \* seconds between two runs of the timers
  Milliseconds,      \* what tsm_timer_milliseconds is called with
  ApduTimeout,
  ApduRetries,
  DatalinkFails      \* whether datalink_send_pdu may fail

ASSUME CovAssumption ==
  /\ MaxSubscriptions \in Nat \ {0} /\ MaxAddresses \in Nat \ {0}
  /\ NoAddress \notin Addresses /\ NoProcess \notin ProcessIds /\ NoObject \notin Objects
  /\ ObjectLists \subseteq SUBSET Objects
  /\ Confirmations \subseteq BOOLEAN /\ Lifetimes \subseteq Nat
  /\ ElapsedSeconds \subseteq Nat \ {0}
  /\ Milliseconds \in Nat /\ ApduTimeout \in Nat /\ ApduRetries \in Nat
  /\ DatalinkFails \in BOOLEAN

VARIABLES
  COV_Subscriptions,
  COV_Addresses,
  TSM_List,
  Current_Invoke_ID,
  cov_task_state,
  index,
  changed,   \* objects whose COV flag is set
  present,   \* objects the device has at the moment
  inflight,  \* IDs of which the network holds a notification or an answer
  owed       \* history: subscriptions not sent the current value yet

table == <<TSM_List, Current_Invoke_ID>>
fsm == <<cov_task_state, index>>
objects == <<changed, present>>
vars == <<COV_Subscriptions, COV_Addresses, table, fsm, objects, inflight, owed>>

Subscriptions == 1..MaxSubscriptions
AddressSlots == 1..MaxAddresses
NoSlot == 0          \* dest_index -1, stored as 255

SubscriptionEntry ==
  [valid : BOOLEAN, issueConfirmed : BOOLEAN, send_requested : BOOLEAN,
   dest_index : 0..MaxAddresses, invokeID : 0..MaxInvokeId,
   pid : ProcessIds \cup {NoProcess}, lifetime : Nat, object : Objects \cup {NoObject}]

Unused ==
  [valid |-> FALSE, issueConfirmed |-> FALSE, send_requested |-> FALSE,
   dest_index |-> NoSlot, invokeID |-> 0,
   pid |-> NoProcess, lifetime |-> 0, object |-> NoObject]

(* A SubscribeCOV request; one without lifetime and flag is a cancellation. *)
Subscription == [cancel : {FALSE}, object : Objects, pid : ProcessIds,
                 issueConfirmed : Confirmations, lifetime : Lifetimes]
Cancellation == [cancel : {TRUE}, object : Objects, pid : ProcessIds]

TypeOK ==
  /\ COV_Subscriptions \in [Subscriptions -> SubscriptionEntry]
  /\ COV_Addresses \in [AddressSlots -> Addresses \cup {NoAddress}]
  /\ TSM_List \in [Slots -> Entry]
  /\ Current_Invoke_ID \in InvokeIds
  /\ cov_task_state \in {"IDLE", "MARK", "CLEAR", "FREE", "SEND"}
  /\ index \in Subscriptions
  /\ changed \in SUBSET Objects
  /\ present \in SUBSET Objects
  /\ inflight \in SUBSET InvokeIds
  /\ owed \in SUBSET Subscriptions

(* The tables are zero at start: handler_cov_init is never called.         *)
Init ==
  /\ COV_Subscriptions = [i \in Subscriptions |-> Unused]
  /\ COV_Addresses = [a \in AddressSlots |-> NoAddress]
  /\ TSM_List = EmptyTable
  /\ Current_Invoke_ID = 1
  /\ cov_task_state = "IDLE" /\ index = 1
  /\ changed = Objects
  /\ present = Objects
  /\ inflight = {}
  /\ owed = {}

-----------------------------------------------------------------------------
(* The tables. First and the address functions follow the loops of the     *)
(* code, which take the first entry that fits.                             *)

First(S) == CHOOSE i \in S : \A j \in S : i <= j

ValidIn(subs) == {i \in Subscriptions : subs[i].valid}

(* cov_address_get.                                                        *)
AddressOf(sub) ==
  IF sub.dest_index = NoSlot THEN NoAddress ELSE COV_Addresses[sub.dest_index]

(* cov_address_remove_unused, for the table of subscriptions subs.         *)
RemoveUnused(addresses, subs) ==
  [a \in AddressSlots |->
    IF \E i \in ValidIn(subs) : subs[i].dest_index = a THEN addresses[a] ELSE NoAddress]

(* cov_address_add: the slot, or NoSlot when the table is full, and the    *)
(* table afterwards.                                                       *)
SlotsHolding(address) == {a \in AddressSlots : COV_Addresses[a] = address}

(* Mutant: the address is not looked up.                                   *)
SlotForNew(src) ==
  IF SlotsHolding(NoAddress) # {} THEN First(SlotsHolding(NoAddress)) ELSE NoSlot

SlotFor(src) ==
  IF SlotsHolding(src) # {} THEN First(SlotsHolding(src))
  ELSE IF SlotsHolding(NoAddress) # {} THEN First(SlotsHolding(NoAddress))
  ELSE NoSlot
AddressesWith(src) ==
  IF SlotFor(src) = NoSlot THEN COV_Addresses
  ELSE [COV_Addresses EXCEPT ![SlotFor(src)] = src]

-----------------------------------------------------------------------------
(* The main thread: handler_cov_subscribe. A request that is segmented,    *)
(* cannot be decoded or names an unknown object changes no table.          *)

(* Mutant: the address of the subscriber is not compared.                  *)
MatchesAnyone(i, src, data) ==
  LET sub == COV_Subscriptions[i]
  IN sub.valid /\ sub.object = data.object /\ sub.pid = data.pid

(* "skip address matching - we don't have an address".                     *)
Matches(i, src, data) ==
  LET sub == COV_Subscriptions[i]
  IN /\ sub.valid
     /\ sub.object = data.object /\ sub.pid = data.pid
     /\ AddressOf(sub) \in {src, NoAddress}

Existing(src, data) == {i \in Subscriptions : Matches(i, src, data)}
UnusedEntries == Subscriptions \ ValidIn(COV_Subscriptions)

(* Mutant: a renewal keeps the ID that is freed.                           *)
RequestedWithId(i, src, data) ==
  [valid |-> TRUE, issueConfirmed |-> data.issueConfirmed, send_requested |-> TRUE,
   dest_index |-> SlotFor(src), invokeID |-> COV_Subscriptions[i].invokeID,
   pid |-> data.pid, lifetime |-> data.lifetime, object |-> data.object]

Requested(i, src, data) ==
  [valid |-> TRUE, issueConfirmed |-> data.issueConfirmed, send_requested |-> TRUE,
   dest_index |-> SlotFor(src), invokeID |-> 0,
   pid |-> data.pid, lifetime |-> data.lifetime, object |-> data.object]

Subscribe(src, data) ==
  LET i == IF Existing(src, data) # {} THEN First(Existing(src, data))
                                       ELSE First(UnusedEntries)
  IN /\ data.object \in present
     /\ Existing(src, data) # {} \/ UnusedEntries # {}
     /\ COV_Subscriptions' = [COV_Subscriptions EXCEPT ![i] = Requested(i, src, data)]
     /\ COV_Addresses' = AddressesWith(src)
     /\ TSM_List' = FreeIds(TSM_List, {COV_Subscriptions[i].invokeID} \ {0})
     /\ owed' = owed \cup {i}
     /\ UNCHANGED <<Current_Invoke_ID, fsm, objects, inflight>>

(* Mutant: the address is not given back.                                  *)
CancelKeepsAddress(src, data) ==
  LET i == First(Existing(src, data))
  IN /\ data.object \in present
     /\ Existing(src, data) # {}
     /\ COV_Subscriptions' = [COV_Subscriptions EXCEPT ![i] = Unused]
     /\ TSM_List' = FreeIds(TSM_List, {COV_Subscriptions[i].invokeID} \ {0})
     /\ owed' = owed \ {i}
     /\ UNCHANGED <<COV_Addresses, Current_Invoke_ID, fsm, objects, inflight>>

Cancel(src, data) ==
  LET i == First(Existing(src, data))
      subs == [COV_Subscriptions EXCEPT ![i] = Unused]
  IN /\ data.object \in present
     /\ Existing(src, data) # {}
     /\ COV_Subscriptions' = subs
     /\ COV_Addresses' = RemoveUnused(COV_Addresses, subs)
     /\ TSM_List' = FreeIds(TSM_List, {COV_Subscriptions[i].invokeID} \ {0})
     /\ owed' = owed \ {i}
     /\ UNCHANGED <<Current_Invoke_ID, fsm, objects, inflight>>

(* handler_cov_timer_seconds and tsm_timer_milliseconds, which the main    *)
(* loop runs together. The invoke ID is freed when the notifications were  *)
(* confirmed, and forgotten with the entry otherwise.                      *)
Expiring(elapsed) ==
  {i \in ValidIn(COV_Subscriptions) :
     /\ COV_Subscriptions[i].lifetime # 0
     /\ COV_Subscriptions[i].lifetime <= elapsed}

(* Mutant: expiry frees no ID.                                             *)
FreedByNoExpiry(elapsed) == {}

FreedByExpiry(elapsed) ==
  {COV_Subscriptions[i].invokeID :
     i \in {j \in Expiring(elapsed) : COV_Subscriptions[j].issueConfirmed}} \ {0}

Aged(i, elapsed) ==
  LET sub == COV_Subscriptions[i]
  IN IF i \in Expiring(elapsed) THEN Unused
     ELSE IF sub.valid /\ sub.lifetime # 0 THEN [sub EXCEPT !.lifetime = @ - elapsed]
     ELSE sub

TimerSeconds(elapsed) ==
  LET subs == [i \in Subscriptions |-> Aged(i, elapsed)]
      freed == FreeIds(TSM_List, FreedByExpiry(elapsed))
  IN /\ COV_Subscriptions' = subs
     /\ COV_Addresses' = IF Expiring(elapsed) = {} THEN COV_Addresses
                         ELSE RemoveUnused(COV_Addresses, subs)
     /\ TSM_List' = TimerMilliseconds(freed, Milliseconds, ApduTimeout, ApduRetries)
     /\ inflight' = inflight \cup
          {TSM_List[s].InvokeID : s \in Retransmitted(freed, Milliseconds, ApduRetries)}
     /\ owed' = owed \ Expiring(elapsed)
     /\ UNCHANGED <<Current_Invoke_ID, fsm, objects>>

(* Any answer frees the transaction with its ID (apdu_handler).            *)
Answer(id) ==
  /\ id \in inflight
  /\ TSM_List' = FreeInvokeId(TSM_List, id)
  /\ \/ inflight' = inflight \ {id}
     \/ UNCHANGED inflight  \* a duplicate is still on its way
  /\ UNCHANGED <<COV_Subscriptions, COV_Addresses, Current_Invoke_ID, fsm, objects, owed>>

MainThread ==
  \/ \E src \in Addresses, data \in Subscription : Subscribe(src, data)
  \/ \E src \in Addresses, data \in Cancellation : Cancel(src, data)
  \/ \E elapsed \in ElapsedSeconds : TimerSeconds(elapsed)
  \/ \E id \in InvokeIds : Answer(id)

-----------------------------------------------------------------------------
(* The COV thread: one call of handler_cov_fsm.                            *)

Start ==
  /\ cov_task_state = "IDLE"
  /\ cov_task_state' = "MARK" /\ index' = 1
  /\ UNCHANGED <<COV_Subscriptions, COV_Addresses, table, objects, inflight, owed>>

(* Mutant: the sweep goes one entry too far.                               *)
StepTooFar(state, next) ==
  /\ cov_task_state = state
  /\ IF index > MaxSubscriptions
     THEN cov_task_state' = next /\ index' = 1
     ELSE cov_task_state' = state /\ index' = index + 1

Step(state, next) ==
  /\ cov_task_state = state
  /\ IF index = MaxSubscriptions
     THEN cov_task_state' = next /\ index' = 1
     ELSE cov_task_state' = state /\ index' = index + 1

(* Device_COV is false of an object the device does not have.              *)
Mark ==
  LET sub == COV_Subscriptions[index]
  IN /\ Step("MARK", "CLEAR")
     /\ COV_Subscriptions' =
          IF sub.valid /\ sub.object \in changed \cap present
          THEN [COV_Subscriptions EXCEPT ![index].send_requested = TRUE]
          ELSE COV_Subscriptions
     /\ UNCHANGED <<COV_Addresses, table, objects, inflight, owed>>

(* Mutant: the flag is cleared whether or not a notification is requested. *)
ClearAlways ==
  LET sub == COV_Subscriptions[index]
  IN /\ Step("CLEAR", "FREE")
     /\ changed' = IF sub.valid /\ sub.object \in present THEN changed \ {sub.object}
                                                          ELSE changed
     /\ UNCHANGED <<COV_Subscriptions, COV_Addresses, table, present, inflight, owed>>

Clear ==
  LET sub == COV_Subscriptions[index]
  IN /\ Step("CLEAR", "FREE")
     /\ changed' = IF sub.valid /\ sub.send_requested /\ sub.object \in present
                   THEN changed \ {sub.object} ELSE changed
     /\ UNCHANGED <<COV_Subscriptions, COV_Addresses, table, present, inflight, owed>>

(* Mutant: only answered notifications are looked for.                     *)
FreeAnsweredOnly ==
  LET sub == COV_Subscriptions[index]
      done == sub.issueConfirmed /\ sub.invokeID # 0 /\ InvokeIdFree(TSM_List, sub.invokeID)
  IN /\ Step("FREE", "SEND")
     /\ COV_Subscriptions' = IF done THEN [COV_Subscriptions EXCEPT ![index].invokeID = 0]
                                     ELSE COV_Subscriptions
     /\ TSM_List' = IF done THEN FreeInvokeId(TSM_List, sub.invokeID) ELSE TSM_List
     /\ UNCHANGED <<COV_Addresses, Current_Invoke_ID, objects, inflight, owed>>

(* Housekeeping of confirmed notifications: answered, or failed.           *)
Free ==
  LET sub == COV_Subscriptions[index]
      done == /\ sub.valid /\ sub.issueConfirmed /\ sub.invokeID # 0
              /\ \/ InvokeIdFree(TSM_List, sub.invokeID)
                 \/ InvokeIdFailed(TSM_List, sub.invokeID)
  IN /\ Step("FREE", "SEND")
     /\ COV_Subscriptions' = IF done THEN [COV_Subscriptions EXCEPT ![index].invokeID = 0]
                                     ELSE COV_Subscriptions
     /\ TSM_List' = IF done THEN FreeInvokeId(TSM_List, sub.invokeID) ELSE TSM_List
     /\ UNCHANGED <<COV_Addresses, Current_Invoke_ID, objects, inflight, owed>>

(* Whether the send state reaches datalink_send_pdu for this subscription. *)
CanSend(sub) ==
  /\ sub.valid /\ sub.send_requested
  /\ sub.object \in present
  /\ AddressOf(sub) # NoAddress
  /\ sub.issueConfirmed => sub.invokeID = 0 /\ TransactionAvailable(TSM_List)

Skip ==
  /\ Step("SEND", "IDLE")
  /\ ~CanSend(COV_Subscriptions[index])
  /\ UNCHANGED <<COV_Subscriptions, COV_Addresses, table, objects, inflight, owed>>

(* The ID is kept and the transaction stays pending when the datalink      *)
(* fails; the request to send then stays as well.                          *)
SendConfirmed(sent) ==
  LET id == NextFreeInvokeId(TSM_List, Current_Invoke_ID)
  IN /\ Step("SEND", "IDLE")
     /\ CanSend(COV_Subscriptions[index]) /\ COV_Subscriptions[index].issueConfirmed
     /\ TSM_List' = SetConfirmedTransaction(
                      Reserve(TSM_List, Current_Invoke_ID, ApduTimeout), id, ApduTimeout)
     /\ Current_Invoke_ID' = CursorAfter(TSM_List, Current_Invoke_ID)
     /\ COV_Subscriptions' =
          [COV_Subscriptions EXCEPT ![index].invokeID = id, ![index].send_requested = ~sent]
     /\ inflight' = IF sent THEN inflight \cup {id} ELSE inflight
     /\ owed' = IF sent THEN owed \ {index} ELSE owed
     /\ UNCHANGED <<COV_Addresses, objects>>

SendUnconfirmed(sent) ==
  /\ Step("SEND", "IDLE")
  /\ CanSend(COV_Subscriptions[index]) /\ ~COV_Subscriptions[index].issueConfirmed
  /\ COV_Subscriptions' = [COV_Subscriptions EXCEPT ![index].send_requested = ~sent]
  /\ owed' = IF sent THEN owed \ {index} ELSE owed
  /\ UNCHANGED <<COV_Addresses, table, objects, inflight>>

Outcomes == IF DatalinkFails THEN BOOLEAN ELSE {TRUE}

CovThread ==
  \/ Start \/ Mark \/ Clear \/ Free \/ Skip
  \/ \E sent \in Outcomes : SendConfirmed(sent) \/ SendUnconfirmed(sent)

-----------------------------------------------------------------------------
(* The refresh thread and the network.                                     *)

(* assign_device: a new value, with the COV flag of its object set.        *)
ValueChanges(object) ==
  /\ object \in present
  /\ changed' = changed \cup {object}
  /\ owed' = owed \cup {i \in ValidIn(COV_Subscriptions) : COV_Subscriptions[i].object = object}
  /\ UNCHANGED <<COV_Subscriptions, COV_Addresses, table, fsm, present, inflight>>

(* object_init outside the locks, after the device list was rebuilt.       *)
ObjectInit(S) ==
  /\ present' = S
  /\ UNCHANGED <<COV_Subscriptions, COV_Addresses, table, fsm, changed, inflight, owed>>

Lose(id) ==
  /\ id \in inflight
  /\ inflight' = inflight \ {id}
  /\ UNCHANGED <<COV_Subscriptions, COV_Addresses, table, fsm, objects, owed>>

Environment ==
  \/ \E object \in Objects : ValueChanges(object)
  \/ \E S \in ObjectLists : ObjectInit(S)
  \/ \E id \in InvokeIds : Lose(id)

Next == MainThread \/ CovThread \/ Environment

Spec == Init /\ [][Next]_vars

(* Both threads loop for ever. Nothing is assumed of the network, of the   *)
(* subscribers or of the sensors.                                          *)
Fairness ==
  /\ WF_vars(CovThread)
  /\ WF_vars(\E elapsed \in ElapsedSeconds : TimerSeconds(elapsed))
FairSpec == Spec /\ Fairness

-----------------------------------------------------------------------------
(* Properties.                                                             *)

Valid == ValidIn(COV_Subscriptions)
Context(i) ==
  <<AddressOf(COV_Subscriptions[i]), COV_Subscriptions[i].object, COV_Subscriptions[i].pid>>

(* A subscription never points at an address slot that was given back, and *)
(* a slot is given back with its last subscription: 16 slots serve 2000    *)
(* subscriptions, through three paths that release them.                   *)
AddressTableConsistent ==
  /\ \A i \in Valid : AddressOf(COV_Subscriptions[i]) = NoAddress
                     => COV_Subscriptions[i].dest_index = NoSlot
  /\ \A a \in AddressSlots : COV_Addresses[a] # NoAddress
                            => \E i \in Valid : COV_Subscriptions[i].dest_index = a

(* No address is stored twice, or a subscription would not be found again. *)
UniqueAddresses ==
  \A a, b \in AddressSlots :
    a # b /\ COV_Addresses[a] # NoAddress => COV_Addresses[a] # COV_Addresses[b]

(* Every transaction in use is waited for by a valid subscription: none of *)
(* cancellation, renewal, expiry and failure forgets to free it.           *)
NoSlotLeaks ==
  \A id \in UsedIds(TSM_List) : \E i \in Valid : COV_Subscriptions[i].invokeID = id

(* Only confirmed subscriptions have an ID: the expiry handler frees the   *)
(* ID of those alone.                                                      *)
OnlyConfirmedHaveIds ==
  \A i \in Subscriptions : COV_Subscriptions[i].invokeID # 0 =>
    i \in Valid /\ COV_Subscriptions[i].issueConfirmed

(* Every subscription that was acknowledged has an address to notify.      *)
EverySubscriptionIsAddressed ==
  \A i \in Valid : AddressOf(COV_Subscriptions[i]) # NoAddress

(* A subscriber that has not been sent the current value is either marked  *)
(* or the flag that will mark it is still set: "clear the COV flag after   *)
(* checking all subscriptions".                                            *)
NoChangeIsMissed ==
  \A i \in owed : COV_Subscriptions[i].send_requested \/ COV_Subscriptions[i].object \in changed

(* The entries, slots and sweeps implement the COV contexts of the service:*)
(* no request, expiry or notification affects a context but its own,       *)
(* whatever entries and slots the subscribers had before.                  *)
ContextTerms(key) ==
  LET sub == COV_Subscriptions[CHOOSE i \in Valid : Context(i) = key]
  IN [confirmed |-> sub.issueConfirmed, lifetime |-> sub.lifetime]
Keys == {Context(i) : i \in Valid}
Contexts == [key \in Keys |-> ContextTerms(key)]
Pending == {Context(i) : i \in owed}
Service == INSTANCE CovContexts WITH
  Subscribers <- Addresses, Processes <- ProcessIds, Capacity <- MaxSubscriptions,
  Elapsed <- ElapsedSeconds, contexts <- Contexts, pending <- Pending
ImplementsContexts == Service!Spec

(* Once the sensors stay, a new value reaches every subscriber of its       *)
(* object, or the subscription ends: "if changed, send the notice". Only    *)
(* transactions that other subscribers hold can keep it from that.          *)
HeldByOthers(i) == \E j \in Subscriptions \ {i} : COV_Subscriptions[j].invokeID # 0
EveryChangeIsSent ==
  <>[](present = Objects) =>
    \A i \in Subscriptions : i \in owed ~> i \notin owed \/ HeldByOthers(i)
=============================================================================
