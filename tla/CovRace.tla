------------------------------ MODULE CovRace -------------------------------
(***************************************************************************)
(* The main thread and the COV thread inside their calls. Cov takes a call *)
(* of handler_cov_fsm, or of handler_cov_subscribe, as one step; but one   *)
(* holds cov_sem and the other server_sem, so that their statements        *)
(* interleave as well. Here each statement of main/handler/h_cov.c that    *)
(* reads or writes a subscription is a step of its own:                    *)
(*                                                                         *)
(*  - valid, issueConfirmedNotifications and send_requested are bit fields *)
(*    of one byte: an assignment to one of them loads the byte, and later  *)
(*    stores it with the other two as they were;                           *)
(*  - the other fields have bytes of their own;                            *)
(*  - cov_send_request keeps a pointer into COV_Addresses until it sends.  *)
(*                                                                         *)
(* A function of tsm.c and a search through a table is one step. Process   *)
(* identifiers are left out and a lifetime ends at any time. So are the    *)
(* clearing sweep, which writes nothing here, the replies, and the timer   *)
(* of tsm.c, to which server.c always passes an elapsed time of 0.         *)
(***************************************************************************)
EXTENDS TransactionTable, Sequences

CONSTANTS
  MaxSubscriptions, MaxAddresses,
  Subscribers,     \* BACnet addresses
  Objects,         \* objects that support COV
  FirstObject,     \* what an entry starts with: object type and instance 0
  Confirmations,   \* kinds of notification that are requested, BOOLEAN
  ApduTimeout,
  DatalinkFails,   \* whether datalink_send_pdu may fail
  MaxRequests,     \* bound: requests and expiries handled
  Nobody           \* no subscriber

ASSUME CovRaceAssumption ==
  /\ MaxSubscriptions \in Nat \ {0} /\ MaxAddresses \in Nat \ {0}
  /\ FirstObject \in Objects /\ Nobody \notin Subscribers
  /\ Confirmations \subseteq BOOLEAN /\ ApduTimeout \in Nat \ {0}
  /\ DatalinkFails \in BOOLEAN /\ MaxRequests \in Nat

VARIABLES
  flag, dest_index, invokeID, monitoredObject,  \* the fields of COV_Subscriptions
  COV_Addresses,
  TSM_List, Current_Invoke_ID,
  main,       \* the main thread: the entry, what is left to do, the byte loaded
  cov,        \* the COV thread: sweep, entry, statement, what it has loaded
  inflight,   \* IDs of which the network holds a notification or an answer
  asked,      \* history: what the last request handled made of each entry
  overlap,    \* history: entries that both threads worked on at once
  stray,      \* history: IDs reserved for an entry of overlap
  requests    \* history: how many requests were begun

fields == <<flag, dest_index, invokeID, monitoredObject, COV_Addresses>>
table == <<TSM_List, Current_Invoke_ID>>
vars == <<fields, table, main, cov, inflight, asked, overlap, stray, requests>>

Entries == 1..MaxSubscriptions
AddressSlots == 1..MaxAddresses
NoSlot == 0   \* dest_index -1

NoFlags == [valid |-> FALSE, confirmed |-> FALSE, requested |-> FALSE]
NotAsked == [who |-> Nobody, object |-> FirstObject, confirmed |-> FALSE]

-----------------------------------------------------------------------------
(* The address table. A slot that is given back keeps its address.         *)

HasAddress(i) == dest_index[i] # NoSlot /\ COV_Addresses[dest_index[i]].valid

Least(set) == CHOOSE a \in set : \A b \in set : a <= b
Holding(who) == {a \in AddressSlots : COV_Addresses[a] = [valid |-> TRUE, dest |-> who]}
FreeAddresses == {a \in AddressSlots : ~COV_Addresses[a].valid}
SlotFor(who) == IF Holding(who) # {} THEN Least(Holding(who))
                ELSE IF FreeAddresses # {} THEN Least(FreeAddresses) ELSE NoSlot

AddAddress(i, who) ==
  /\ dest_index' = [dest_index EXCEPT ![i] = SlotFor(who)]
  /\ COV_Addresses' = [a \in AddressSlots |->
       IF a = SlotFor(who) THEN [valid |-> TRUE, dest |-> who] ELSE COV_Addresses[a]]

(* Mutant: the slot of the entry is given back without a look at others.   *)
RemoveOwnAddress(i) ==
  /\ dest_index' = [dest_index EXCEPT ![i] = NoSlot]
  /\ COV_Addresses' = [a \in AddressSlots |->
       [COV_Addresses[a] EXCEPT !.valid = @ /\ dest_index[i] # a]]

RemoveAddress(i) ==
  /\ dest_index' = [dest_index EXCEPT ![i] = NoSlot]
  /\ COV_Addresses' = [a \in AddressSlots |->
       [COV_Addresses[a] EXCEPT !.valid = @ /\ \E j \in Entries \ {i} :
          flag[j].valid /\ dest_index[j] = a]]

-----------------------------------------------------------------------------
(* The main thread: what its requests have to execute, and its statements. *)

CancelProgram == <<"load", "invalidate", "removeAddress", "free", "forget">>

(* Mutant: an expired subscription forgets its ID without freeing it.      *)
ExpireProgramForgets == <<"load", "invalidate", "removeAddress", "forget">>

ExpireProgram == <<"load", "invalidate", "removeAddress", "freeConfirmed", "forget">>

(* Mutant: the renewal leaves the kind of notification as it was.          *)
RenewProgramUnconfirmed == <<"addAddress", "load", "request", "free", "forget">>

RenewProgram == <<"addAddress", "load", "confirm", "load", "request", "free", "forget">>
NewProgram == <<"load", "validate", "addAddress", "setObject", "load", "confirm",
                "forget", "load", "request">>

Existing(who, object) ==
  {i \in Entries : /\ flag[i].valid /\ monitoredObject[i] = object
                   /\ HasAddress(i) => COV_Addresses[dest_index[i]].dest = who}
Unused == {i \in Entries : ~flag[i].valid}

NoWork == [entry |-> 0, todo |-> << >>, terms |-> NotAsked, byte |-> NoFlags]

Begin(i, program, terms) ==
  /\ requests < MaxRequests /\ requests' = requests + 1
  /\ main' = [entry |-> i, todo |-> program, terms |-> terms, byte |-> NoFlags]
  /\ UNCHANGED <<fields, table, cov, inflight, asked>>

Subscribe(terms) ==
  LET existing == Existing(terms.who, terms.object) IN
  \/ existing # {} /\ Begin(Least(existing), RenewProgram, terms)
  \/ existing = {} /\ Unused # {} /\ Begin(Least(Unused), NewProgram, terms)

Cancel(who, object) ==
  LET existing == Existing(who, object) IN
  existing # {} /\ Begin(Least(existing), CancelProgram, NotAsked)

Expire(i) == flag[i].valid /\ Begin(i, ExpireProgram, NotAsked)

Answer(id) ==
  /\ TSM_List' = FreeInvokeId(TSM_List, id)
  /\ \/ inflight' = inflight \ {id}
     \/ UNCHANGED inflight
  /\ UNCHANGED <<fields, Current_Invoke_ID, main, cov, asked, requests>>

(* On to the rest of the program, or back to the loop of the server.       *)
Proceed(rest, byte) ==
  /\ main' = IF rest = << >> THEN NoWork ELSE [main EXCEPT !.todo = rest, !.byte = byte]
  /\ asked' = IF rest = << >> THEN [asked EXCEPT ![main.entry] = main.terms] ELSE asked
  /\ UNCHANGED <<cov, inflight, requests, Current_Invoke_ID>>

Stored(op) ==
  CASE op = "invalidate" -> [main.byte EXCEPT !.valid = FALSE]
    [] op = "validate" -> [main.byte EXCEPT !.valid = TRUE]
    [] op = "confirm" -> [main.byte EXCEPT !.confirmed = main.terms.confirmed]
    [] op = "request" -> [main.byte EXCEPT !.requested = TRUE]

Execute(op, i, rest) ==
  \/ /\ op = "load"
     /\ Proceed(rest, flag[i])
     /\ UNCHANGED <<fields, TSM_List>>
  \/ /\ op \in {"invalidate", "validate", "confirm", "request"}
     /\ flag' = [flag EXCEPT ![i] = Stored(op)]
     /\ Proceed(rest, NoFlags)
     /\ UNCHANGED <<dest_index, invokeID, monitoredObject, COV_Addresses, TSM_List>>
  \/ /\ \/ op = "addAddress" /\ AddAddress(i, main.terms.who)
        \/ op = "removeAddress" /\ RemoveAddress(i)
     /\ Proceed(rest, NoFlags)
     /\ UNCHANGED <<flag, invokeID, monitoredObject, TSM_List>>
  \/ /\ op = "setObject"
     /\ monitoredObject' = [monitoredObject EXCEPT ![i] = main.terms.object]
     /\ Proceed(rest, NoFlags)
     /\ UNCHANGED <<flag, dest_index, invokeID, COV_Addresses, TSM_List>>
  \/ /\ op \in {"free", "freeConfirmed"}
     /\ IF invokeID[i] # 0 /\ (op = "freeConfirmed" => flag[i].confirmed)
        THEN Proceed(rest, NoFlags) /\ TSM_List' = FreeInvokeId(TSM_List, invokeID[i])
        ELSE Proceed(<< >>, NoFlags) /\ UNCHANGED TSM_List
     /\ UNCHANGED fields
  \/ /\ op = "forget"
     /\ invokeID' = [invokeID EXCEPT ![i] = 0]
     /\ Proceed(rest, NoFlags)
     /\ UNCHANGED <<flag, dest_index, monitoredObject, COV_Addresses, TSM_List>>

MainThread ==
  \/ /\ main.entry = 0
     /\ \/ \E who \in Subscribers, object \in Objects :
             \/ \E c \in Confirmations :
                  Subscribe([who |-> who, object |-> object, confirmed |-> c])
             \/ Cancel(who, object)
        \/ \E i \in Entries : Expire(i)
        \/ \E id \in inflight : Answer(id)
  \/ main.entry # 0 /\ Execute(Head(main.todo), main.entry, Tail(main.todo))

-----------------------------------------------------------------------------
(* The COV thread. The statement "enter" looks at the entry of the sweep.  *)

AtEntry(sweep, i) == [sweep |-> sweep, index |-> i, pc |-> "enter", byte |-> NoFlags,
                      id |-> 0, dest |-> NoSlot, value |-> FirstObject, object |-> FirstObject]

NextEntry(sweep, i) ==
  IF i < MaxSubscriptions THEN AtEntry(sweep, i + 1)
  ELSE AtEntry(CASE sweep = "mark" -> "free" [] sweep = "free" -> "send" [] OTHER -> "mark", 1)

Goto(pc) == cov' = [cov EXCEPT !.pc = pc]
Advance == cov' = NextEntry(cov.sweep, cov.index)
NothingWritten == UNCHANGED <<fields, table, inflight>>

CanSend(i) == /\ flag[i].valid /\ flag[i].requested
              /\ flag[i].confirmed => invokeID[i] = 0 /\ TransactionAvailable(TSM_List)

(* Whether the object has changed is left open.                            *)
Enter(i) ==
  /\ cov.pc = "enter"
  /\ \/ cov.sweep = "mark" /\ flag[i].valid /\ Goto("loadMark")
     \/ cov.sweep = "free" /\ flag[i].valid /\ flag[i].confirmed /\ invokeID[i] # 0
        /\ cov' = [cov EXCEPT !.pc = "test", !.id = invokeID[i]]
     \/ cov.sweep = "send" /\ CanSend(i) /\ Goto("encodeValue")
     \/ /\ cov.sweep = "free" => ~(flag[i].valid /\ flag[i].confirmed /\ invokeID[i] # 0)
        /\ cov.sweep = "send" => ~CanSend(i)
        /\ Advance
  /\ NothingWritten

(* send_requested is set, or cleared after sending.                        *)
LoadFlag(i) ==
  /\ \/ cov.pc = "loadMark" /\ cov' = [cov EXCEPT !.pc = "mark", !.byte = flag[i]]
     \/ cov.pc = "loadSent" /\ cov' = [cov EXCEPT !.pc = "sent", !.byte = flag[i]]
  /\ NothingWritten

StoreFlag(i) ==
  /\ cov.pc \in {"mark", "sent"}
  /\ flag' = [flag EXCEPT ![i] = [cov.byte EXCEPT !.requested = (cov.pc = "mark")]]
  /\ Advance
  /\ UNCHANGED <<dest_index, invokeID, monitoredObject, COV_Addresses, table, inflight>>

TestId(i) ==
  /\ cov.pc = "test"
  /\ IF InvokeIdFree(TSM_List, cov.id) THEN Goto("dropId")
     ELSE IF InvokeIdFailed(TSM_List, invokeID[i]) THEN Goto("freeId") ELSE Advance
  /\ NothingWritten

FreeId(i) ==
  /\ cov.pc = "freeId"
  /\ TSM_List' = FreeInvokeId(TSM_List, invokeID[i])
  /\ Goto("dropId")
  /\ UNCHANGED <<fields, Current_Invoke_ID, inflight>>

WriteId(i) ==
  /\ \/ cov.pc = "dropId" /\ invokeID' = [invokeID EXCEPT ![i] = 0] /\ Advance
     \/ cov.pc = "storeId" /\ invokeID' = [invokeID EXCEPT ![i] = cov.id] /\ Goto("set")
  /\ UNCHANGED <<flag, dest_index, monitoredObject, COV_Addresses, table, inflight>>

EncodeValue(i) ==
  /\ cov.pc = "encodeValue"
  /\ cov' = [cov EXCEPT !.pc = "getAddress", !.value = monitoredObject[i]]
  /\ NothingWritten

GetAddress(i) ==
  /\ cov.pc = "getAddress"
  /\ IF HasAddress(i) THEN cov' = [cov EXCEPT !.pc = "identify", !.dest = dest_index[i]]
                      ELSE Advance
  /\ NothingWritten

Identify(i) ==
  /\ cov.pc = "identify"
  /\ IF ~flag[i].confirmed
     THEN /\ cov' = [cov EXCEPT !.pc = "set", !.object = monitoredObject[i]]
          /\ UNCHANGED table
     ELSE IF ~TransactionAvailable(TSM_List) THEN Advance /\ UNCHANGED table
     ELSE /\ cov' = [cov EXCEPT !.pc = "storeId", !.object = monitoredObject[i],
                                !.id = NextFreeInvokeId(TSM_List, Current_Invoke_ID)]
          /\ TSM_List' = Reserve(TSM_List, Current_Invoke_ID, ApduTimeout)
          /\ Current_Invoke_ID' = CursorAfter(TSM_List, Current_Invoke_ID)
  /\ UNCHANGED <<fields, inflight>>

SetTransaction(i) ==
  /\ cov.pc = "set"
  /\ TSM_List' = IF flag[i].confirmed
                 THEN SetConfirmedTransaction(TSM_List, cov.id, ApduTimeout) ELSE TSM_List
  /\ Goto("send")
  /\ UNCHANGED <<fields, Current_Invoke_ID, inflight>>

Send ==
  /\ cov.pc = "send"
  /\ \/ Goto("loadSent") /\ inflight' = inflight \cup ({cov.id} \ {0})
     \/ DatalinkFails /\ Advance /\ UNCHANGED inflight
  /\ UNCHANGED <<fields, table>>

CovThread ==
  LET i == cov.index IN
  /\ \/ Enter(i) \/ LoadFlag(i) \/ StoreFlag(i)
     \/ TestId(i) \/ FreeId(i) \/ WriteId(i)
     \/ EncodeValue(i) \/ GetAddress(i) \/ Identify(i) \/ SetTransaction(i) \/ Send
  /\ UNCHANGED <<main, asked, requests>>

-----------------------------------------------------------------------------
Lose(id) ==
  /\ inflight' = inflight \ {id}
  /\ UNCHANGED <<fields, table, main, cov, asked, requests>>

Init ==
  /\ flag = [i \in Entries |-> NoFlags] /\ dest_index = [i \in Entries |-> 1]
  /\ invokeID = [i \in Entries |-> 0]
  /\ monitoredObject = [i \in Entries |-> FirstObject]
  /\ COV_Addresses = [a \in AddressSlots |-> [valid |-> FALSE, dest |-> Nobody]]
  /\ TSM_List = EmptyTable /\ Current_Invoke_ID = 1
  /\ main = NoWork /\ cov = AtEntry("mark", 1)
  /\ inflight = {} /\ requests = 0
  /\ asked = [i \in Entries |-> NotAsked] /\ overlap = {} /\ stray = {}

(* Both threads work on an entry. What that spoils is repaired as the      *)
(* entry is given to a new subscription, but for a transaction that was    *)
(* reserved meanwhile.                                                     *)
Together(m, c) == IF c.pc # "enter" /\ m.entry = c.index THEN {c.index} ELSE {}
Watch ==
  LET given == IF main.entry = 0 /\ main'.todo = NewProgram THEN {main'.entry} ELSE {} IN
  /\ overlap' = (overlap \ given) \cup Together(main', cov')
  /\ stray' = (stray \cap UsedIds(TSM_List)')
                \cup (IF cov'.sweep = "send" /\ cov'.index \in overlap' THEN {cov'.id} \ {0} ELSE {})

Next == /\ \/ MainThread
           \/ CovThread
           \/ \E id \in inflight : Lose(id)
        /\ Watch

Spec == Init /\ [][Next]_vars

-----------------------------------------------------------------------------
(* The two semaphores suffice for requests that do not hit the entry the   *)
(* COV thread is at: whatever both threads do to other entries, an entry   *)
(* is what its last request made of it, and leads to its subscriber. A     *)
(* cancelled one stays cancelled and keeps no ID.                          *)
EntriesAreAsAsked ==
  \A i \in Entries \ (overlap \cup {main.entry}) :
    IF asked[i] = NotAsked THEN ~flag[i].valid /\ invokeID[i] = 0
    ELSE /\ flag[i].valid /\ flag[i].confirmed = asked[i].confirmed
         /\ monitoredObject[i] = asked[i].object
         /\ HasAddress(i) /\ COV_Addresses[dest_index[i]].dest = asked[i].who
         /\ ~asked[i].confirmed => invokeID[i] = 0

(* A notification tells the value of the object it names, as its recipient *)
(* asked for it, unless a request for that entry came while the COV thread *)
(* was at it. The slot of the address it was read from is not given to     *)
(* another subscriber before it is sent.                                   *)
NotificationsAreTrue ==
  cov.pc = "send" /\ cov.index \notin overlap =>
    LET terms == asked[cov.index] IN
    /\ cov.value = terms.object /\ cov.object = terms.object
    /\ COV_Addresses[cov.dest] = [valid |-> TRUE, dest |-> terms.who]
    /\ (cov.id # 0) = terms.confirmed

(* A transaction in use belongs to a confirmed subscription, a request     *)
(* that is about to free it, or the COV thread, unless a request for that  *)
(* entry came between the allocation of its ID and the sending.            *)
TransactionsAreHeld ==
  \A id \in UsedIds(TSM_List) \ stray :
    \/ cov.id = id
    \/ \E i \in Entries : invokeID[i] = id /\ (asked[i].confirmed \/ main.entry = i)
=============================================================================
