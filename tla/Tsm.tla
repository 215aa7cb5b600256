-------------------------------- MODULE Tsm ---------------------------------
(***************************************************************************)
(* The transaction state machine of src/tsm.c under the use the server     *)
(* makes of it. Its clients are COV subscriptions with confirmed           *)
(* notifications; three activities meet at the table:                      *)
(*                                                                         *)
(*  - the COV thread, which in each cycle first does the housekeeping of   *)
(*    every client (COV_STATE_FREE) and then sends (COV_STATE_SEND);       *)
(*  - the main thread, which frees the ID of any answer that arrives,      *)
(*    whoever sent it, frees the ID of a subscription that is cancelled or *)
(*    expires, and runs the retransmission timer;                          *)
(*  - the network, which loses, delays and duplicates requests and answers.*)
(*                                                                         *)
(* A call of a tsm function is one step.                                   *)
(***************************************************************************)
EXTENDS TransactionTable

CONSTANTS
  Clients,   \* subscriptions with confirmed notifications
  Elapsed,   \* values tsm_timer_milliseconds is called with
  Timeouts,  \* values WriteProperty gives to APDU_TIMEOUT
  Retries    \* values WriteProperty gives to NUMBER_OF_APDU_RETRIES

ASSUME TsmAssumption ==
  /\ Elapsed \subseteq Nat /\ Elapsed # {}
  /\ Timeouts \subseteq Nat /\ Timeouts # {}
  /\ Retries \subseteq Nat /\ Retries # {}

VARIABLES
  TSM_List,
  Current_Invoke_ID,
  Timeout_Milliseconds,
  Number_Of_Retries,
  invokeID,       \* the ID each client waits for, 0 when it waits for none
  phase,          \* state of the COV thread: COV_STATE_FREE or COV_STATE_SEND
  todo,           \* clients this phase has not reached yet
  inflight,       \* IDs of which the network still holds a request or an answer
  transmissions,  \* history: how often the request of a slot was sent
  age             \* history: IDs handed out since this one was, capped at Window

table == <<TSM_List, Current_Invoke_ID>>
config == <<Timeout_Milliseconds, Number_Of_Retries>>
thread == <<phase, todo>>
history == <<transmissions, age>>
vars == <<table, config, invokeID, thread, inflight, history>>

(* The other IDs that are handed out, at least, before one is used again.  *)
Window == MaxInvokeId - MaxTransactions

TypeOK ==
  /\ TSM_List \in [Slots -> Entry]
  /\ Current_Invoke_ID \in InvokeIds
  /\ Timeout_Milliseconds \in Timeouts
  /\ Number_Of_Retries \in Retries
  /\ invokeID \in [Clients -> 0..MaxInvokeId]
  /\ phase \in {"FREE", "SEND"}
  /\ todo \in SUBSET Clients
  /\ inflight \in SUBSET InvokeIds
  /\ transmissions \in [Slots -> Nat]
  /\ age \in [InvokeIds -> 0..Window]

(* dlenv_init may start the cursor anywhere (BACNET_INVOKE_ID).            *)
Init ==
  /\ TSM_List = EmptyTable
  /\ Current_Invoke_ID \in InvokeIds
  /\ Timeout_Milliseconds \in Timeouts
  /\ Number_Of_Retries \in Retries
  /\ invokeID = [c \in Clients |-> 0]
  /\ phase = "FREE" /\ todo = Clients
  /\ inflight = {}
  /\ transmissions = [s \in Slots |-> 0]
  /\ age = [id \in InvokeIds |-> Window]

-----------------------------------------------------------------------------
(* The COV thread.                                                         *)

Advance(c) ==
  IF todo = {c}
  THEN /\ phase' = IF phase = "FREE" THEN "SEND" ELSE "FREE"
       /\ todo' = Clients
  ELSE /\ todo' = todo \ {c}
       /\ UNCHANGED phase

(* Mutant: the client forgets a failed transaction without freeing it.     *)
HousekeepingForgets(c) ==
  LET id == invokeID[c]
      over == InvokeIdFree(TSM_List, id) \/ InvokeIdFailed(TSM_List, id)
  IN /\ phase = "FREE" /\ c \in todo
     /\ Advance(c)
     /\ invokeID' = IF over THEN [invokeID EXCEPT ![c] = 0] ELSE invokeID
     /\ UNCHANGED <<table, config, inflight, history>>

(* Mutant: only answered transactions are looked for.                      *)
HousekeepingAnsweredOnly(c) ==
  /\ phase = "FREE" /\ c \in todo
  /\ Advance(c)
  /\ invokeID' = IF InvokeIdFree(TSM_List, invokeID[c]) THEN [invokeID EXCEPT ![c] = 0]
                                                        ELSE invokeID
  /\ UNCHANGED <<table, config, inflight, history>>

(* An answered transaction has left the table; a failed one is freed here. *)
Housekeeping(c) ==
  LET id == invokeID[c]
      free == InvokeIdFree(TSM_List, id)
      failed == InvokeIdFailed(TSM_List, id)
  IN /\ phase = "FREE" /\ c \in todo
     /\ Advance(c)
     /\ IF id # 0 /\ (free \/ failed)
        THEN /\ invokeID' = [invokeID EXCEPT ![c] = 0]
             /\ TSM_List' = IF free THEN TSM_List ELSE FreeInvokeId(TSM_List, id)
        ELSE UNCHANGED <<invokeID, TSM_List>>
     /\ UNCHANGED <<Current_Invoke_ID, config, inflight, history>>

HandOut(id) ==
  age' = [i \in InvokeIds |->
            IF i = id THEN 0 ELSE IF age[i] < Window THEN age[i] + 1 ELSE Window]

(* The pair tsm_next_free_invokeID and                                     *)
(* tsm_set_confirmed_unsegmented_transaction of cov_send_request.          *)
SendConfirmed(c) ==
  LET id == NextFreeInvokeId(TSM_List, Current_Invoke_ID)
      reserved == Reserve(TSM_List, Current_Invoke_ID, Timeout_Milliseconds)
  IN /\ phase = "SEND" /\ c \in todo
     /\ invokeID[c] = 0
     /\ TransactionAvailable(TSM_List)
     /\ Advance(c)
     /\ TSM_List' = SetConfirmedTransaction(reserved, id, Timeout_Milliseconds)
     /\ Current_Invoke_ID' = CursorAfter(TSM_List, Current_Invoke_ID)
     /\ invokeID' = [invokeID EXCEPT ![c] = id]
     /\ inflight' = inflight \cup {id}
     /\ transmissions' = [transmissions EXCEPT ![FirstFreeSlot(TSM_List)] = 1]
     /\ HandOut(id)
     /\ UNCHANGED config

(* Nothing to send, already sending, or no transaction available.          *)
SendNothing(c) ==
  /\ phase = "SEND" /\ c \in todo
  /\ Advance(c)
  /\ UNCHANGED <<table, config, invokeID, inflight, history>>

CovThread == \E c \in Clients : Housekeeping(c) \/ SendConfirmed(c) \/ SendNothing(c)

-----------------------------------------------------------------------------
(* The main thread.                                                        *)

(* A simple ACK, a complex ACK, an error, a reject or an abort.            *)
Answer(id) ==
  /\ id \in inflight
  /\ TSM_List' = FreeInvokeId(TSM_List, id)
  /\ \/ inflight' = inflight \ {id}
     \/ UNCHANGED inflight  \* a duplicate is still on its way
  /\ UNCHANGED <<Current_Invoke_ID, config, invokeID, thread, history>>

Release(c) ==
  /\ invokeID[c] # 0
  /\ TSM_List' = FreeInvokeId(TSM_List, invokeID[c])
  /\ invokeID' = [invokeID EXCEPT ![c] = 0]
  /\ UNCHANGED <<Current_Invoke_ID, config, thread, inflight, history>>

Timer(ms) ==
  LET resent == Retransmitted(TSM_List, ms, Number_Of_Retries)
  IN /\ TSM_List' = TimerMilliseconds(TSM_List, ms, Timeout_Milliseconds, Number_Of_Retries)
     /\ inflight' = inflight \cup {TSM_List[s].InvokeID : s \in resent}
     /\ transmissions' = [s \in Slots |-> IF s \in resent THEN transmissions[s] + 1
                                                          ELSE transmissions[s]]
     /\ UNCHANGED <<Current_Invoke_ID, config, invokeID, thread, age>>

ApduTimeoutSet(t) ==
  /\ Timeout_Milliseconds' = t
  /\ UNCHANGED <<table, Number_Of_Retries, invokeID, thread, inflight, history>>

ApduRetriesSet(n) ==
  /\ Number_Of_Retries' = n
  /\ UNCHANGED <<table, Timeout_Milliseconds, invokeID, thread, inflight, history>>

MainThread ==
  \/ \E id \in InvokeIds : Answer(id)
  \/ \E c \in Clients : Release(c)
  \/ \E ms \in Elapsed : Timer(ms)
  \/ \E t \in Timeouts : ApduTimeoutSet(t)
  \/ \E n \in Retries : ApduRetriesSet(n)

Lose(id) ==
  /\ id \in inflight
  /\ inflight' = inflight \ {id}
  /\ UNCHANGED <<table, config, invokeID, thread, history>>

Next == CovThread \/ MainThread \/ \E id \in InvokeIds : Lose(id)

(* Both threads loop for ever: the COV thread every 200 ms, the timer of   *)
(* the main thread about once a second. Nothing is assumed of the network. *)
Fairness ==
  /\ WF_vars(CovThread)
  /\ WF_vars(\E ms \in Elapsed : Timer(ms))

Spec == Init /\ [][Next]_vars
FairSpec == Spec /\ Fairness

-----------------------------------------------------------------------------
(* Properties.                                                             *)

(* An invoke ID other than 0 is in at most one slot: every function of     *)
(* tsm.c stops at the first slot with the ID it looks for.                 *)
UniqueInvokeIds ==
  \A s, t \in Slots :
    s # t /\ TSM_List[s].InvokeID # 0 => TSM_List[s].InvokeID # TSM_List[t].InvokeID

(* A slot without an ID is never AWAIT: the timer looks at the state only, *)
(* and would send again on behalf of a transaction that is over.           *)
FreeSlotsAreIdle ==
  \A s \in Slots : TSM_List[s].InvokeID = 0 => TSM_List[s].state = Idle

(* A slot that is in use is waited for by a client, which will free it. A  *)
(* slot nobody knows of is lost for ever, and there are five.              *)
NoSlotLeaks == \A id \in UsedIds(TSM_List) : \E c \in Clients : invokeID[c] = id

(* An ID is handed out again only after Window others were: the answer to  *)
(* an old request, which is matched by ID alone, cannot be taken for the   *)
(* answer to a new one unless it is late by as many requests.              *)
IdsAreReusedLate ==
  [][\A id \in InvokeIds :
       id \in UsedIds(TSM_List') \ UsedIds(TSM_List) => age[id] >= Window]_vars

(* A request is given up only after the first transmission and all the     *)
(* retries configured at that time, however the slot was used before.      *)
FailsLate ==
  \A s \in Slots :
    TSM_List[s].state = Await /\ TSM_List'[s].state = Idle /\ TSM_List'[s].InvokeID # 0
      => transmissions[s] >= 1 + Number_Of_Retries
GivesUpAfterAllRetries == [][FailsLate]_vars

(* No request is sent more often than the largest retry count allows.      *)
BoundedTransmissions ==
  \A s \in Slots : TSM_List[s].state = Await =>
    \E n \in Retries : transmissions[s] <= 1 + n

(* "failed" or "free": every client is told the outcome of its request,    *)
(* even when all answers are lost (tsm_invoke_id_free, tsm_invoke_id_failed). *)
EveryRequestEnds == \A c \in Clients : invokeID[c] # 0 ~> invokeID[c] = 0
=============================================================================
