-------------------------- MODULE TransactionTable --------------------------
(***************************************************************************)
(* The table of the transaction state machine, TSM_List of src/tsm.c, as   *)
(* pure operators: the value of the table after each of its functions.     *)
(* Tsm turns them into actions; Cov composes them with the COV handler.    *)
(*                                                                         *)
(* The APDU, the NPDU data and the destination kept for a retransmission   *)
(* are left out: nothing reads them but the retransmission itself.         *)
(***************************************************************************)
EXTENDS Integers, FiniteSets

CONSTANTS
  MaxTransactions,  \* MAX_TSM_TRANSACTIONS of config.h, 5 in this build
  MaxInvokeId       \* largest invoke ID: a uint8_t, 255

(* An ID that is not in the table exists whenever a slot is free, or the   *)
(* search loop of tsm_next_free_invokeID would not end.                    *)
ASSUME TableAssumption ==
  /\ MaxTransactions \in Nat \ {0}
  /\ MaxInvokeId \in Nat \ {0}
  /\ MaxTransactions <= MaxInvokeId

Slots == 1..MaxTransactions
InvokeIds == 1..MaxInvokeId

Idle == "TSM_STATE_IDLE"
Await == "TSM_STATE_AWAIT_CONFIRMATION"

Entry == [InvokeID : 0..MaxInvokeId, state : {Idle, Await},
          RetryCount : Nat, RequestTimer : Nat]

FreeEntry == [InvokeID |-> 0, state |-> Idle, RetryCount |-> 0, RequestTimer |-> 0]
EmptyTable == [s \in Slots |-> FreeEntry]

-----------------------------------------------------------------------------
(* Looking the table up.                                                   *)

UsedIds(list) == {list[s].InvokeID : s \in Slots} \ {0}
TransactionAvailable(list) == \E s \in Slots : list[s].InvokeID = 0
FirstFreeSlot(list) ==
  CHOOSE s \in Slots : /\ list[s].InvokeID = 0
                       /\ \A t \in 1..(s - 1) : list[t].InvokeID # 0

InvokeIdFree(list, id) == \A s \in Slots : list[s].InvokeID # id
InvokeIdFailed(list, id) ==
  \E s \in Slots : list[s].InvokeID = id /\ list[s].state = Idle

-----------------------------------------------------------------------------
(* Allocation. The cursor Current_Invoke_ID steps over the IDs in use; the *)
(* uint8_t wraps from MaxInvokeId to 0 and 0 is skipped.                   *)

(* Mutant: the ID 0 is not skipped when the cursor wraps.                  *)
IdAfterWithZero(cursor, distance) == (cursor + distance) % (MaxInvokeId + 1)

IdAfter(cursor, distance) ==
  IF cursor + distance <= MaxInvokeId THEN cursor + distance
                                      ELSE cursor + distance - MaxInvokeId

(* Mutant: the ID under the cursor is taken without looking for it.        *)
SkipDistanceUnchecked(list, cursor) == 0

SkipDistance(list, cursor) ==
  CHOOSE d \in 0..(MaxInvokeId - 1) :
    /\ IdAfter(cursor, d) \notin UsedIds(list)
    /\ \A e \in 0..(d - 1) : IdAfter(cursor, e) \in UsedIds(list)
NextFreeInvokeId(list, cursor) == IdAfter(cursor, SkipDistance(list, cursor))

(* Mutant: the cursor stays at the ID it handed out.                       *)
CursorStays(list, cursor) == IdAfter(cursor, SkipDistance(list, cursor))

CursorAfter(list, cursor) == IdAfter(cursor, SkipDistance(list, cursor) + 1)

(* The slot is reserved with the state IDLE: until the transaction is set, *)
(* it looks exactly like a failed one.                                     *)
Reserve(list, cursor, timeout) ==
  [list EXCEPT ![FirstFreeSlot(list)] =
    [@ EXCEPT !.InvokeID = NextFreeInvokeId(list, cursor),
              !.state = Idle, !.RequestTimer = timeout]]

(* Mutant: the retries of the previous transaction still count.            *)
SetWithOldRetries(list, id, timeout) ==
  [s \in Slots |->
    IF list[s].InvokeID = id /\ id # 0
    THEN [list[s] EXCEPT !.state = Await, !.RequestTimer = timeout]
    ELSE list[s]]

SetConfirmedTransaction(list, id, timeout) ==
  [s \in Slots |->
    IF list[s].InvokeID = id /\ id # 0
    THEN [list[s] EXCEPT !.state = Await, !.RetryCount = 0, !.RequestTimer = timeout]
    ELSE list[s]]

-----------------------------------------------------------------------------
(* Release, of one ID and of the IDs a loop releases one after the other.  *)

(* Mutant: the state is left as it is.                                     *)
FreeIdsOnly(list, ids) ==
  [s \in Slots |-> IF list[s].InvokeID \in ids THEN [list[s] EXCEPT !.InvokeID = 0]
                                              ELSE list[s]]

FreeIds(list, ids) ==
  [s \in Slots |-> IF list[s].InvokeID \in ids
                   THEN [list[s] EXCEPT !.state = Idle, !.InvokeID = 0]
                   ELSE list[s]]
FreeInvokeId(list, id) == FreeIds(list, {id})

-----------------------------------------------------------------------------
(* The timer. A transaction whose time is up is sent again while retries   *)
(* are left, and otherwise marked failed: IDLE with its ID still set.      *)

Remaining(entry, ms) ==
  IF entry.RequestTimer > ms THEN entry.RequestTimer - ms ELSE 0
TimedOut(entry, ms) == entry.state = Await /\ Remaining(entry, ms) = 0

Retransmitted(list, ms, retries) ==
  {s \in Slots : TimedOut(list[s], ms) /\ list[s].RetryCount < retries}

(* Mutant: retransmissions are not counted.                                *)
TickUncounted(entry, ms, timeout, retries) ==
  IF entry.state # Await THEN entry
  ELSE IF ~TimedOut(entry, ms) THEN [entry EXCEPT !.RequestTimer = Remaining(entry, ms)]
  ELSE IF entry.RetryCount < retries THEN [entry EXCEPT !.RequestTimer = timeout]
  ELSE [entry EXCEPT !.RequestTimer = 0, !.state = Idle]

TickEntry(entry, ms, timeout, retries) ==
  IF entry.state # Await THEN entry
  ELSE IF ~TimedOut(entry, ms) THEN [entry EXCEPT !.RequestTimer = Remaining(entry, ms)]
  ELSE IF entry.RetryCount < retries
       THEN [entry EXCEPT !.RequestTimer = timeout, !.RetryCount = @ + 1]
       ELSE [entry EXCEPT !.RequestTimer = 0, !.state = Idle]

TimerMilliseconds(list, ms, timeout, retries) ==
  [s \in Slots |-> TickEntry(list[s], ms, timeout, retries)]
=============================================================================
