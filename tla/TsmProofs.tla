----------------------------- MODULE TsmProofs ------------------------------
(***************************************************************************)
(* Safety of the transaction state machine, for every number of slots,     *)
(* clients and IDs. The inductive invariant adds to the invariants of Tsm  *)
(* that the retry counter of a slot counts its retransmissions.            *)
(***************************************************************************)
EXTENDS Tsm, TransactionTableProofs

(* The retry counter of a pending request counts its retransmissions, and  *)
(* has not passed every retry count that can be configured.                *)
RetryCountIsExact ==
  \A s \in Slots : TSM_List[s].state = Await =>
    /\ transmissions[s] = 1 + TSM_List[s].RetryCount
    /\ \E n \in Retries : TSM_List[s].RetryCount <= n

IInv ==
  TypeOK /\ UniqueInvokeIds /\ FreeSlotsAreIdle /\ NoSlotLeaks /\ RetryCountIsExact

-----------------------------------------------------------------------------
LEMMA WindowType == Window \in Nat
BY TableAssumption DEF Window

-----------------------------------------------------------------------------
(* The inductive invariant.                                                *)

LEMMA InitIInv == Init => IInv
<1> SUFFICES ASSUME Init PROVE IInv
  OBVIOUS
<1>1. FreeEntry \in Entry /\ FreeEntry.InvokeID = 0 /\ FreeEntry.state = Idle
  BY TableAssumption DEF FreeEntry, Entry
<1>2. TSM_List \in [Slots -> Entry]
  BY <1>1 DEF Init, EmptyTable
<1>3. \A s \in Slots : TSM_List[s].InvokeID = 0 /\ TSM_List[s].state = Idle
  BY <1>1 DEF Init, EmptyTable
<1>4. TypeOK
  BY <1>2, WindowType, TableAssumption DEF Init, TypeOK
<1>5. UsedIds(TSM_List) = {}
  BY <1>3 DEF UsedIds
<1>6. QED
  BY <1>3, <1>4, <1>5
     DEF IInv, UniqueInvokeIds, FreeSlotsAreIdle, NoSlotLeaks, RetryCountIsExact, Idle, Await

(* Freeing IDs never breaks the part of the invariant about the table. The *)
(* leak invariant needs in addition that no freed ID is the last trace of  *)
(* another slot, so it is left to the action that frees.                   *)
LEMMA FreeKeepsTable ==
  ASSUME IInv, NEW ids, TSM_List' = FreeIds(TSM_List, ids), UNCHANGED <<transmissions, Number_Of_Retries>>
  PROVE  /\ TSM_List' \in [Slots -> Entry]
         /\ UniqueInvokeIds' /\ FreeSlotsAreIdle' /\ RetryCountIsExact'
         /\ UsedIds(TSM_List') = UsedIds(TSM_List) \ ids
<1>1. TSM_List \in [Slots -> Entry]
  BY DEF IInv, TypeOK
<1>2. TSM_List' \in [Slots -> Entry]
  BY <1>1, FreeIdsType
<1>3. \A s \in Slots :
        IF TSM_List[s].InvokeID \in ids
        THEN TSM_List'[s].InvokeID = 0 /\ TSM_List'[s].state = Idle
        ELSE TSM_List'[s] = TSM_List[s]
  BY <1>1 DEF FreeIds, Entry
<1>4. UniqueInvokeIds'
  BY <1>3 DEF IInv, UniqueInvokeIds
<1>5. FreeSlotsAreIdle'
  BY <1>3 DEF IInv, FreeSlotsAreIdle
<1>6. RetryCountIsExact'
  BY <1>3 DEF IInv, RetryCountIsExact, Idle, Await
<1>7. UsedIds(TSM_List') = UsedIds(TSM_List) \ ids
  BY <1>3 DEF UsedIds
<1>8. QED BY <1>2, <1>4, <1>5, <1>6, <1>7

LEMMA AdvanceType ==
  ASSUME TypeOK, NEW c \in Clients, Advance(c)
  PROVE  phase' \in {"FREE", "SEND"} /\ todo' \in SUBSET Clients
BY DEF TypeOK, Advance

LEMMA HousekeepingStep ==
  ASSUME IInv, NEW c \in Clients, Housekeeping(c)
  PROVE  IInv'
<1>1. UNCHANGED <<Current_Invoke_ID, config, inflight, history>>
  BY DEF Housekeeping
<1>2. phase' \in {"FREE", "SEND"} /\ todo' \in SUBSET Clients
  BY AdvanceType DEF IInv, Housekeeping
<1>3. CASE UNCHANGED <<invokeID, TSM_List>>
  BY <1>1, <1>2, <1>3
     DEF IInv, TypeOK, UniqueInvokeIds, FreeSlotsAreIdle, NoSlotLeaks, RetryCountIsExact,
         config, history
<1>4. CASE /\ invokeID' = [invokeID EXCEPT ![c] = 0]
           /\ TSM_List' = TSM_List
           /\ InvokeIdFree(TSM_List, invokeID[c])
  <2>1. invokeID' \in [Clients -> 0..MaxInvokeId]
    BY <1>4, TableAssumption DEF IInv, TypeOK
  <2>2. NoSlotLeaks'
    <3> SUFFICES ASSUME NEW id \in UsedIds(TSM_List) PROVE \E d \in Clients : invokeID'[d] = id
      BY <1>4 DEF NoSlotLeaks
    <3>1. PICK d \in Clients : invokeID[d] = id
      BY DEF IInv, NoSlotLeaks
    <3>2. d # c
      BY <1>4, <3>1 DEF InvokeIdFree, UsedIds
    <3>3. QED BY <1>4, <3>1, <3>2 DEF IInv, TypeOK
  <2>3. QED
    BY <1>1, <1>2, <1>4, <2>1, <2>2
       DEF IInv, TypeOK, UniqueInvokeIds, FreeSlotsAreIdle, RetryCountIsExact, config, history
<1>5. CASE /\ invokeID' = [invokeID EXCEPT ![c] = 0]
           /\ TSM_List' = FreeIds(TSM_List, {invokeID[c]})
  <2>1. invokeID' \in [Clients -> 0..MaxInvokeId]
    BY <1>5, TableAssumption DEF IInv, TypeOK
  <2>2. /\ TSM_List' \in [Slots -> Entry]
        /\ UniqueInvokeIds' /\ FreeSlotsAreIdle' /\ RetryCountIsExact'
        /\ UsedIds(TSM_List') = UsedIds(TSM_List) \ {invokeID[c]}
    BY <1>1, <1>5, FreeKeepsTable DEF config, history
  <2>3. NoSlotLeaks'
    BY <1>5, <2>2 DEF IInv, NoSlotLeaks, TypeOK
  <2>4. QED
    BY <1>1, <1>2, <2>1, <2>2, <2>3 DEF IInv, TypeOK, config, history
<1>6. QED
  BY <1>3, <1>4, <1>5 DEF Housekeeping, FreeInvokeId

LEMMA SendConfirmedStep ==
  ASSUME IInv, NEW c \in Clients, SendConfirmed(c)
  PROVE  IInv'
<1> DEFINE id == NextFreeInvokeId(TSM_List, Current_Invoke_ID)
           slot == FirstFreeSlot(TSM_List)
<1>1. /\ TSM_List \in [Slots -> Entry] /\ Current_Invoke_ID \in InvokeIds
      /\ Timeout_Milliseconds \in Nat /\ TransactionAvailable(TSM_List)
  BY TsmAssumption DEF IInv, TypeOK, SendConfirmed
<1>2. /\ id \in InvokeIds \ UsedIds(TSM_List)
      /\ Current_Invoke_ID' \in InvokeIds
  BY <1>1, NextFreeInvokeIdIsFree DEF SendConfirmed
<1>3. slot \in Slots /\ TSM_List[slot].InvokeID = 0
  BY <1>1, FirstFreeSlotIsFree
<1>4. /\ TSM_List' \in [Slots -> Entry]
      /\ TSM_List'[slot].InvokeID = id
      /\ TSM_List'[slot].state = Await
      /\ TSM_List'[slot].RetryCount = 0
      /\ \A s \in Slots : s # slot => TSM_List'[s] = TSM_List[s]
  BY <1>1, SendEffect DEF SendConfirmed
<1>5. /\ invokeID[c] = 0
      /\ invokeID' = [invokeID EXCEPT ![c] = id]
      /\ inflight' = inflight \cup {id}
      /\ transmissions' = [transmissions EXCEPT ![slot] = 1]
      /\ age' = [i \in InvokeIds |->
                   IF i = id THEN 0 ELSE IF age[i] < Window THEN age[i] + 1 ELSE Window]
      /\ UNCHANGED config
  BY DEF SendConfirmed, HandOut
<1>6. phase' \in {"FREE", "SEND"} /\ todo' \in SUBSET Clients
  BY AdvanceType DEF IInv, SendConfirmed
<1> HIDE DEF id, slot
<1>7. id # 0 /\ id \in 0..MaxInvokeId
  BY <1>2, TableAssumption DEF InvokeIds
<1>8. TypeOK'
  <2>1. age' \in [InvokeIds -> 0..Window]
    BY <1>5, WindowType DEF IInv, TypeOK
  <2>2. QED
    BY <1>2, <1>3, <1>4, <1>5, <1>6, <1>7, <2>1 DEF IInv, TypeOK, config
<1>9. UniqueInvokeIds'
  BY <1>2, <1>3, <1>4, <1>7 DEF IInv, UniqueInvokeIds, UsedIds
<1>10. FreeSlotsAreIdle'
  BY <1>3, <1>4, <1>7 DEF IInv, FreeSlotsAreIdle
<1>11. NoSlotLeaks'
  <2> SUFFICES ASSUME NEW i \in UsedIds(TSM_List') PROVE \E d \in Clients : invokeID'[d] = i
    BY DEF NoSlotLeaks
  <2>1. CASE i = id
    BY <1>5, <2>1 DEF IInv, TypeOK
  <2>2. CASE i # id
    <3>1. i \in UsedIds(TSM_List) /\ i # 0
      BY <1>3, <1>4, <2>2 DEF UsedIds
    <3>2. PICK d \in Clients : invokeID[d] = i
      BY <3>1 DEF IInv, NoSlotLeaks
    <3>3. QED BY <1>5, <3>1, <3>2 DEF IInv, TypeOK
  <2>3. QED BY <2>1, <2>2
<1>12. RetryCountIsExact'
  <2> SUFFICES ASSUME NEW s \in Slots, TSM_List'[s].state = Await
               PROVE  /\ transmissions'[s] = 1 + TSM_List'[s].RetryCount
                      /\ \E n \in Retries : TSM_List'[s].RetryCount <= n
    BY DEF RetryCountIsExact
  <2>1. CASE s = slot
    BY <1>4, <1>5, <2>1, TsmAssumption DEF IInv, TypeOK
  <2>2. CASE s # slot
    BY <1>4, <1>5, <2>2 DEF IInv, TypeOK, RetryCountIsExact
  <2>3. QED BY <2>1, <2>2
<1>13. QED
  BY <1>8, <1>9, <1>10, <1>11, <1>12 DEF IInv

LEMMA ReleaseStep ==
  ASSUME IInv, NEW c \in Clients, Release(c)
  PROVE  IInv'
<1>1. /\ TSM_List' = FreeIds(TSM_List, {invokeID[c]})
      /\ invokeID' = [invokeID EXCEPT ![c] = 0]
      /\ UNCHANGED <<Current_Invoke_ID, config, thread, inflight, history>>
  BY DEF Release, FreeInvokeId
<1>2. /\ TSM_List' \in [Slots -> Entry]
      /\ UniqueInvokeIds' /\ FreeSlotsAreIdle' /\ RetryCountIsExact'
      /\ UsedIds(TSM_List') = UsedIds(TSM_List) \ {invokeID[c]}
  BY <1>1, FreeKeepsTable DEF config, history
<1>3. NoSlotLeaks'
  BY <1>1, <1>2 DEF IInv, NoSlotLeaks, TypeOK
<1>4. invokeID' \in [Clients -> 0..MaxInvokeId]
  BY <1>1, TableAssumption DEF IInv, TypeOK
<1>5. QED
  BY <1>1, <1>2, <1>3, <1>4 DEF IInv, TypeOK, config, thread, history

LEMMA AnswerStep ==
  ASSUME IInv, NEW id \in InvokeIds, Answer(id)
  PROVE  IInv'
<1>1. /\ TSM_List' = FreeIds(TSM_List, {id})
      /\ inflight' \in SUBSET InvokeIds
      /\ UNCHANGED <<Current_Invoke_ID, config, invokeID, thread, history>>
  BY DEF Answer, FreeInvokeId, IInv, TypeOK
<1>2. /\ TSM_List' \in [Slots -> Entry]
      /\ UniqueInvokeIds' /\ FreeSlotsAreIdle' /\ RetryCountIsExact'
      /\ UsedIds(TSM_List') = UsedIds(TSM_List) \ {id}
  BY <1>1, FreeKeepsTable DEF config, history
<1>3. NoSlotLeaks'
  BY <1>1, <1>2 DEF IInv, NoSlotLeaks
<1>4. QED
  BY <1>1, <1>2, <1>3 DEF IInv, TypeOK, config, thread, history

LEMMA TimerStep ==
  ASSUME IInv, NEW ms \in Elapsed, Timer(ms)
  PROVE  IInv'
<1> DEFINE resent == Retransmitted(TSM_List, ms, Number_Of_Retries)
<1>1. /\ TSM_List \in [Slots -> Entry]
      /\ ms \in Nat /\ Timeout_Milliseconds \in Nat /\ Number_Of_Retries \in Nat
  BY TsmAssumption DEF IInv, TypeOK
<1>2. /\ TSM_List' = TimerMilliseconds(TSM_List, ms, Timeout_Milliseconds, Number_Of_Retries)
      /\ inflight' = inflight \cup {TSM_List[s].InvokeID : s \in resent}
      /\ transmissions' = [s \in Slots |-> IF s \in resent THEN transmissions[s] + 1
                                                           ELSE transmissions[s]]
      /\ UNCHANGED <<Current_Invoke_ID, config, invokeID, thread, age>>
  BY DEF Timer
<1>3. /\ TSM_List' \in [Slots -> Entry]
      /\ \A s \in Slots : TSM_List'[s].InvokeID = TSM_List[s].InvokeID
  <2> DEFINE after == TimerMilliseconds(TSM_List, ms, Timeout_Milliseconds, Number_Of_Retries)
  <2>1. /\ after \in [Slots -> Entry]
        /\ \A s \in Slots : after[s].InvokeID = TSM_List[s].InvokeID
    BY <1>1, TickType
  <2>2. QED BY <1>2, <2>1
<1>4. \A s \in Slots : TSM_List'[s] =
        TickEntry(TSM_List[s], ms, Timeout_Milliseconds, Number_Of_Retries)
  BY <1>2 DEF TimerMilliseconds
<1>5. \A s \in resent : s \in Slots /\ TSM_List[s].state = Await /\ TSM_List[s].RetryCount < Number_Of_Retries
  BY DEF Retransmitted, TimedOut
<1>6. \A s \in resent : TSM_List[s].InvokeID \in InvokeIds
  BY <1>1, <1>5 DEF IInv, FreeSlotsAreIdle, Entry, InvokeIds, Idle, Await
<1>7. \A s \in Slots \ resent : TSM_List'[s].state = Await =>
        TSM_List[s].state = Await /\ TSM_List'[s].RetryCount = TSM_List[s].RetryCount
  <2> SUFFICES ASSUME NEW s \in Slots \ resent, TSM_List'[s].state = Await
               PROVE  TSM_List[s].state = Await /\ TSM_List'[s].RetryCount = TSM_List[s].RetryCount
    OBVIOUS
  <2>1. TSM_List[s] \in Entry
    BY <1>1
  <2>2. CASE TSM_List[s].state # Await
    BY <1>4, <2>2 DEF TickEntry
  <2>3. CASE TSM_List[s].state = Await /\ ~TimedOut(TSM_List[s], ms)
    <3>1. TSM_List'[s] = [TSM_List[s] EXCEPT !.RequestTimer = Remaining(TSM_List[s], ms)]
      BY <1>4, <2>3 DEF TickEntry
    <3>2. QED BY <2>1, <2>3, <3>1 DEF Entry
  <2>4. CASE TSM_List[s].state = Await /\ TimedOut(TSM_List[s], ms)
    <3>1. TSM_List'[s] = [TSM_List[s] EXCEPT !.RequestTimer = 0, !.state = Idle]
      BY <1>4, <2>4 DEF TickEntry, Retransmitted
    <3>2. TSM_List'[s].state = Idle
      BY <2>1, <3>1 DEF Entry
    <3>3. QED BY <3>2 DEF Idle, Await
  <2>5. QED BY <2>2, <2>3, <2>4
<1>8. \A s \in resent : TSM_List'[s].RetryCount = TSM_List[s].RetryCount + 1
  <2> SUFFICES ASSUME NEW s \in resent PROVE TSM_List'[s].RetryCount = TSM_List[s].RetryCount + 1
    OBVIOUS
  <2>1. s \in Slots /\ TSM_List[s] \in Entry
    BY <1>1, <1>5
  <2>2. TSM_List'[s] = [TSM_List[s] EXCEPT !.RequestTimer = Timeout_Milliseconds, !.RetryCount = @ + 1]
    BY <1>4, <2>1 DEF TickEntry, Retransmitted, TimedOut
  <2>3. QED BY <2>1, <2>2 DEF Entry
<1> HIDE DEF resent
<1>9. TypeOK'
  BY <1>2, <1>3, <1>5, <1>6 DEF IInv, TypeOK, config, thread
<1>10. UniqueInvokeIds'
  BY <1>3 DEF IInv, UniqueInvokeIds
<1>11. FreeSlotsAreIdle'
  <2> SUFFICES ASSUME NEW s \in Slots, TSM_List'[s].InvokeID = 0 PROVE TSM_List'[s].state = Idle
    BY DEF FreeSlotsAreIdle
  <2>1. TSM_List[s].state = Idle
    BY <1>3 DEF IInv, FreeSlotsAreIdle
  <2>2. QED BY <1>4, <2>1 DEF TickEntry, Idle, Await
<1>12. NoSlotLeaks'
  BY <1>2, <1>3 DEF IInv, NoSlotLeaks, UsedIds
<1>13. RetryCountIsExact'
  <2> SUFFICES ASSUME NEW s \in Slots, TSM_List'[s].state = Await
               PROVE  /\ transmissions'[s] = 1 + TSM_List'[s].RetryCount
                      /\ \E n \in Retries : TSM_List'[s].RetryCount <= n
    BY DEF RetryCountIsExact
  <2>1. CASE s \in resent
    <3>1. /\ transmissions[s] = 1 + TSM_List[s].RetryCount
          /\ TSM_List[s].RetryCount < Number_Of_Retries
          /\ TSM_List[s].RetryCount \in Nat
      BY <1>1, <1>5, <2>1 DEF IInv, RetryCountIsExact, Entry
    <3>2. TSM_List'[s].RetryCount <= Number_Of_Retries
      BY <1>1, <1>8, <2>1, <3>1
    <3>3. QED BY <1>2, <1>8, <2>1, <3>1, <3>2 DEF IInv, TypeOK
  <2>2. CASE s \notin resent
    BY <1>2, <1>7, <2>2 DEF IInv, RetryCountIsExact
  <2>3. QED BY <2>1, <2>2
<1>14. QED
  BY <1>9, <1>10, <1>11, <1>12, <1>13 DEF IInv

LEMMA NextIInv == IInv /\ [Next]_vars => IInv'
<1> SUFFICES ASSUME IInv, [Next]_vars PROVE IInv'
  OBVIOUS
<1> USE DEF IInv, TypeOK, UniqueInvokeIds, FreeSlotsAreIdle, NoSlotLeaks, RetryCountIsExact,
            table, config, thread, history
<1>1. ASSUME NEW c \in Clients, SendNothing(c) PROVE IInv'
  BY <1>1, AdvanceType DEF SendNothing
<1>2. ASSUME NEW t \in Timeouts, ApduTimeoutSet(t) PROVE IInv'
  BY <1>2 DEF ApduTimeoutSet
<1>3. ASSUME NEW n \in Retries, ApduRetriesSet(n) PROVE IInv'
  BY <1>3 DEF ApduRetriesSet
<1>4. ASSUME NEW id \in InvokeIds, Lose(id) PROVE IInv'
  BY <1>4 DEF Lose
<1>5. CASE UNCHANGED vars
  BY <1>5 DEF vars
<1>6. QED
  BY <1>1, <1>2, <1>3, <1>4, <1>5,
     HousekeepingStep, SendConfirmedStep, AnswerStep, ReleaseStep, TimerStep
     DEF Next, CovThread, MainThread

-----------------------------------------------------------------------------

(* Every variable keeps its type: in particular the cursor never becomes 0 *)
(* when its uint8_t wraps.                                                 *)
THEOREM Typing == Spec => []TypeOK
<1>1. IInv => TypeOK
  BY DEF IInv
<1>2. QED BY InitIInv, NextIInv, <1>1, PTL DEF Spec

(* No two transactions share an invoke ID.                                 *)
THEOREM InvokeIdsAreUnique == Spec => []UniqueInvokeIds
<1>1. IInv => UniqueInvokeIds
  BY DEF IInv
<1>2. QED BY InitIInv, NextIInv, <1>1, PTL DEF Spec

(* A free slot is never waiting for a confirmation.                        *)
THEOREM FreeSlotsStayIdle == Spec => []FreeSlotsAreIdle
<1>1. IInv => FreeSlotsAreIdle
  BY DEF IInv
<1>2. QED BY InitIInv, NextIInv, <1>1, PTL DEF Spec

(* No slot is ever lost: whatever answers come, in whatever order, a slot  *)
(* in use belongs to a client that still waits for it.                     *)
THEOREM SlotsNeverLeak == Spec => []NoSlotLeaks
<1>1. IInv => NoSlotLeaks
  BY DEF IInv
<1>2. QED BY InitIInv, NextIInv, <1>1, PTL DEF Spec

(* A pending request was sent at most once more than the largest retry     *)
(* count, even when the count is rewritten while it is pending.            *)
THEOREM TransmissionsAreBounded == Spec => []BoundedTransmissions
<1>1. IInv => BoundedTransmissions
  <2> SUFFICES ASSUME IInv, NEW s \in Slots, TSM_List[s].state = Await
               PROVE  \E n \in Retries : transmissions[s] <= 1 + n
    BY DEF BoundedTransmissions
  <2>1. PICK n \in Retries : TSM_List[s].RetryCount <= n
    BY DEF IInv, RetryCountIsExact
  <2>2. /\ transmissions[s] = 1 + TSM_List[s].RetryCount
        /\ TSM_List[s].RetryCount \in Nat /\ n \in Nat
    BY TsmAssumption DEF IInv, TypeOK, RetryCountIsExact, Entry
  <2>3. QED BY <2>1, <2>2
<1>2. QED BY InitIInv, NextIInv, <1>1, PTL DEF Spec

(* Only the timer marks a pending request failed: freeing a slot also      *)
(* takes its ID, and a slot that is reserved was not pending.              *)
LEMMA FreeingIsNotFailing ==
  ASSUME IInv, NEW ids, TSM_List' = FreeIds(TSM_List, ids), NEW s \in Slots,
         TSM_List[s].state = Await, TSM_List'[s].state = Idle
  PROVE  TSM_List'[s].InvokeID = 0
<1>1. TSM_List[s] \in Entry
  BY DEF IInv, TypeOK
<1>2. CASE TSM_List[s].InvokeID \in ids
  BY <1>1, <1>2 DEF FreeIds, Entry
<1>3. CASE TSM_List[s].InvokeID \notin ids
  BY <1>3 DEF FreeIds, Idle, Await
<1>4. QED BY <1>2, <1>3

LEMMA TimerGivesUpLate ==
  ASSUME IInv, NEW ms \in Elapsed, Timer(ms), NEW s \in Slots,
         TSM_List[s].state = Await, TSM_List'[s].state = Idle
  PROVE  transmissions[s] >= 1 + Number_Of_Retries
<1>1. TSM_List[s] \in Entry /\ Number_Of_Retries \in Nat
  BY TsmAssumption DEF IInv, TypeOK
<1>2. TSM_List'[s] = TickEntry(TSM_List[s], ms, Timeout_Milliseconds, Number_Of_Retries)
  BY DEF Timer, TimerMilliseconds
<1>3. TSM_List[s].RetryCount >= Number_Of_Retries
  <2>1. CASE ~TimedOut(TSM_List[s], ms)
    <3>1. TSM_List'[s].state = Await
      BY <1>1, <1>2, <2>1 DEF TickEntry, Entry
    <3>2. QED BY <3>1 DEF Idle, Await
  <2>2. CASE TimedOut(TSM_List[s], ms) /\ TSM_List[s].RetryCount < Number_Of_Retries
    <3>1. TSM_List'[s].state = Await
      BY <1>1, <1>2, <2>2 DEF TickEntry, Entry
    <3>2. QED BY <3>1 DEF Idle, Await
  <2>3. QED BY <1>1, <2>1, <2>2 DEF Entry
<1>4. QED BY <1>1, <1>3 DEF IInv, TypeOK, RetryCountIsExact, Entry

(* A request is given up only after all the retries, for every timeout and *)
(* retry count, and however often they were rewritten meanwhile.           *)
THEOREM NothingIsGivenUpEarly == Spec => GivesUpAfterAllRetries
<1>1. ASSUME IInv, [Next]_vars PROVE FailsLate
  <2>1. ASSUME NEW ids, TSM_List' = FreeIds(TSM_List, ids) PROVE FailsLate
    BY <1>1, <2>1, FreeingIsNotFailing DEF FailsLate
  <2>2. ASSUME UNCHANGED TSM_List PROVE FailsLate
    BY <2>2 DEF FailsLate, Idle, Await
  <2>3. ASSUME NEW c \in Clients, Housekeeping(c) PROVE FailsLate
    BY <2>1, <2>2, <2>3 DEF Housekeeping, FreeInvokeId
  <2>4. ASSUME NEW c \in Clients, SendConfirmed(c) PROVE FailsLate
    <3>1. /\ TSM_List'[FirstFreeSlot(TSM_List)].state = Await
          /\ \A s \in Slots : s # FirstFreeSlot(TSM_List) => TSM_List'[s] = TSM_List[s]
      BY <1>1, <2>4, SendEffect, TsmAssumption DEF IInv, TypeOK, SendConfirmed
    <3>2. QED BY <3>1 DEF FailsLate, Idle, Await
  <2>5. ASSUME NEW ms \in Elapsed, Timer(ms) PROVE FailsLate
    BY <1>1, <2>5, TimerGivesUpLate DEF FailsLate
  <2>6. ASSUME CovThread PROVE FailsLate
    BY <2>2, <2>3, <2>4, <2>6 DEF CovThread, SendNothing, table
  <2>7. ASSUME MainThread PROVE FailsLate
    BY <2>1, <2>2, <2>5, <2>7
       DEF MainThread, Answer, Release, FreeInvokeId, ApduTimeoutSet, ApduRetriesSet, table
  <2>8. QED
    BY <1>1, <2>2, <2>6, <2>7 DEF Next, Lose, vars, table
<1>2. QED
  BY InitIInv, NextIInv, <1>1, PTL DEF Spec, GivesUpAfterAllRetries

-----------------------------------------------------------------------------
(* How late an ID is used again.                                           *)

(* How far ahead of the cursor an ID is: the greater, the shorter ago the  *)
(* cursor passed it.                                                       *)
Ahead(id) ==
  IF id >= Current_Invoke_ID THEN id - Current_Invoke_ID
                             ELSE id - Current_Invoke_ID + MaxInvokeId

(* The IDs that were last handed out before this one, and that the cursor  *)
(* has skipped since, or will skip.                                        *)
Older(id) ==
  {i \in InvokeIds \ {id} :
     age[i] >= age[id] /\ (Ahead(i) > Ahead(id) \/ i \in UsedIds(TSM_List))}

(* No two were handed out at the same time.                                *)
AgesDiffer == \A i, j \in InvokeIds : i # j /\ age[i] < Window => age[i] # age[j]

(* The cursor skips what was in the table when it handed out the ID: what  *)
(* came in later lies behind it.                                           *)
FewAreOlder ==
  \A id \in InvokeIds : age[id] < Window => Cardinality(Older(id)) <= MaxTransactions - 1

(* The inductive invariant.                                                *)
CursorInv == IInv /\ AgesDiffer /\ FewAreOlder

LEMMA IdsAreFinite == IsFiniteSet(InvokeIds) /\ Cardinality(InvokeIds) = MaxInvokeId
BY FS_Interval, TableAssumption DEF InvokeIds

LEMMA OlderIsFinite ==
  ASSUME NEW id
  PROVE  IsFiniteSet(Older(id)) /\ Cardinality(Older(id)) \in Nat
<1>1. Older(id) \subseteq InvokeIds
  BY DEF Older
<1>2. QED BY <1>1, IdsAreFinite, FS_Subset, FS_CardinalityType

(* Every ID is at its own distance from the cursor.                        *)
LEMMA AheadIsPosition ==
  ASSUME NEW id \in InvokeIds, Current_Invoke_ID \in InvokeIds
  PROVE  /\ Ahead(id) \in 0..(MaxInvokeId - 1)
         /\ IdAfter(Current_Invoke_ID, Ahead(id)) = id
         /\ \A d \in 0..(MaxInvokeId - 1) : IdAfter(Current_Invoke_ID, d) = id => d = Ahead(id)
BY TableAssumption DEF Ahead, IdAfter, InvokeIds

(* The cursor goes to the one after the ID at distance d.                  *)
LEMMA AheadAfter ==
  ASSUME NEW id \in InvokeIds, Current_Invoke_ID \in InvokeIds, NEW d \in 0..(MaxInvokeId - 1),
         Current_Invoke_ID' = IdAfter(Current_Invoke_ID, d + 1)
  PROVE  Ahead(id)' = IF Ahead(id) > d THEN Ahead(id) - (d + 1)
                      ELSE Ahead(id) + MaxInvokeId - (d + 1)
BY TableAssumption DEF Ahead, IdAfter, InvokeIds

(* What is handed out is the first free ID that is ahead of the cursor.    *)
LEMMA HandedOut ==
  ASSUME TypeOK, TransactionAvailable(TSM_List)
  PROVE  LET id == NextFreeInvokeId(TSM_List, Current_Invoke_ID)
             d == SkipDistance(TSM_List, Current_Invoke_ID)
         IN /\ id \in InvokeIds \ UsedIds(TSM_List)
            /\ d \in 0..(MaxInvokeId - 1) /\ Ahead(id) = d
            /\ \A i \in InvokeIds : Ahead(i) < d => i \in UsedIds(TSM_List)
<1> DEFINE id == NextFreeInvokeId(TSM_List, Current_Invoke_ID)
           d == SkipDistance(TSM_List, Current_Invoke_ID)
<1>1. TSM_List \in [Slots -> Entry] /\ Current_Invoke_ID \in InvokeIds
  BY DEF TypeOK
<1>2. id \in InvokeIds \ UsedIds(TSM_List) /\ id = IdAfter(Current_Invoke_ID, d)
  BY <1>1, NextFreeInvokeIdIsFree DEF NextFreeInvokeId
<1>3. /\ d \in 0..(MaxInvokeId - 1)
      /\ \A e \in 0..(d - 1) : IdAfter(Current_Invoke_ID, e) \in UsedIds(TSM_List)
  BY <1>1, SkipDistanceIsFirst
<1> HIDE DEF d, id
<1>4. Ahead(id) = d
  BY <1>1, <1>2, <1>3, AheadIsPosition
<1>5. ASSUME NEW i \in InvokeIds, Ahead(i) < d PROVE i \in UsedIds(TSM_List)
  <2>1. Ahead(i) \in 0..(MaxInvokeId - 1) /\ IdAfter(Current_Invoke_ID, Ahead(i)) = i
    BY <1>1, AheadIsPosition
  <2>2. Ahead(i) \in 0..(d - 1)
    BY <1>3, <1>5, <2>1, TableAssumption
  <2>3. QED BY <1>3, <2>1, <2>2
<1>6. QED BY <1>2, <1>3, <1>4, <1>5 DEF d, id

(* IDs that were handed out after another differ in age, so that there are *)
(* no more of them than the other is old.                                  *)
LEMMA FewAreYounger ==
  ASSUME TypeOK, AgesDiffer, NEW id \in InvokeIds, age[id] < Window
  PROVE  LET younger == {i \in InvokeIds : age[i] < age[id]}
         IN IsFiniteSet(younger) /\ Cardinality(younger) <= age[id]
<1> DEFINE younger == {i \in InvokeIds : age[i] < age[id]}
           ages == 0..(age[id] - 1)
           f == [i \in younger |-> age[i]]
<1>1. age[id] \in Nat /\ \A i \in InvokeIds : age[i] \in Nat /\ age[i] \in 0..Window
  BY WindowType DEF TypeOK
<1>2. IsFiniteSet(ages) /\ Cardinality(ages) = age[id]
  <2> DEFINE n == age[id]
  <2>1. n \in Nat
    BY <1>1
  <2> HIDE DEF n
  <2>2. IsFiniteSet(0..(n - 1)) /\ Cardinality(0..(n - 1)) = n
    <3>1. /\ 0 \in Int /\ n - 1 \in Int
          /\ 0 > n - 1 => n = 0
          /\ (n - 1) - 0 + 1 = n
      BY <2>1
    <3>2. QED BY <3>1, FS_Interval
  <2>3. QED BY <2>2 DEF n
<1>3. IsFiniteSet(younger)
  BY IdsAreFinite, FS_Subset
<1>4. f \in [younger -> ages]
  BY <1>1
<1>5. \A i, j \in younger : i # j => f[i] # f[j]
  BY <1>1, WindowType DEF AgesDiffer
<1>6. Cardinality(younger) \in Nat
  BY <1>3, FS_CardinalityType
<1>7. ~(Cardinality(ages) < Cardinality(younger))
  <2> HIDE DEF f, younger, ages
  <2> QED BY <1>2, <1>3, <1>4, <1>5, FS_PigeonHole
<1> HIDE DEF younger, ages
<1>8. QED BY <1>1, <1>2, <1>3, <1>6, <1>7 DEF younger

(* The IDs in use that are not this one fit the slots that remain.         *)
LEMMA OthersInUse ==
  ASSUME NEW list \in [Slots -> Entry], NEW slot \in Slots
  PROVE  LET others == UsedIds(list) \ {list[slot].InvokeID}
         IN IsFiniteSet(others) /\ Cardinality(others) <= MaxTransactions - 1
<1> DEFINE rest == Slots \ {slot}
           others == UsedIds(list) \ {list[slot].InvokeID}
           f == [i \in others |-> CHOOSE s \in Slots : list[s].InvokeID = i]
<1>1. IsFiniteSet(Slots) /\ Cardinality(Slots) = MaxTransactions
  BY FS_Interval, TableAssumption DEF Slots
<1>2. IsFiniteSet(rest) /\ Cardinality(rest) = MaxTransactions - 1
  BY <1>1, FS_RemoveElement
<1>3. others \subseteq InvokeIds
  BY TableAssumption DEF UsedIds, Entry, InvokeIds
<1>4. IsFiniteSet(others) /\ Cardinality(others) \in Nat
  BY <1>3, IdsAreFinite, FS_Subset, FS_CardinalityType
<1>5. \A i \in others : f[i] \in rest /\ list[f[i]].InvokeID = i
  BY DEF UsedIds
<1>6. f \in [others -> rest] /\ \A i, j \in others : i # j => f[i] # f[j]
  BY <1>5
<1>7. ~(Cardinality(rest) < Cardinality(others))
  <2> HIDE DEF f, others, rest
  <2> QED BY <1>2, <1>4, <1>6, FS_PigeonHole
<1> HIDE DEF others, rest
<1>8. QED BY <1>2, <1>4, <1>7, TableAssumption DEF others

(* What has been handed out is left alone: the ages, the cursor, and the   *)
(* table but for IDs that leave it.                                        *)
LEMMA NothingHandedOut ==
  ASSUME CursorInv, UNCHANGED <<age, Current_Invoke_ID>>,
         UsedIds(TSM_List') \subseteq UsedIds(TSM_List)
  PROVE  AgesDiffer' /\ FewAreOlder'
<1>1. AgesDiffer'
  BY DEF CursorInv, AgesDiffer
<1>2. ASSUME NEW id \in InvokeIds, age[id] < Window
      PROVE  Cardinality(Older(id)') <= MaxTransactions - 1
  <2>1. Older(id)' \subseteq Older(id)
    BY DEF Older, Ahead
  <2>2. /\ Cardinality(Older(id)') <= Cardinality(Older(id))
        /\ Cardinality(Older(id)') \in Nat /\ Cardinality(Older(id)) \in Nat
    BY <2>1, OlderIsFinite, FS_Subset, FS_CardinalityType
  <2>3. Cardinality(Older(id)) <= MaxTransactions - 1
    BY <1>2 DEF CursorInv, FewAreOlder
  <2>4. QED BY <2>2, <2>3, TableAssumption
<1>3. QED BY <1>1, <1>2 DEF FewAreOlder

(* The ID that is handed out was handed out Window others ago: all others  *)
(* were handed out since, or have been in the table since.                 *)
LEMMA HandedOutLate ==
  ASSUME CursorInv, TransactionAvailable(TSM_List)
  PROVE  age[NextFreeInvokeId(TSM_List, Current_Invoke_ID)] >= Window
<1> DEFINE id == NextFreeInvokeId(TSM_List, Current_Invoke_ID)
           younger == {i \in InvokeIds : age[i] < age[id]}
           others == InvokeIds \ {id}
<1> SUFFICES ASSUME ~(age[id] >= Window) PROVE FALSE
  OBVIOUS
<1>1. /\ id \in InvokeIds
      /\ \A i \in InvokeIds : Ahead(i) < Ahead(id) => i \in UsedIds(TSM_List)
  BY HandedOut DEF CursorInv, IInv
<1> HIDE DEF id
<1>2. /\ TypeOK /\ AgesDiffer /\ Current_Invoke_ID \in InvokeIds
      /\ \A i \in InvokeIds : age[i] \in Nat
      /\ age[id] < Window
  BY <1>1, WindowType DEF CursorInv, IInv, TypeOK
<1>3. IsFiniteSet(younger) /\ Cardinality(younger) <= age[id]
  BY <1>1, <1>2, FewAreYounger
<1>4. IsFiniteSet(Older(id)) /\ Cardinality(Older(id)) <= MaxTransactions - 1
  BY <1>1, <1>2, OlderIsFinite DEF CursorInv, FewAreOlder
<1>5. others \subseteq younger \cup Older(id)
  <2> SUFFICES ASSUME NEW i \in others, age[i] >= age[id] PROVE i \in Older(id)
    BY <1>1, <1>2
  <2>1. Ahead(i) # Ahead(id)
    BY <1>1, <1>2, AheadIsPosition
  <2>2. Ahead(i) \in Nat /\ Ahead(id) \in Nat
    BY <1>1, <1>2, AheadIsPosition, TableAssumption
  <2>3. Ahead(i) > Ahead(id) \/ i \in UsedIds(TSM_List)
    BY <1>1, <2>1, <2>2
  <2>4. QED BY <2>3 DEF Older
<1>6. IsFiniteSet(others) /\ Cardinality(others) = MaxInvokeId - 1
  BY <1>1, IdsAreFinite, FS_RemoveElement
<1> HIDE DEF others, younger
<1>7. Cardinality(others) <= Cardinality(younger) + Cardinality(Older(id))
  <2>1. /\ IsFiniteSet(younger \cup Older(id))
        /\ Cardinality(younger \cup Older(id)) =
             Cardinality(younger) + Cardinality(Older(id)) - Cardinality(younger \cap Older(id))
    BY <1>3, <1>4, FS_Union
  <2>2. Cardinality(others) <= Cardinality(younger \cup Older(id))
    BY <1>5, <2>1, FS_Subset
  <2>3. IsFiniteSet(younger \cap Older(id))
    BY <1>3, FS_Intersection
  <2>4. /\ Cardinality(younger) \in Nat /\ Cardinality(Older(id)) \in Nat
        /\ Cardinality(younger \cap Older(id)) \in Nat /\ Cardinality(others) \in Nat
    BY <1>3, <1>4, <1>6, <2>3, FS_CardinalityType
  <2>5. QED BY <2>1, <2>2, <2>4
<1>8. Cardinality(younger) \in Nat /\ Cardinality(Older(id)) \in Nat
  BY <1>3, <1>4, FS_CardinalityType
<1>9. MaxInvokeId - 1 <= age[id] + (MaxTransactions - 1)
  BY <1>1, <1>2, <1>3, <1>4, <1>6, <1>7, <1>8, TableAssumption
<1>10. QED BY <1>1, <1>2, <1>9, TableAssumption DEF Window

LEMMA SendCursor ==
  ASSUME CursorInv, NEW c \in Clients, SendConfirmed(c)
  PROVE  AgesDiffer' /\ FewAreOlder'
<1>0. PICK id : id = NextFreeInvokeId(TSM_List, Current_Invoke_ID)
  OBVIOUS
<1> DEFINE d == SkipDistance(TSM_List, Current_Invoke_ID)
           slot == FirstFreeSlot(TSM_List)
<1>1. /\ TypeOK /\ TSM_List \in [Slots -> Entry] /\ Current_Invoke_ID \in InvokeIds
      /\ Timeout_Milliseconds \in Nat /\ TransactionAvailable(TSM_List)
  BY TsmAssumption DEF CursorInv, IInv, TypeOK, SendConfirmed
<1>2. /\ id \in InvokeIds \ UsedIds(TSM_List)
      /\ d \in 0..(MaxInvokeId - 1) /\ Ahead(id) = d
      /\ \A i \in InvokeIds : Ahead(i) < d => i \in UsedIds(TSM_List)
  BY <1>0, <1>1, HandedOut
<1>3. slot \in Slots /\ TSM_List[slot].InvokeID = 0
  BY <1>1, FirstFreeSlotIsFree
<1>4. /\ TSM_List' \in [Slots -> Entry]
      /\ TSM_List'[slot].InvokeID = id
      /\ \A s \in Slots : s # slot => TSM_List'[s] = TSM_List[s]
  BY <1>0, <1>1, SendEffect DEF SendConfirmed
<1>5. Current_Invoke_ID' = IdAfter(Current_Invoke_ID, d + 1)
  BY DEF SendConfirmed, CursorAfter
<1>6. age' = [i \in InvokeIds |->
               IF i = id THEN 0 ELSE IF age[i] < Window THEN age[i] + 1 ELSE Window]
  BY <1>0 DEF SendConfirmed, HandOut
<1> HIDE DEF d, slot
<1>7. UsedIds(TSM_List') \subseteq UsedIds(TSM_List) \cup {id}
  BY <1>3, <1>4 DEF UsedIds
<1>8. \A i \in InvokeIds : age[i] \in 0..Window /\ Window \in Nat
  BY <1>1, WindowType DEF TypeOK
<1>9. \A i \in InvokeIds : Ahead(i) \in 0..(MaxInvokeId - 1)
  BY <1>1, AheadIsPosition
<1>10. \A i \in InvokeIds : Ahead(i)' = IF Ahead(i) > d THEN Ahead(i) - (d + 1)
                                        ELSE Ahead(i) + MaxInvokeId - (d + 1)
  BY <1>1, <1>2, <1>5, AheadAfter
<1>11. AgesDiffer'
  BY <1>6, <1>8 DEF CursorInv, AgesDiffer
<1>12. ASSUME NEW j \in InvokeIds, j # id, age'[j] < Window
       PROVE  Cardinality(Older(j)') <= MaxTransactions - 1
  <2>1. age[j] < Window /\ age'[j] = age[j] + 1
    BY <1>6, <1>8, <1>12
  <2>2. Older(j)' \subseteq Older(j)
    <3> SUFFICES ASSUME NEW i \in Older(j)' PROVE i \in Older(j)
      OBVIOUS
    <3>1. /\ i \in InvokeIds /\ i # j /\ age'[i] >= age'[j]
          /\ Ahead(i)' > Ahead(j)' \/ i \in UsedIds(TSM_List')
      BY DEF Older
    <3>2. i # id /\ age[i] >= age[j]
      BY <1>6, <1>8, <2>1, <3>1
    <3>3. CASE i \in UsedIds(TSM_List')
      BY <1>7, <3>1, <3>2, <3>3 DEF Older
    <3>4. CASE Ahead(i)' > Ahead(j)'
      <4>1. Ahead(i) # d
        BY <1>1, <1>2, <3>1, <3>2, AheadIsPosition
      <4>2. CASE Ahead(i) < d
        BY <1>2, <3>1, <3>2, <4>2 DEF Older
      <4>3. CASE Ahead(i) > d
        <5>1. Ahead(i) > Ahead(j)
          BY <1>2, <1>9, <1>10, <3>1, <3>4, <4>3, TableAssumption
        <5>2. QED BY <3>1, <3>2, <5>1 DEF Older
      <4>4. QED BY <1>2, <1>9, <3>1, <4>1, <4>2, <4>3, TableAssumption
    <3>5. QED BY <3>1, <3>3, <3>4
  <2>3. /\ Cardinality(Older(j)') <= Cardinality(Older(j))
        /\ Cardinality(Older(j)') \in Nat /\ Cardinality(Older(j)) \in Nat
    BY <2>2, OlderIsFinite, FS_Subset, FS_CardinalityType
  <2>4. Cardinality(Older(j)) <= MaxTransactions - 1
    BY <2>1 DEF CursorInv, FewAreOlder
  <2>5. QED BY <2>3, <2>4, TableAssumption
<1>13. Cardinality(Older(id)') <= MaxTransactions - 1
  <2> DEFINE others == UsedIds(TSM_List') \ {TSM_List'[slot].InvokeID}
  <2>1. IsFiniteSet(others) /\ Cardinality(others) <= MaxTransactions - 1
    BY <1>3, <1>4, OthersInUse
  <2>2. \A i \in InvokeIds \ {id} : ~(Ahead(i)' > Ahead(id)')
    BY <1>2, <1>9, <1>10, TableAssumption
  <2>3. Older(id)' \subseteq others
    BY <1>4, <2>2 DEF Older
  <2> HIDE DEF others
  <2>4. /\ Cardinality(Older(id)') <= Cardinality(others) /\ Cardinality(others) \in Nat
        /\ Cardinality(Older(id)') \in Nat
    BY <2>1, <2>3, FS_Subset, FS_CardinalityType
  <2>5. QED BY <2>1, <2>4, TableAssumption
<1>14. QED BY <1>11, <1>12, <1>13 DEF FewAreOlder

(* Every step but SendConfirmed hands no ID out.                           *)
LEMMA OtherStepsHandOutNothing ==
  ASSUME IInv, [Next]_vars, ~(\E c \in Clients : SendConfirmed(c))
  PROVE  /\ UNCHANGED <<age, Current_Invoke_ID>>
         /\ UsedIds(TSM_List') \subseteq UsedIds(TSM_List)
<1>1. ASSUME NEW ids, TSM_List' = FreeIds(TSM_List, ids)
      PROVE  UsedIds(TSM_List') \subseteq UsedIds(TSM_List)
  <2>1. TSM_List \in [Slots -> Entry]
    BY DEF IInv, TypeOK
  <2>2. \A s \in Slots : TSM_List'[s].InvokeID \in {0, TSM_List[s].InvokeID}
    BY <1>1, <2>1 DEF FreeIds, Entry
  <2>3. QED BY <2>2 DEF UsedIds
<1>2. ASSUME NEW ms \in Elapsed, Timer(ms)
      PROVE  UsedIds(TSM_List') \subseteq UsedIds(TSM_List)
  <2> DEFINE after == TimerMilliseconds(TSM_List, ms, Timeout_Milliseconds, Number_Of_Retries)
  <2>1. \A s \in Slots : after[s].InvokeID = TSM_List[s].InvokeID
    BY TickType, TsmAssumption DEF IInv, TypeOK
  <2>2. TSM_List' = after
    BY <1>2 DEF Timer
  <2> HIDE DEF after
  <2>3. QED BY <2>1, <2>2 DEF UsedIds
<1>3. CASE UNCHANGED vars
  BY <1>3 DEF vars, table, history
<1>4. CASE CovThread
  BY <1>1, <1>4
     DEF CovThread, Housekeeping, SendNothing, FreeInvokeId, table, history
<1>5. CASE MainThread
  BY <1>1, <1>2, <1>5
     DEF MainThread, Answer, Release, FreeInvokeId, Timer, ApduTimeoutSet, ApduRetriesSet,
         table, history
<1>6. CASE \E id \in InvokeIds : Lose(id)
  BY <1>6 DEF Lose, table, history
<1>7. QED BY <1>3, <1>4, <1>5, <1>6 DEF Next

LEMMA NextCursorInv == CursorInv /\ [Next]_vars => CursorInv'
<1> SUFFICES ASSUME CursorInv, [Next]_vars PROVE CursorInv'
  OBVIOUS
<1>1. IInv'
  BY NextIInv DEF CursorInv
<1>2. CASE \E c \in Clients : SendConfirmed(c)
  BY <1>1, <1>2, SendCursor DEF CursorInv
<1>3. CASE ~(\E c \in Clients : SendConfirmed(c))
  BY <1>1, <1>3, OtherStepsHandOutNothing, NothingHandedOut DEF CursorInv
<1>4. QED BY <1>2, <1>3

LEMMA InitCursorInv == Init => CursorInv
<1> SUFFICES ASSUME Init PROVE CursorInv
  OBVIOUS
<1>1. \A id \in InvokeIds : ~(age[id] < Window)
  BY WindowType DEF Init
<1>2. QED BY <1>1, InitIInv DEF CursorInv, AgesDiffer, FewAreOlder

(* An ID is used again only after all but MAX_TSM_TRANSACTIONS of the      *)
(* others were: an answer, which tsm_free_invoke_id matches by its ID      *)
(* alone, has to be late by that many requests to be taken for another.    *)
THEOREM IdsReturnLate == Spec => IdsAreReusedLate
<1>1. ASSUME CursorInv, [Next]_vars
      PROVE  \A id \in InvokeIds :
               id \in UsedIds(TSM_List') \ UsedIds(TSM_List) => age[id] >= Window
  <2>1. ASSUME NEW c \in Clients, SendConfirmed(c)
        PROVE  \A id \in InvokeIds :
                 id \in UsedIds(TSM_List') \ UsedIds(TSM_List) => age[id] >= Window
    <3>1. /\ TSM_List \in [Slots -> Entry] /\ Current_Invoke_ID \in InvokeIds
          /\ Timeout_Milliseconds \in Nat /\ TransactionAvailable(TSM_List)
      BY <1>1, <2>1, TsmAssumption DEF CursorInv, IInv, TypeOK, SendConfirmed
    <3>2. LET id == NextFreeInvokeId(TSM_List, Current_Invoke_ID)
              slot == FirstFreeSlot(TSM_List)
          IN /\ TSM_List'[slot].InvokeID = id
             /\ \A s \in Slots : s # slot => TSM_List'[s] = TSM_List[s]
      BY <2>1, <3>1, SendEffect DEF SendConfirmed
    <3>3. UsedIds(TSM_List') \ UsedIds(TSM_List)
            \subseteq {NextFreeInvokeId(TSM_List, Current_Invoke_ID)}
      BY <3>2 DEF UsedIds
    <3>4. QED BY <1>1, <3>1, <3>3, HandedOutLate
  <2>2. QED BY <1>1, <2>1, OtherStepsHandOutNothing DEF CursorInv
<1>2. QED
  BY InitCursorInv, NextCursorInv, <1>1, PTL DEF Spec, IdsAreReusedLate
=============================================================================
