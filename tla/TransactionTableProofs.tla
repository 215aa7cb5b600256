----------------------- MODULE TransactionTableProofs -----------------------
(***************************************************************************)
(* Lemmas about the operators of TransactionTable, for every size of the   *)
(* table and every width of the invoke ID.                                 *)
(***************************************************************************)
EXTENDS TransactionTable, LeastElements

(* tsm_find_first_free_index finds a free slot when there is one.          *)
LEMMA FirstFreeSlotIsFree ==
  ASSUME NEW list, TransactionAvailable(list)
  PROVE  FirstFreeSlot(list) \in Slots /\ list[FirstFreeSlot(list)].InvokeID = 0
<1> DEFINE F == {s \in Slots : list[s].InvokeID = 0}
<1>1. F \in SUBSET Nat /\ F # {}
  BY TableAssumption DEF TransactionAvailable, Slots
<1>2. PICK m \in F : \A s \in F : m <= s
  <2> HIDE DEF F
  <2> QED BY <1>1, LeastNatural
<1>3. \A t \in 1..(m - 1) : list[t].InvokeID # 0
  BY <1>2, TableAssumption DEF Slots
<1>4. QED BY <1>2, <1>3 DEF FirstFreeSlot

(* While a slot is free, an ID is free: the loop of tsm_next_free_invokeID *)
(* ends. There are fewer occupied slots than IDs.                          *)
LEMMA SomeIdIsFree ==
  ASSUME NEW list \in [Slots -> Entry], TransactionAvailable(list)
  PROVE  \E id \in InvokeIds : id \notin UsedIds(list)
<1> SUFFICES ASSUME \A id \in InvokeIds : id \in UsedIds(list) PROVE FALSE
  OBVIOUS
<1>1. PICK free \in Slots : list[free].InvokeID = 0
  BY DEF TransactionAvailable
<1> DEFINE slot == [id \in InvokeIds |-> CHOOSE s \in Slots : list[s].InvokeID = id]
<1>2. \A id \in InvokeIds : slot[id] \in Slots \ {free} /\ list[slot[id]].InvokeID = id
  BY <1>1, TableAssumption DEF UsedIds, InvokeIds
<1>3. IsFiniteSet(Slots) /\ Cardinality(Slots) = MaxTransactions
  BY FS_Interval, TableAssumption DEF Slots
<1>4. /\ IsFiniteSet(Slots \ {free})
      /\ Cardinality(Slots \ {free}) = MaxTransactions - 1
  BY <1>1, <1>3, FS_RemoveElement
<1>5. IsFiniteSet(InvokeIds) /\ Cardinality(InvokeIds) = MaxInvokeId
  BY FS_Interval, TableAssumption DEF InvokeIds
<1>6. Cardinality(Slots \ {free}) < Cardinality(InvokeIds)
  BY <1>4, <1>5, TableAssumption
<1>7. slot \in [InvokeIds -> Slots \ {free}]
  BY <1>2
<1>8. \E x, y \in InvokeIds : x # y /\ slot[x] = slot[y]
  <2> HIDE DEF slot
  <2> QED BY <1>4, <1>5, <1>6, <1>7, FS_PigeonHole
<1>9. QED BY <1>2, <1>8

(* The search of tsm_next_free_invokeID stops at the first ID after the    *)
(* cursor that is not in use.                                              *)
LEMMA SkipDistanceIsFirst ==
  ASSUME NEW list \in [Slots -> Entry], TransactionAvailable(list),
         NEW cursor \in InvokeIds
  PROVE  /\ SkipDistance(list, cursor) \in 0..(MaxInvokeId - 1)
         /\ IdAfter(cursor, SkipDistance(list, cursor)) \notin UsedIds(list)
         /\ \A e \in 0..(SkipDistance(list, cursor) - 1) :
              IdAfter(cursor, e) \in UsedIds(list)
<1> DEFINE D == {d \in 0..(MaxInvokeId - 1) : IdAfter(cursor, d) \notin UsedIds(list)}
<1>1. PICK id \in InvokeIds : id \notin UsedIds(list)
  BY SomeIdIsFree
<1>2. D # {}
  <2>1. CASE id >= cursor
    <3>1. id - cursor \in 0..(MaxInvokeId - 1) /\ IdAfter(cursor, id - cursor) = id
      BY <2>1, TableAssumption DEF IdAfter, InvokeIds
    <3>2. QED BY <1>1, <3>1
  <2>2. CASE id < cursor
    <3>1. /\ id - cursor + MaxInvokeId \in 0..(MaxInvokeId - 1)
          /\ IdAfter(cursor, id - cursor + MaxInvokeId) = id
      BY <2>2, TableAssumption DEF IdAfter, InvokeIds
    <3>2. QED BY <1>1, <3>1
  <2>3. QED BY <2>1, <2>2 DEF InvokeIds
<1>3. D \in SUBSET Nat
  BY TableAssumption
<1>4. PICK m \in D : \A d \in D : m <= d
  <2> HIDE DEF D
  <2> QED BY <1>2, <1>3, LeastNatural
<1>5. \A e \in 0..(m - 1) : IdAfter(cursor, e) \in UsedIds(list)
  BY <1>4, TableAssumption
<1>6. QED BY <1>4, <1>5 DEF SkipDistance

(* tsm_next_free_invokeID returns an ID that is nowhere in the table, and  *)
(* leaves the cursor at a legal ID.                                        *)
LEMMA NextFreeInvokeIdIsFree ==
  ASSUME NEW list \in [Slots -> Entry], TransactionAvailable(list),
         NEW cursor \in InvokeIds
  PROVE  /\ NextFreeInvokeId(list, cursor) \in InvokeIds \ UsedIds(list)
         /\ CursorAfter(list, cursor) \in InvokeIds
<1>1. \A d \in 0..MaxInvokeId : IdAfter(cursor, d) \in InvokeIds
  BY TableAssumption DEF IdAfter, InvokeIds
<1>2. /\ SkipDistance(list, cursor) \in 0..(MaxInvokeId - 1)
      /\ IdAfter(cursor, SkipDistance(list, cursor)) \notin UsedIds(list)
  BY SkipDistanceIsFirst
<1>3. SkipDistance(list, cursor) + 1 \in 0..MaxInvokeId
  BY <1>2, TableAssumption
<1>4. QED
  BY <1>1, <1>2, <1>3, TableAssumption DEF NextFreeInvokeId, CursorAfter

-----------------------------------------------------------------------------
(* What the table operators do to a well-typed table.                      *)

(* Updating a field keeps an entry an entry.                               *)
LEMMA EntryUpdate ==
  ASSUME NEW e \in Entry, NEW id \in 0..MaxInvokeId, NEW st \in {Idle, Await}, NEW n \in Nat
  PROVE  /\ [e EXCEPT !.InvokeID = id] \in Entry
         /\ [e EXCEPT !.state = st] \in Entry
         /\ [e EXCEPT !.RetryCount = n] \in Entry
         /\ [e EXCEPT !.RequestTimer = n] \in Entry
BY DEF Entry

LEMMA FreeIdsType ==
  ASSUME NEW list \in [Slots -> Entry], NEW ids
  PROVE  FreeIds(list, ids) \in [Slots -> Entry]
<1>1. ASSUME NEW e \in Entry PROVE [e EXCEPT !.state = Idle, !.InvokeID = 0] \in Entry
  <2>1. 0 \in 0..MaxInvokeId /\ Idle \in {Idle, Await}
    BY TableAssumption
  <2>2. [e EXCEPT !.state = Idle] \in Entry
    BY <2>1, EntryUpdate
  <2>3. QED BY <2>1, <2>2, EntryUpdate
<1>2. \A s \in Slots : list[s] \in Entry
  OBVIOUS
<1>3. QED BY <1>1, <1>2 DEF FreeIds

LEMMA TickType ==
  ASSUME NEW list \in [Slots -> Entry], NEW ms \in Nat, NEW timeout \in Nat, NEW retries \in Nat
  PROVE  /\ TimerMilliseconds(list, ms, timeout, retries) \in [Slots -> Entry]
         /\ \A s \in Slots :
              TimerMilliseconds(list, ms, timeout, retries)[s].InvokeID = list[s].InvokeID
<1> SUFFICES ASSUME NEW s \in Slots
             PROVE  /\ TickEntry(list[s], ms, timeout, retries) \in Entry
                    /\ TickEntry(list[s], ms, timeout, retries).InvokeID = list[s].InvokeID
  BY DEF TimerMilliseconds
<1>1. list[s] \in Entry
  OBVIOUS
<1>2. Remaining(list[s], ms) \in Nat
  BY <1>1 DEF Entry, Remaining
<1> DEFINE e == list[s]
           left == Remaining(e, ms)
<1> HIDE DEF e, left
<1>3. e \in Entry /\ left \in Nat
  BY <1>1, <1>2 DEF e, left
<1>4. /\ [e EXCEPT !.RequestTimer = left] \in Entry
      /\ [e EXCEPT !.RequestTimer = left].InvokeID = e.InvokeID
  BY <1>3 DEF Entry
<1>5. /\ [e EXCEPT !.RequestTimer = timeout, !.RetryCount = @ + 1] \in Entry
      /\ [e EXCEPT !.RequestTimer = timeout, !.RetryCount = @ + 1].InvokeID = e.InvokeID
  <2>1. [e EXCEPT !.RequestTimer = timeout] \in Entry
    BY <1>3 DEF Entry
  <2>2. e.RetryCount + 1 \in Nat
    BY <1>3 DEF Entry
  <2>3. [e EXCEPT !.RequestTimer = timeout, !.RetryCount = @ + 1] \in Entry
    BY <2>1, <2>2 DEF Entry
  <2>4. QED BY <1>3, <2>3 DEF Entry
<1>6. /\ [e EXCEPT !.RequestTimer = 0, !.state = Idle] \in Entry
      /\ [e EXCEPT !.RequestTimer = 0, !.state = Idle].InvokeID = e.InvokeID
  BY <1>3 DEF Entry
<1>7. /\ TickEntry(e, ms, timeout, retries) \in Entry
      /\ TickEntry(e, ms, timeout, retries).InvokeID = e.InvokeID
  BY <1>3, <1>4, <1>5, <1>6 DEF TickEntry, left
<1>8. QED BY <1>7 DEF e

(* The table after a request is set: the free slot holds the new ID, every *)
(* other slot is as it was.                                                *)
LEMMA SendEffect ==
  ASSUME NEW list \in [Slots -> Entry], NEW cursor \in InvokeIds, NEW timeout \in Nat,
         TransactionAvailable(list)
  PROVE  LET id == NextFreeInvokeId(list, cursor)
             after == SetConfirmedTransaction(Reserve(list, cursor, timeout), id, timeout)
             slot == FirstFreeSlot(list)
         IN /\ after \in [Slots -> Entry]
            /\ after[slot].InvokeID = id
            /\ after[slot].state = Await
            /\ after[slot].RetryCount = 0
            /\ \A s \in Slots : s # slot => after[s] = list[s]
<1> DEFINE id == NextFreeInvokeId(list, cursor)
           slot == FirstFreeSlot(list)
           entry == [list[slot] EXCEPT !.InvokeID = id, !.state = Idle, !.RequestTimer = timeout]
           reserved == Reserve(list, cursor, timeout)
           after == SetConfirmedTransaction(reserved, id, timeout)
<1>1. id \in InvokeIds /\ id \notin UsedIds(list)
  BY NextFreeInvokeIdIsFree
<1>2. slot \in Slots
  BY FirstFreeSlotIsFree
<1>3. id # 0 /\ id \in 0..MaxInvokeId
  BY <1>1, TableAssumption DEF InvokeIds
<1>4. \A s \in Slots : list[s].InvokeID # id
  BY <1>1, <1>3 DEF UsedIds
<1>5. entry \in Entry /\ entry.InvokeID = id
  BY <1>2, <1>3 DEF Entry
<1> HIDE DEF entry
<1>6. reserved = [list EXCEPT ![slot] = entry]
  BY DEF Reserve, entry
<1>7. \A s \in Slots : s # slot => reserved[s] = list[s]
  BY <1>6
<1>8. reserved[slot] = entry
  BY <1>2, <1>6
<1> HIDE DEF id, slot, reserved
<1>9. \A s \in Slots : after[s] =
        IF reserved[s].InvokeID = id /\ id # 0
        THEN [reserved[s] EXCEPT !.state = Await, !.RetryCount = 0, !.RequestTimer = timeout]
        ELSE reserved[s]
  BY DEF SetConfirmedTransaction
<1>10. \A s \in Slots : s # slot => after[s] = list[s]
  BY <1>4, <1>7, <1>9
<1>11. after[slot] = [entry EXCEPT !.state = Await, !.RetryCount = 0, !.RequestTimer = timeout]
  BY <1>2, <1>3, <1>5, <1>8, <1>9
<1>12. /\ after[slot] \in Entry /\ after[slot].InvokeID = id
       /\ after[slot].state = Await /\ after[slot].RetryCount = 0
  <2>1. [entry EXCEPT !.state = Await] \in Entry
    BY <1>5 DEF Entry
  <2>2. [entry EXCEPT !.state = Await, !.RetryCount = 0] \in Entry
    BY <2>1 DEF Entry
  <2>3. after[slot] \in Entry
    BY <1>11, <2>2 DEF Entry
  <2>4. QED BY <1>5, <1>11, <2>3 DEF Entry
<1>13. after \in [Slots -> Entry]
  <2>1. \A s \in Slots : after[s] \in Entry
    BY <1>10, <1>12
  <2>2. after = [s \in Slots |-> after[s]]
    BY DEF SetConfirmedTransaction
  <2>3. QED BY <2>1, <2>2
<1>14. QED
  BY <1>10, <1>12, <1>13 DEF id, slot, reserved
=============================================================================
