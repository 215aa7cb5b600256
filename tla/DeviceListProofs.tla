-------------------------- MODULE DeviceListProofs --------------------------
(***************************************************************************)
(* Safety of the sensor list, for every number of sensors, instances and   *)
(* subscriptions and every backend. The inductive invariant says which     *)
(* thread holds which semaphore, and how far each loop of the refresh      *)
(* thread has come.                                                        *)
(***************************************************************************)
EXTENDS DeviceList, LeastElements

(* Each semaphore is held by the thread that is between its wait and post. *)
Exclusion ==
  /\ server_sem = "main" <=> reader["main"].pc # "idle"
  /\ cov_sem = "cov" <=> reader["cov"].pc # "idle"
  /\ server_sem = "refresh" <=>
       refresh.pc \in {"lock cov", "rebuild", "unlock cov", "unlock server"}
  /\ cov_sem = "refresh" <=> refresh.pc \in {"rebuild", "unlock cov"}

(* Outside the rebuild no entry in use is empty.                           *)
ListIsFilled ==
  refresh.pc # "rebuild" => \A n \in 1..g_device_count : g_device_list[n].id # 0

(* The loops of the refresh thread.                                        *)
Progress ==
  /\ refresh.pc \in {"compare", "assign"} =>
       refresh.n <= Len(refresh.reply) + 1 /\ refresh.actual_count < refresh.n
  /\ refresh.pc = "assign" =>
       refresh.n <= Len(refresh.reply) /\ DeviceWithId(refresh.device.id) # NotFound
  /\ refresh.pc = "init key" =>
       /\ g_local_count = refresh.n - 1 /\ g_local_count <= g_device_count
       /\ \A n \in 1..g_local_count : g_local_list[n] = Key(n)

(* A key that is or was in use names an entry of the list.                 *)
KeysAreWritten ==
  /\ \A n \in 1..g_local_count : g_local_list[n].device \in Index
  /\ \A t \in Threads : reader[t].pc = "access" /\ InTable(t) => Accessed(t) \in Index

IInv ==
  TypeOK /\ Exclusion /\ ListIsFilled /\ ObjectsMatchDevices /\ Progress /\ KeysAreWritten

-----------------------------------------------------------------------------
(* The lists.                                                              *)

LEMMA FirstIndexIsMember ==
  ASSUME NEW S \in SUBSET Index, S # {}
  PROVE  FirstIndex(S) \in S
<1>1. S \in SUBSET Nat
  BY DEF Index
<1>2. \E n \in S : \A m \in S : n <= m
  BY <1>1, LeastNatural
<1>3. QED BY <1>2 DEF FirstIndex

(* The n-th sensor with an ID exists as long as there are n of them: n is  *)
(* passed first at the position of such a sensor.                          *)
LEMMA NthIsKnown ==
  ASSUME NEW reply \in Replies, NEW n \in 1..Count(reply)
  PROVE  /\ Nth(reply, n) \in Known(reply)
         /\ Cardinality(Known(reply) \cap 1..Nth(reply, n)) = n
<1> DEFINE K == Known(reply)
           upto(p) == Cardinality(K \cap 1..p)
           P == {p \in 0..Len(reply) : upto(p) >= n}
<1>1. reply \in Seq(Sensor) /\ Len(reply) \in Nat /\ DOMAIN reply = 1..Len(reply)
  BY DeviceListAssumption
<1>2. K \subseteq 1..Len(reply) /\ IsFiniteSet(K)
  <2>1. K \subseteq 1..Len(reply)
    BY <1>1 DEF Known
  <2>2. IsFiniteSet(1..Len(reply))
    BY <1>1, FS_Interval
  <2>3. QED BY <2>1, <2>2, FS_Subset
<1>3. n \in Nat /\ n >= 1
  <2>1. Count(reply) \in Nat
    BY <1>2, FS_CardinalityType DEF Count
  <2>2. QED BY <2>1
<1>4. \A p \in 0..Len(reply) : IsFiniteSet(K \cap 1..p) /\ upto(p) \in Nat
  <2>1. \A p \in 0..Len(reply) : IsFiniteSet(K \cap 1..p)
    BY <1>2, FS_Subset
  <2>2. QED BY <2>1, FS_CardinalityType
<1>5. P # {}
  <2>1. K \cap 1..Len(reply) = K
    BY <1>2
  <2>2. upto(Len(reply)) >= n
    BY <2>1, <1>3 DEF Count
  <2>3. Len(reply) \in 0..Len(reply)
    BY <1>1
  <2> HIDE DEF upto
  <2>4. Len(reply) \in P
    BY <2>2, <2>3
  <2>5. QED BY <2>4
<1>6. PICK p \in P : \A q \in P : p <= q
  <2>1. P \in SUBSET Nat
    OBVIOUS
  <2> HIDE DEF P
  <2>2. QED BY <1>5, <2>1, LeastNatural
<1>7. p # 0
  <2>1. K \cap 1..0 = {}
    OBVIOUS
  <2>2. upto(0) = 0
    BY <2>1, FS_EmptySet
  <2>3. QED BY <1>3, <1>6, <2>2
<1>8. p - 1 \in 0..Len(reply) /\ ~(upto(p - 1) >= n)
  <2>1. p - 1 \in 0..Len(reply) /\ ~(p <= p - 1)
    <3> HIDE DEF upto
    <3> QED BY <1>1, <1>6, <1>7
  <2>2. p - 1 \notin P
    <3> HIDE DEF P
    <3> QED BY <1>6, <2>1
  <2>3. QED BY <2>1, <2>2
<1>9. p \in K /\ upto(p) = upto(p - 1) + 1
  <2>1. CASE p \notin K
    <3>1. K \cap 1..p = K \cap 1..(p - 1)
      BY <1>2, <1>6, <1>7, <2>1
    <3>2. QED BY <1>6, <1>8, <3>1
  <2>2. CASE p \in K
    <3>1. K \cap 1..p = (K \cap 1..(p - 1)) \cup {p} /\ p \notin K \cap 1..(p - 1)
      BY <1>2, <1>6, <1>7, <2>2
    <3>2. QED BY <1>4, <1>8, <2>2, <3>1, FS_AddElement
  <2>3. QED BY <2>1, <2>2
<1>10. upto(p) = n
  <2>1. upto(p) \in Nat /\ upto(p - 1) \in Nat /\ upto(p) >= n
    BY <1>4, <1>6, <1>8
  <2> HIDE DEF upto
  <2>2. QED BY <1>3, <1>8, <1>9, <2>1
<1>11. QED BY <1>9, <1>10 DEF Nth

(* rebuild_device_list fills the entries it counts.                        *)
LEMMA RebuiltIsFilled ==
  ASSUME NEW reply \in Replies
  PROVE  /\ Count(reply) \in 0..MaxDevices
         /\ Rebuilt(reply) \in [Index -> Device]
         /\ \A n \in 1..Count(reply) : Rebuilt(reply)[n].id # 0
<1>1. /\ reply \in Seq(Sensor) /\ Len(reply) \in Nat /\ Len(reply) <= MaxDevices
      /\ DOMAIN reply = 1..Len(reply)
  BY DeviceListAssumption
<1>2. Count(reply) \in 0..Len(reply)
  <2>1. Known(reply) \subseteq 1..Len(reply)
    BY <1>1 DEF Known
  <2>2. IsFiniteSet(1..Len(reply)) /\ Cardinality(1..Len(reply)) = Len(reply)
    BY <1>1, FS_Interval
  <2>3. QED BY <1>1, <2>1, <2>2, FS_Subset, FS_CardinalityType DEF Count
<1>3. ASSUME NEW n \in 1..Count(reply)
      PROVE  /\ reply[Nth(reply, n)].id \in Instances /\ reply[Nth(reply, n)].id # 0
             /\ reply[Nth(reply, n)].people \in People
  <2>1. Nth(reply, n) \in Known(reply)
    BY NthIsKnown
  <2>2. reply[Nth(reply, n)] \in Sensor /\ reply[Nth(reply, n)].id >= 1
    BY <1>1, <2>1 DEF Known
  <2>3. QED BY <2>2 DEF Sensor
<1>4. NoDevice \in Device
  BY DeviceListAssumption DEF NoDevice, Device
<1>5. \A n \in Index : n <= Count(reply) => n \in 1..Count(reply)
  BY <1>1, <1>2 DEF Index
<1>6. Rebuilt(reply) \in [Index -> Device]
  <2> SUFFICES ASSUME NEW n \in Index PROVE Rebuilt(reply)[n] \in Device
    BY DEF Rebuilt
  <2>1. CASE n <= Count(reply)
    BY <1>3, <1>5, <2>1 DEF Rebuilt, Device
  <2>2. CASE ~(n <= Count(reply))
    BY <1>4, <2>2 DEF Rebuilt
  <2>3. QED BY <2>1, <2>2
<1>7. \A n \in 1..Count(reply) : n \in Index /\ n <= Count(reply)
  BY <1>1, <1>2, DeviceListAssumption DEF Index
<1>8. \A n \in 1..Count(reply) : Rebuilt(reply)[n].id # 0
  BY <1>3, <1>7 DEF Rebuilt
<1>9. QED
  BY <1>1, <1>2, <1>6, <1>8, DeviceListAssumption

LEMMA CountsFit ==
  ASSUME TypeOK
  PROVE  1..g_device_count \subseteq Index /\ 1..g_local_count \subseteq Index
<1>1. MaxDevices \in Nat
  BY DeviceListAssumption
<1>2. g_device_count \in 0..MaxDevices /\ g_local_count \in 0..MaxDevices
  BY DEF TypeOK
<1>3. QED BY <1>1, <1>2 DEF Index

LEMMA DeviceWithIdFits ==
  ASSUME TypeOK, NEW id
  PROVE  /\ DeviceWithId(id) # NotFound =>
              /\ DeviceWithId(id) \in Index /\ DeviceWithId(id) \in 1..g_device_count
              /\ g_device_list[DeviceWithId(id)].id = id
<1> DEFINE S == {n \in 1..g_device_count : g_device_list[n].id = id}
<1>1. S \in SUBSET Index
  BY CountsFit
<1>2. S # {} => FirstIndex(S) \in S
  BY <1>1, FirstIndexIsMember
<1>3. DeviceWithId(id) # NotFound => S # {} /\ DeviceWithId(id) \in S
  BY <1>2 DEF DeviceWithId, FirstIndex
<1>4. QED BY <1>1, <1>3

LEMMA InstanceToIndexFits ==
  ASSUME TypeOK, NEW instance
  PROVE  /\ InstanceToIndex(instance) \in 0..MaxDevices
         /\ InstanceToIndex(instance) # NotFound =>
              InstanceToIndex(instance) \in 1..g_local_count
<1> DEFINE S == {n \in 1..g_local_count : g_local_list[n].instance = instance}
<1>1. S \in SUBSET Index
  BY CountsFit
<1>2. S # {} => FirstIndex(S) \in S
  BY <1>1, FirstIndexIsMember
<1>3. InstanceToIndex(instance) \in S \cup {NotFound}
  BY <1>2 DEF InstanceToIndex, FirstIndex
<1>4. Index \subseteq 0..MaxDevices /\ NotFound \in 0..MaxDevices /\ NotFound \notin Index
  BY DeviceListAssumption DEF Index, NotFound
<1>5. QED BY <1>1, <1>3, <1>4

(* Nothing else that the invariant speaks of depends on more of the list   *)
(* than the IDs.                                                           *)
LEMMA SameIds ==
  ASSUME TypeOK, UNCHANGED g_device_count,
         \A n \in Index : g_device_list'[n].id = g_device_list[n].id
  PROVE  /\ \A id : DeviceWithId(id)' = DeviceWithId(id)
         /\ \A n \in Index : Key(n)' = Key(n)
<1>1. 1..g_device_count \subseteq Index
  BY CountsFit
<1>2. ASSUME NEW id PROVE DeviceWithId(id)' = DeviceWithId(id)
  <2> DEFINE S == {n \in 1..g_device_count : g_device_list[n].id = id}
             T == {n \in 1..g_device_count' : g_device_list'[n].id = id}
  <2>1. S = T
    BY <1>1
  <2>2. DeviceWithId(id) = FirstIndex(S)
    BY DEF DeviceWithId
  <2>3. DeviceWithId(id)' = FirstIndex(T)
    BY DEF DeviceWithId
  <2> HIDE DEF S, T
  <2>4. QED BY <2>1, <2>2, <2>3
<1>3. QED BY <1>2 DEF Key

(* A step of a thread other than the refresh thread.                       *)
LEMMA OtherThreadStep ==
  ASSUME IInv, TypeOK', Exclusion',
         UNCHANGED <<g_device_count, keys, refresh>>,
         \A n \in Index : g_device_list'[n].id = g_device_list[n].id,
         \A t \in Threads : reader'[t].pc = "access" /\ InTable(t)' =>
           g_local_list[reader'[t].index].device \in Index
  PROVE  IInv'
<1>1. /\ \A id : DeviceWithId(id)' = DeviceWithId(id)
      /\ \A n \in Index : Key(n)' = Key(n)
  BY SameIds DEF IInv
<1>2. /\ 1..g_device_count \subseteq Index /\ 1..g_local_count \subseteq Index
      /\ UNCHANGED <<g_local_list, g_local_count>>
  BY CountsFit DEF IInv, keys
<1>3. ListIsFilled'
  BY <1>2 DEF IInv, ListIsFilled
<1>4. ObjectsMatchDevices'
  BY <1>1, <1>2 DEF IInv, ObjectsMatchDevices
<1>5. Progress'
  <2>1. DeviceWithId(refresh.device.id)' = DeviceWithId(refresh.device.id)
    BY <1>1
  <2>2. \A n \in 1..g_local_count : Key(n)' = Key(n)
    BY <1>1, <1>2
  <2>3. QED BY <1>2, <2>1, <2>2 DEF IInv, Progress
<1>6. KeysAreWritten'
  BY <1>2 DEF IInv, KeysAreWritten, Accessed
<1>7. QED BY <1>3, <1>4, <1>5, <1>6 DEF IInv

-----------------------------------------------------------------------------
(* The main and the COV thread.                                            *)

ReaderStates == {"idle", "ready", "validate", "look up", "access"}
Reader == [pc : ReaderStates, instance : Instances \cup {0}, index : 0..MaxDevices]

(* A thread moves on; its index, when it is at an access, is in the table. *)
LEMMA ReaderMoves ==
  ASSUME IInv, NEW t \in Threads, NEW r \in Reader,
         reader' = [reader EXCEPT ![t] = r],
         r.pc = "access" /\ r.index # NotFound => r.index \in 1..g_local_count
  PROVE  /\ reader' \in [Threads -> Reader]
         /\ reader'[t] = r
         /\ \A u \in Threads : u # t => reader'[u] = reader[u]
         /\ \A u \in Threads : reader'[u].pc = "access" /\ InTable(u)' =>
              g_local_list[reader'[u].index].device \in Index
<1>1. reader \in [Threads -> Reader]
  BY DEF IInv, TypeOK, Reader, ReaderStates
<1>2. \A u \in Threads : reader'[u] = IF u = t THEN r ELSE reader[u]
  BY <1>1
<1>3. reader' \in [Threads -> Reader]
  BY <1>1
<1>4. ASSUME NEW u \in Threads, reader'[u].pc = "access", InTable(u)'
      PROVE  g_local_list[reader'[u].index].device \in Index
  <2>1. reader'[u].index # NotFound
    BY <1>4 DEF InTable
  <2>2. CASE u = t
    BY <1>2, <1>4, <2>1, <2>2 DEF IInv, KeysAreWritten
  <2>3. CASE u # t
    BY <1>2, <1>4, <2>1, <2>3 DEF IInv, KeysAreWritten, Accessed, InTable
  <2>4. QED BY <2>2, <2>3
<1>5. QED BY <1>2, <1>3, <1>4

(* A thread that keeps its semaphore.                                      *)
LEMMA WorkingStep ==
  ASSUME IInv, NEW t \in Threads, NEW r \in Reader,
         reader' = [reader EXCEPT ![t] = r],
         reader[t].pc # "idle", r.pc # "idle",
         r.pc = "access" /\ r.index # NotFound => r.index \in 1..g_local_count,
         g_device_list' \in [Index -> Device],
         \A n \in Index : g_device_list'[n].id = g_device_list[n].id,
         UNCHANGED <<g_device_count, keys, server_sem, cov_sem, refresh>>,
         sweep' \in [phase : Phases, todo : SUBSET Subscribed],
         marked' \in SUBSET Subscribed, told' \in [Subscribed -> People \cup {-1}]
  PROVE  IInv'
<1>1. /\ reader' \in [Threads -> Reader]
      /\ reader'[t] = r
      /\ \A u \in Threads : u # t => reader'[u] = reader[u]
      /\ \A u \in Threads : reader'[u].pc = "access" /\ InTable(u)' =>
           g_local_list[reader'[u].index].device \in Index
  BY ReaderMoves
<1>2. TypeOK'
  BY <1>1 DEF IInv, TypeOK, keys, Reader, ReaderStates
<1>3. Exclusion'
  <2>1. \A u \in Threads : reader'[u].pc = "idle" <=> reader[u].pc = "idle"
    BY <1>1
  <2>2. QED BY <2>1 DEF IInv, Exclusion, Threads
<1>4. QED BY <1>1, <1>2, <1>3, OtherThreadStep

LEMMA ReaderFields ==
  ASSUME TypeOK, NEW t \in Threads
  PROVE  reader[t] \in Reader
BY DEF TypeOK, Reader, ReaderStates

(* A thread that takes or returns its semaphore, at which it is idle.      *)
LEMMA SemaphoreStep ==
  ASSUME IInv, NEW t \in Threads, NEW pc \in {"idle", "ready"},
         reader' = [reader EXCEPT ![t].pc = pc],
         UNCHANGED <<devices, keys, refresh, marked, told>>,
         sweep' \in [phase : Phases, todo : SUBSET Subscribed],
         Exclusion', server_sem' \in {"none", "main", "refresh"},
         cov_sem' \in {"none", "cov", "refresh"}
  PROVE  IInv'
<1> DEFINE r == [reader[t] EXCEPT !.pc = pc]
<1>1. r \in Reader /\ r.pc = pc
  BY ReaderFields DEF IInv, Reader, ReaderStates
<1>2. reader' = [reader EXCEPT ![t] = r]
  OBVIOUS
<1> HIDE DEF r
<1>3. /\ reader' \in [Threads -> Reader]
      /\ \A u \in Threads : reader'[u].pc = "access" /\ InTable(u)' =>
           g_local_list[reader'[u].index].device \in Index
  BY <1>1, <1>2, ReaderMoves
<1>4. TypeOK'
  BY <1>3 DEF IInv, TypeOK, keys, devices, Reader, ReaderStates
<1>5. QED BY <1>3, <1>4, OtherThreadStep DEF devices

LEMMA SemaphoreSteps ==
  ASSUME IInv, MainAcquire \/ MainRelease \/ CovAcquire \/ CovRelease
  PROVE  IInv'
<1>1. "main" \in Threads /\ "cov" \in Threads /\ "main" # "cov"
  BY DEF Threads
<1>2. reader \in [Threads -> Reader]
  BY DEF IInv, TypeOK, Reader, ReaderStates
<1>3. sweep \in [phase : Phases, todo : SUBSET Subscribed]
      /\ [phase |-> "MARK", todo |-> Subscribed] \in [phase : Phases, todo : SUBSET Subscribed]
  BY DEF IInv, TypeOK, Phases
<1>4. server_sem \in {"none", "main", "refresh"} /\ cov_sem \in {"none", "cov", "refresh"}
  BY DEF IInv, TypeOK
<1>5. CASE MainAcquire
  <2>1. reader'["main"].pc = "ready" /\ reader'["cov"].pc = reader["cov"].pc
    BY <1>1, <1>2, <1>5 DEF MainAcquire, Reader
  <2>2. Exclusion'
    BY <1>5, <2>1 DEF IInv, Exclusion, MainAcquire
  <2>3. QED BY <1>1, <1>3, <1>4, <1>5, <2>2, SemaphoreStep DEF MainAcquire, cov
<1>6. CASE MainRelease
  <2>1. reader'["main"].pc = "idle" /\ reader'["cov"].pc = reader["cov"].pc
    BY <1>1, <1>2, <1>6 DEF MainRelease, Reader
  <2>2. Exclusion'
    BY <1>6, <2>1 DEF IInv, Exclusion, MainRelease
  <2>3. QED BY <1>1, <1>3, <1>4, <1>6, <2>2, SemaphoreStep DEF MainRelease, cov
<1>7. CASE CovAcquire
  <2>1. reader'["cov"].pc = "ready" /\ reader'["main"].pc = reader["main"].pc
    BY <1>1, <1>2, <1>7 DEF CovAcquire, Reader
  <2>2. Exclusion'
    BY <1>7, <2>1 DEF IInv, Exclusion, CovAcquire
  <2>3. QED BY <1>1, <1>3, <1>4, <1>7, <2>2, SemaphoreStep DEF CovAcquire, cov
<1>8. CASE CovRelease
  <2>1. reader'["cov"].pc = "idle" /\ reader'["main"].pc = reader["main"].pc
    BY <1>1, <1>2, <1>8 DEF CovRelease, Reader
  <2>2. Exclusion'
    BY <1>8, <2>1 DEF IInv, Exclusion, CovRelease, Finished
  <2>3. QED BY <1>1, <1>3, <1>4, <1>8, <2>2, SemaphoreStep DEF CovRelease
<1>9. QED BY <1>5, <1>6, <1>7, <1>8

LEMMA BeginStep ==
  ASSUME IInv, NEW t \in Threads, NEW i \in Instances, Begin(t, i),
         sweep' \in [phase : Phases, todo : SUBSET Subscribed]
  PROVE  IInv'
<1> DEFINE r == [reader[t] EXCEPT !.pc = "validate", !.instance = i]
<1>1. r \in Reader /\ r.pc = "validate"
  <2>1. [reader[t] EXCEPT !.pc = "validate"] \in Reader
    BY ReaderFields DEF IInv, Reader, ReaderStates
  <2>2. r \in Reader
    BY <2>1 DEF Reader
  <2>3. QED BY <2>2, ReaderFields DEF IInv, Reader
<1>2. reader' = [reader EXCEPT ![t] = r]
  BY DEF Begin
<1> HIDE DEF r
<1>3. reader[t].pc # "idle" /\ UNCHANGED <<devices, keys, server_sem, cov_sem, refresh, marked, told>>
  BY DEF Begin
<1>4. QED BY <1>1, <1>2, <1>3, WorkingStep DEF devices, IInv, TypeOK

LEMMA LookingStep ==
  ASSUME IInv, NEW t \in Threads, Validate(t) \/ LookUp(t)
  PROVE  IInv'
<1>1. UNCHANGED <<devices, keys, server_sem, cov_sem, refresh, cov>> /\ reader[t].pc # "idle"
  BY DEF Validate, LookUp
<1>2. CASE Validate(t) /\ InstanceToIndex(reader[t].instance) = NotFound
  <2> DEFINE r == [pc |-> "ready", instance |-> 0, index |-> 0]
  <2>1. r \in Reader
    BY DeviceListAssumption DEF Reader, ReaderStates
  <2>2. reader' = [reader EXCEPT ![t] = r] /\ r.pc = "ready"
    BY <1>2 DEF Validate, Done
  <2> HIDE DEF r
  <2>3. QED BY <1>1, <2>1, <2>2, WorkingStep DEF devices, cov, IInv, TypeOK
<1>3. CASE Validate(t) /\ InstanceToIndex(reader[t].instance) # NotFound
  <2> DEFINE r == [reader[t] EXCEPT !.pc = "look up"]
  <2>1. r \in Reader /\ r.pc = "look up"
    BY ReaderFields DEF IInv, Reader, ReaderStates
  <2>2. reader' = [reader EXCEPT ![t] = r]
    BY <1>3 DEF Validate
  <2> HIDE DEF r
  <2>3. QED BY <1>1, <2>1, <2>2, WorkingStep DEF devices, cov, IInv, TypeOK
<1>4. CASE LookUp(t)
  <2> DEFINE x == InstanceToIndex(reader[t].instance)
             r == [reader[t] EXCEPT !.pc = "access", !.index = x]
  <2>1. x \in 0..MaxDevices /\ (x # NotFound => x \in 1..g_local_count)
    BY InstanceToIndexFits DEF IInv
  <2>2. reader' = [reader EXCEPT ![t] = r]
    BY <1>4 DEF LookUp
  <2> HIDE DEF x
  <2>3. r \in Reader /\ r.pc = "access" /\ r.index = x
    <3>1. [reader[t] EXCEPT !.pc = "access"] \in Reader
      BY ReaderFields DEF IInv, Reader, ReaderStates
    <3>2. r \in Reader
      BY <2>1, <3>1 DEF Reader
    <3>3. QED BY <3>2, ReaderFields DEF IInv, Reader
  <2> HIDE DEF r
  <2>4. QED BY <1>1, <2>1, <2>2, <2>3, WorkingStep DEF devices, cov, IInv, TypeOK
<1>5. QED BY <1>2, <1>3, <1>4

(* An access of the COV thread writes at most a flag.                      *)
LEMMA CovAccessStep ==
  ASSUME IInv, WildAccess \/ Clear \/ \E i \in Subscribed : Mark(i) \/ Send(i)
  PROVE  IInv'
<1> DEFINE r == [pc |-> "ready", instance |-> 0, index |-> 0]
<1>1. /\ reader["cov"].pc = "access"
      /\ reader' = [reader EXCEPT !["cov"] = r]
      /\ UNCHANGED <<g_device_count, keys, server_sem, cov_sem, refresh, sweep>>
  BY DEF WildAccess, Clear, Mark, Send, CovAccess, Done
<1>2. r \in Reader /\ r.pc = "ready" /\ "cov" \in Threads
  BY DeviceListAssumption DEF Reader, ReaderStates, Threads
<1>3. InTable("cov") => Accessed("cov") \in Index
  BY <1>1, <1>2 DEF IInv, KeysAreWritten
<1> HIDE DEF r
<1>4. /\ g_device_list' \in [Index -> Device]
      /\ \A n \in Index : g_device_list'[n].id = g_device_list[n].id
  <2>1. g_device_list \in [Index -> Device]
    BY DEF IInv, TypeOK
  <2>2. CASE g_device_list' = g_device_list
    BY <2>1, <2>2
  <2>3. CASE Clear
    <3> DEFINE a == Accessed("cov")
               device == [g_device_list[a] EXCEPT !.flag = FALSE]
    <3>1. a \in Index /\ g_device_list' = [g_device_list EXCEPT ![a] = device]
      BY <1>3, <2>3 DEF Clear
    <3>2. device \in Device /\ device.id = g_device_list[a].id
      BY <2>1, <3>1 DEF Device
    <3> HIDE DEF a, device
    <3>3. QED BY <2>1, <3>1, <3>2
  <2>4. QED BY <2>2, <2>3 DEF WildAccess, Mark, Send
<1>5. marked' \in SUBSET Subscribed
  BY DEF IInv, TypeOK, WildAccess, Clear, Mark, Send
<1>6. told' \in [Subscribed -> People \cup {-1}]
  <2>1. told \in [Subscribed -> People \cup {-1}]
    BY DEF IInv, TypeOK
  <2>2. ASSUME NEW i \in Subscribed, Send(i)
        PROVE  told' \in [Subscribed -> People \cup {-1}]
    <3>1. g_device_list[Accessed("cov")] \in Device
      BY <1>3, <2>2 DEF Send, IInv, TypeOK
    <3>2. g_device_list[Accessed("cov")].people \in People
      BY <3>1 DEF Device
    <3>3. QED BY <2>1, <2>2, <3>2 DEF Send
  <2>3. QED BY <2>1, <2>2 DEF WildAccess, Clear, Mark
<1>7. sweep' \in [phase : Phases, todo : SUBSET Subscribed]
  BY <1>1 DEF IInv, TypeOK
<1>8. QED BY <1>1, <1>2, <1>4, <1>5, <1>6, <1>7, WorkingStep

LEMMA MainStep ==
  ASSUME IInv, MainThread
  PROVE  IInv'
<1>1. "main" \in Threads
  BY DEF Threads
<1>2. CASE MainAccess
  <2> DEFINE r == [pc |-> "ready", instance |-> 0, index |-> 0]
  <2>1. r \in Reader /\ r.pc = "ready"
    BY DeviceListAssumption DEF Reader, ReaderStates
  <2>2. reader' = [reader EXCEPT !["main"] = r]
    BY <1>2 DEF MainAccess, Done
  <2> HIDE DEF r
  <2>3. reader["main"].pc # "idle" /\ UNCHANGED <<devices, keys, server_sem, cov_sem, refresh, cov>>
    BY <1>2 DEF MainAccess
  <2>4. QED BY <1>1, <2>1, <2>2, <2>3, WorkingStep DEF devices, cov, IInv, TypeOK
<1>3. ASSUME NEW i \in Instances, MainBegin(i) PROVE IInv'
  BY <1>1, <1>3, BeginStep DEF MainBegin, IInv, TypeOK
<1>4. QED
  BY <1>1, <1>2, <1>3, SemaphoreSteps, LookingStep DEF MainThread

LEMMA CovStep ==
  ASSUME IInv, CovThread
  PROVE  IInv'
<1>1. "cov" \in Threads
  BY DEF Threads
<1>2. sweep.todo \in SUBSET Subscribed /\ sweep \in [phase : Phases, todo : SUBSET Subscribed]
  BY DEF IInv, TypeOK
<1>3. ASSUME NEW i \in Subscribed, CovBegin(i) PROVE IInv'
  <2>1. sweep' \in [phase : Phases, todo : SUBSET Subscribed]
    BY <1>2, <1>3 DEF CovBegin
  <2>2. i \in Instances
    BY DeviceListAssumption
  <2>3. QED BY <1>1, <1>3, <2>1, <2>2, BeginStep DEF CovBegin
<1>4. CASE NextPhase \/ \E i \in Subscribed : CovSkip(i)
  <2>1. /\ reader' = reader /\ reader["cov"].pc = "ready"
        /\ UNCHANGED <<devices, keys, server_sem, cov_sem, refresh, marked, told>>
    BY <1>4 DEF NextPhase, CovSkip, Finished
  <2>2. sweep' \in [phase : Phases, todo : SUBSET Subscribed]
    BY <1>2, <1>4 DEF NextPhase, CovSkip, Phases
  <2>3. reader' = [reader EXCEPT !["cov"] = reader["cov"]]
    BY <2>1 DEF IInv, TypeOK
  <2>4. reader["cov"] \in Reader
    BY <1>1, ReaderFields DEF IInv
  <2>5. QED BY <1>1, <2>1, <2>2, <2>3, <2>4, WorkingStep DEF devices, IInv, TypeOK
<1>5. QED
  BY <1>1, <1>3, <1>4, SemaphoreSteps, LookingStep, CovAccessStep DEF CovThread

-----------------------------------------------------------------------------
(* The refresh thread.                                                     *)

Refresh == [pc : RefreshStates, n : 1..(MaxDevices + 1), actual_count : 0..MaxDevices,
            restart : BOOLEAN, device : Device, reply : Replies]

(* What a step of the refresh thread that leaves the lists alone must keep.*)
LEMMA RefreshStep ==
  ASSUME IInv, UNCHANGED <<devices, keys, reader, cov>>,
         refresh' \in Refresh,
         server_sem' \in {"none", "main", "refresh"}, cov_sem' \in {"none", "cov", "refresh"},
         Exclusion', ListIsFilled', ObjectsMatchDevices', Progress'
  PROVE  IInv'
<1>1. TypeOK'
  BY DEF IInv, TypeOK, Refresh, devices, keys, cov
<1>2. KeysAreWritten'
  BY DEF IInv, KeysAreWritten, Accessed, InTable, keys
<1>3. QED BY <1>1, <1>2 DEF IInv

(* The types and bounds the steps below rest on.                           *)
LEMMA RefreshFits ==
  ASSUME IInv
  PROVE  /\ refresh \in Refresh
         /\ MaxDevices \in Nat
         /\ 1 \in 1..(MaxDevices + 1) /\ 0 \in 0..MaxDevices
         /\ Len(refresh.reply) \in Nat /\ Len(refresh.reply) <= MaxDevices
         /\ refresh.reply \in Seq(Sensor)
         /\ server_sem \in {"none", "main", "refresh"} /\ cov_sem \in {"none", "cov", "refresh"}
<1>1. refresh \in Refresh
  BY DEF IInv, TypeOK, Refresh
<1>2. refresh.reply \in Replies
  BY <1>1 DEF Refresh
<1>3. MaxDevices \in Nat
  BY DeviceListAssumption
<1>4. 1 \in 1..(MaxDevices + 1) /\ 0 \in 0..MaxDevices
  BY <1>3
<1>5. /\ refresh.reply \in Seq(Sensor) /\ Len(refresh.reply) \in Nat
      /\ Len(refresh.reply) <= MaxDevices
  BY <1>2, DeviceListAssumption
<1>6. server_sem \in {"none", "main", "refresh"} /\ cov_sem \in {"none", "cov", "refresh"}
  BY DEF IInv, TypeOK
<1>7. QED BY <1>1, <1>3, <1>4, <1>5, <1>6

LEMMA NoDeviceType == NoDevice \in Device
BY DeviceListAssumption DEF NoDevice, Device

LEMMA FetchStep ==
  ASSUME IInv, NEW reply \in Replies, Fetch(reply)
  PROVE  IInv'
<1>1. /\ refresh.pc = "sleep"
      /\ refresh' = [refresh EXCEPT !.pc = "compare", !.n = 1, !.reply = reply,
                                    !.actual_count = 0, !.restart = FALSE]
      /\ UNCHANGED <<devices, keys, server_sem, cov_sem, reader, cov>>
  BY DEF Fetch
<1> DEFINE r1 == [refresh EXCEPT !.pc = "compare"]
           r2 == [r1 EXCEPT !.n = 1]
           r3 == [r2 EXCEPT !.reply = reply]
           r4 == [r3 EXCEPT !.actual_count = 0]
           r5 == [r4 EXCEPT !.restart = FALSE]
<1>2. refresh' = r5
  BY <1>1
<1>3. r1 \in Refresh
  BY RefreshFits DEF Refresh, RefreshStates
<1>4. r2 \in Refresh
  BY <1>3, RefreshFits DEF Refresh
<1>5. r3 \in Refresh
  BY <1>4 DEF Refresh
<1>6. r4 \in Refresh
  BY <1>5, RefreshFits DEF Refresh
<1>7. r5 \in Refresh
  BY <1>6 DEF Refresh
<1>8. r5.pc = "compare" /\ r5.n = 1 /\ r5.actual_count = 0 /\ r5.reply = reply
  BY <1>3, <1>4, <1>5, <1>6, <1>7 DEF Refresh
<1> HIDE DEF r1, r2, r3, r4, r5
<1>9. Len(reply) \in Nat
  BY DeviceListAssumption
<1>10. Exclusion'
  BY <1>1, <1>2, <1>8 DEF IInv, Exclusion
<1>11. ListIsFilled'
  BY <1>1, <1>2, <1>8 DEF IInv, ListIsFilled, devices
<1>12. ObjectsMatchDevices'
  BY <1>1, <1>2, <1>8 DEF IInv, ObjectsMatchDevices, devices, keys, Key
<1>13. Progress'
  BY <1>2, <1>8, <1>9 DEF Progress
<1>14. QED
  BY <1>1, <1>2, <1>7, <1>10, <1>11, <1>12, <1>13, RefreshFits, RefreshStep

(* Only the program counter moves.                                         *)
LEMMA CounterMoves ==
  ASSUME IInv, NEW pc \in RefreshStates, refresh' = [refresh EXCEPT !.pc = pc]
  PROVE  /\ refresh' \in Refresh /\ refresh'.pc = pc
         /\ refresh'.n = refresh.n /\ refresh'.actual_count = refresh.actual_count
         /\ refresh'.device = refresh.device /\ refresh'.reply = refresh.reply
BY RefreshFits DEF Refresh

LEMMA CompareStep ==
  ASSUME IInv, Compare
  PROVE  IInv'
<1> DEFINE sensor == refresh.reply[refresh.n]
           n == DeviceWithId(sensor.id)
           skipped == [refresh EXCEPT !.n = @ + 1]
           missing == [skipped EXCEPT !.restart = TRUE]
           new == [id |-> sensor.id, people |-> sensor.people,
                   flag |-> g_device_list[n].flag \/ g_device_list[n].people # sensor.people]
           found == [refresh EXCEPT !.pc = "assign", !.device = new]
<1>1. /\ refresh.pc = "compare" /\ refresh.n <= Len(refresh.reply)
      /\ \/ refresh' = skipped
         \/ refresh' = missing
         \/ n # NotFound /\ refresh' = found
      /\ UNCHANGED <<devices, keys, server_sem, cov_sem, reader, cov>>
  BY DEF Compare
<1>2. refresh.n \in 1..(MaxDevices + 1) /\ refresh.n \in 1..Len(refresh.reply)
  BY <1>1, RefreshFits DEF Refresh
<1>3. sensor \in Sensor
  BY <1>2, RefreshFits
<1>4. refresh.n + 1 \in 1..(MaxDevices + 1)
  BY <1>2, RefreshFits
<1>5. refresh.actual_count \in Nat /\ refresh.actual_count < refresh.n
  BY <1>1, RefreshFits DEF IInv, Progress, Refresh
<1>6. skipped \in Refresh
  BY <1>4, RefreshFits DEF Refresh
<1>7. /\ skipped.pc = "compare" /\ skipped.n = refresh.n + 1
      /\ skipped.actual_count = refresh.actual_count /\ skipped.reply = refresh.reply
  BY <1>1, RefreshFits DEF Refresh
<1>8. /\ missing \in Refresh
      /\ missing.pc = "compare" /\ missing.n = refresh.n + 1
      /\ missing.actual_count = refresh.actual_count /\ missing.reply = refresh.reply
  <2> HIDE DEF skipped
  <2> QED BY <1>6, <1>7 DEF Refresh
<1>9. ASSUME n # NotFound
      PROVE  /\ found \in Refresh /\ found.pc = "assign" /\ found.n = refresh.n
             /\ found.actual_count = refresh.actual_count /\ found.reply = refresh.reply
             /\ found.device.id = sensor.id
  <2>1. new \in Device
    <3>1. sensor.id \in Instances \cup {0} /\ sensor.people \in People
      BY <1>3 DEF Sensor
    <3>2. (g_device_list[n].flag \/ g_device_list[n].people # sensor.people) \in BOOLEAN
      OBVIOUS
    <3> HIDE DEF sensor, n
    <3>3. QED BY <3>1, <3>2 DEF Device
  <2>2. new.id = sensor.id
    OBVIOUS
  <2> HIDE DEF new, sensor, n
  <2>3. [refresh EXCEPT !.pc = "assign"] \in Refresh
    BY RefreshFits DEF Refresh, RefreshStates
  <2>4. found \in Refresh
    BY <2>1, <2>3 DEF Refresh
  <2>5. QED BY <2>2, <2>4, RefreshFits DEF Refresh
<1> HIDE DEF skipped, missing, found
<1>10. /\ refresh' \in Refresh
       /\ refresh'.pc \in {"compare", "assign"} /\ refresh'.reply = refresh.reply
       /\ refresh'.actual_count = refresh.actual_count
       /\ refresh'.n \in {refresh.n, refresh.n + 1}
       /\ refresh'.pc = "assign" => /\ refresh'.n = refresh.n
                                   /\ refresh'.device.id = sensor.id /\ n # NotFound
  BY <1>1, <1>6, <1>7, <1>8, <1>9
<1>11. Exclusion'
  BY <1>1, <1>10 DEF IInv, Exclusion
<1>12. ListIsFilled'
  BY <1>1, <1>10 DEF IInv, ListIsFilled, devices
<1>13. ObjectsMatchDevices'
  BY <1>1, <1>10 DEF IInv, ObjectsMatchDevices, devices, keys, Key
<1>14. Progress'
  <2>1. \A id : DeviceWithId(id)' = DeviceWithId(id)
    BY <1>1, SameIds DEF IInv, devices
  <2>2. refresh'.pc = "assign" =>
          DeviceWithId(refresh.device.id)' # NotFound
    BY <1>10, <2>1
  <2> HIDE DEF sensor, n
  <2>3. refresh'.n <= Len(refresh'.reply) + 1 /\ refresh'.actual_count < refresh'.n
    BY <1>1, <1>2, <1>5, <1>10, RefreshFits
  <2>4. refresh'.pc = "assign" => refresh'.n <= Len(refresh'.reply)
    BY <1>1, <1>10
  <2>5. QED BY <1>10, <2>2, <2>3, <2>4 DEF Progress
<1>15. QED
  BY <1>1, <1>10, <1>11, <1>12, <1>13, <1>14, RefreshFits, RefreshStep

(* An entry is replaced by one with the same ID.                           *)
LEMMA AssignStep ==
  ASSUME IInv, Assign
  PROVE  IInv'
<1> DEFINE m == DeviceWithId(refresh.device.id)
           r1 == [refresh EXCEPT !.pc = "compare"]
           r2 == [r1 EXCEPT !.n = refresh.n + 1]
           r3 == [r2 EXCEPT !.actual_count = refresh.actual_count + 1]
           r4 == [r3 EXCEPT !.device = NoDevice]
<1>1. /\ refresh.pc = "assign"
      /\ g_device_list' = [g_device_list EXCEPT ![m] = refresh.device]
      /\ UNCHANGED <<g_device_count, keys, server_sem, cov_sem, reader, cov>>
  BY DEF Assign
<1>2. /\ refresh.n \in 1..(MaxDevices + 1) /\ refresh.n <= Len(refresh.reply)
      /\ refresh.actual_count \in Nat /\ refresh.actual_count < refresh.n
      /\ m # NotFound
  BY <1>1, RefreshFits DEF IInv, Progress, Refresh
<1>3. refresh.n + 1 \in 1..(MaxDevices + 1) /\ refresh.actual_count + 1 \in 0..MaxDevices
  BY <1>2, RefreshFits
<1>4. refresh' = r4
  <2>1. refresh' = [refresh EXCEPT !.pc = "compare", !.n = refresh.n + 1,
                      !.actual_count = refresh.actual_count + 1, !.device = NoDevice]
    BY DEF Assign
  <2>2. QED BY <2>1
<1>5. r1 \in Refresh
  BY RefreshFits DEF Refresh, RefreshStates
<1>6. r2 \in Refresh
  BY <1>3, <1>5 DEF Refresh
<1>7. r3 \in Refresh
  BY <1>3, <1>6 DEF Refresh
<1>8. r4 \in Refresh
  BY <1>7, NoDeviceType DEF Refresh
<1>9. /\ r4.pc = "compare" /\ r4.n = refresh.n + 1 /\ r4.reply = refresh.reply
      /\ r4.actual_count = refresh.actual_count + 1
  BY <1>5, <1>6, <1>7, <1>8, RefreshFits DEF Refresh
<1> HIDE DEF r1, r2, r3, r4
<1>10. m \in Index /\ g_device_list[m].id = refresh.device.id
  BY <1>2, DeviceWithIdFits DEF IInv
<1>11. /\ g_device_list' \in [Index -> Device]
       /\ \A n \in Index : g_device_list'[n].id = g_device_list[n].id
  <2>1. refresh.device \in Device /\ g_device_list \in [Index -> Device]
    BY RefreshFits DEF Refresh, IInv, TypeOK
  <2> HIDE DEF m
  <2>2. QED BY <1>1, <1>10, <2>1
<1>12. TypeOK'
  BY <1>1, <1>4, <1>8, <1>11 DEF IInv, TypeOK, Refresh, keys, cov
<1>13. \A n \in Index : Key(n)' = Key(n)
  BY <1>1, <1>11, SameIds DEF IInv
<1>14. 1..g_device_count \subseteq Index /\ 1..g_local_count \subseteq Index
  BY CountsFit DEF IInv
<1>15. Exclusion'
  BY <1>1, <1>4, <1>9 DEF IInv, Exclusion
<1>16. ListIsFilled'
  BY <1>1, <1>11, <1>14 DEF IInv, ListIsFilled
<1>17. ObjectsMatchDevices'
  BY <1>1, <1>13, <1>14 DEF IInv, ObjectsMatchDevices, keys
<1>18. Progress'
  BY <1>2, <1>4, <1>9, RefreshFits DEF Progress
<1>19. KeysAreWritten'
  BY <1>1 DEF IInv, KeysAreWritten, Accessed, InTable, keys
<1>20. QED BY <1>12, <1>15, <1>16, <1>17, <1>18, <1>19 DEF IInv

LEMMA DecideStep ==
  ASSUME IInv, Decide
  PROVE  IInv'
<1> DEFINE next == IF Changed THEN "lock server" ELSE "sleep"
           r1 == [refresh EXCEPT !.pc = next]
           r2 == [r1 EXCEPT !.n = 1]
<1>1. /\ refresh.pc = "compare" /\ refresh' = r2
      /\ UNCHANGED <<devices, keys, server_sem, cov_sem, reader, cov>>
  BY DEF Decide
<1>2. next \in {"lock server", "sleep"}
  OBVIOUS
<1> HIDE DEF next
<1>3. r1 \in Refresh /\ r1.pc = next
  BY <1>2, RefreshFits DEF Refresh, RefreshStates
<1>4. r2 \in Refresh /\ r2.pc = next
  <2> HIDE DEF r1
  <2> QED BY <1>3, RefreshFits DEF Refresh
<1> HIDE DEF r2
<1>5. Exclusion'
  BY <1>1, <1>2, <1>4 DEF IInv, Exclusion
<1>6. ListIsFilled'
  BY <1>1, <1>2, <1>4 DEF IInv, ListIsFilled, devices
<1>7. ObjectsMatchDevices'
  BY <1>1, <1>2, <1>4 DEF IInv, ObjectsMatchDevices, devices, keys, Key
<1>8. Progress'
  BY <1>1, <1>2, <1>4 DEF Progress
<1>9. QED
  BY <1>1, <1>4, <1>5, <1>6, <1>7, <1>8, RefreshFits, RefreshStep

LEMMA LockSteps ==
  ASSUME IInv, LockServer \/ LockCov \/ UnlockCov \/ UnlockServer
  PROVE  IInv'
<1>1. UNCHANGED <<devices, keys, reader, cov>>
  BY DEF LockServer, LockCov, UnlockCov, UnlockServer
<1>2. /\ refresh' \in Refresh
      /\ \/ LockServer /\ refresh'.pc = "lock cov"
         \/ LockCov /\ refresh'.pc = "rebuild"
         \/ UnlockCov /\ refresh'.pc = "unlock server"
         \/ UnlockServer /\ refresh'.pc = "init"
  BY CounterMoves DEF LockServer, LockCov, UnlockCov, UnlockServer, RefreshStates
<1>3. /\ server_sem' \in {"none", "main", "refresh"}
      /\ cov_sem' \in {"none", "cov", "refresh"}
  BY RefreshFits DEF LockServer, LockCov, UnlockCov, UnlockServer
<1>4. Exclusion'
  BY <1>1, <1>2 DEF IInv, Exclusion, LockServer, LockCov, UnlockCov, UnlockServer
<1>5. ListIsFilled'
  BY <1>1, <1>2
     DEF IInv, ListIsFilled, devices, LockServer, LockCov, UnlockCov, UnlockServer
<1>6. ObjectsMatchDevices'
  BY <1>1, <1>2
     DEF IInv, ObjectsMatchDevices, devices, keys, Key, LockServer, LockCov, UnlockCov, UnlockServer
<1>7. Progress'
  BY <1>2 DEF Progress
<1>8. QED
  BY <1>1, <1>2, <1>3, <1>4, <1>5, <1>6, <1>7, RefreshStep

(* The list is emptied and filled while both semaphores are held.          *)
LEMMA RebuildSteps ==
  ASSUME IInv, RebuildFails \/ \E reply \in Replies : Rebuild(reply)
  PROVE  IInv'
<1>1. /\ refresh.pc = "rebuild"
      /\ UNCHANGED <<keys, server_sem, cov_sem, reader, cov>>
  BY DEF RebuildFails, Rebuild
<1>2. CASE RebuildFails
  <2>1. refresh' = refresh /\ g_device_count' = g_device_count /\ g_device_list' = Emptied
    BY <1>2 DEF RebuildFails
  <2>2. TypeOK'
    BY <1>1, <2>1, NoDeviceType DEF IInv, TypeOK, Emptied, keys, cov
  <2>3. Exclusion' /\ ListIsFilled' /\ ObjectsMatchDevices' /\ Progress'
    BY <1>1, <2>1 DEF IInv, Exclusion, ListIsFilled, ObjectsMatchDevices, Progress
  <2>4. KeysAreWritten'
    BY <1>1 DEF IInv, KeysAreWritten, Accessed, InTable, keys
  <2>5. QED BY <2>2, <2>3, <2>4 DEF IInv
<1>3. ASSUME NEW reply \in Replies, Rebuild(reply) PROVE IInv'
  <2>1. /\ g_device_list' = Rebuilt(reply) /\ g_device_count' = Count(reply)
        /\ refresh' = [refresh EXCEPT !.pc = "unlock cov"]
    BY <1>3 DEF Rebuild
  <2>2. refresh' \in Refresh /\ refresh'.pc = "unlock cov"
    BY <2>1, CounterMoves DEF RefreshStates
  <2>3. /\ g_device_count' \in 0..MaxDevices
        /\ g_device_list' \in [Index -> Device]
        /\ \A n \in 1..g_device_count' : g_device_list'[n].id # 0
    BY <2>1, RebuiltIsFilled
  <2>4. TypeOK'
    BY <1>1, <2>2, <2>3 DEF IInv, TypeOK, Refresh, keys, cov
  <2>5. Exclusion'
    BY <1>1, <2>2 DEF IInv, Exclusion
  <2>6. ListIsFilled' /\ ObjectsMatchDevices' /\ Progress'
    BY <2>2, <2>3 DEF ListIsFilled, ObjectsMatchDevices, Progress
  <2>7. KeysAreWritten'
    BY <1>1 DEF IInv, KeysAreWritten, Accessed, InTable, keys
  <2>8. QED BY <2>4, <2>5, <2>6, <2>7 DEF IInv
<1>4. QED BY <1>2, <1>3

(* The ranges of the counters, for arithmetic.                             *)
LEMMA CounterRanges ==
  ASSUME IInv
  PROVE  /\ MaxDevices \in Nat \ {0} /\ g_device_count \in Nat /\ g_device_count <= MaxDevices
         /\ g_local_count \in Nat /\ g_local_count <= MaxDevices
         /\ refresh.n \in Nat /\ 1 <= refresh.n /\ refresh.n <= MaxDevices + 1
<1>1. MaxDevices \in Nat \ {0}
  BY DeviceListAssumption
<1>2. g_device_count \in 0..MaxDevices /\ g_local_count \in 0..MaxDevices
  BY DEF IInv, TypeOK
<1>3. refresh.n \in 1..(MaxDevices + 1)
  BY DEF IInv, TypeOK
<1>4. QED BY <1>1, <1>2, <1>3

(* object_init writes the keys one after the other.                        *)
LEMMA InitSteps ==
  ASSUME IInv, InitTable \/ InitKey \/ InitDone
  PROVE  IInv'
<1>1. UNCHANGED <<devices, server_sem, cov_sem, reader, cov>>
  BY DEF InitTable, InitKey, InitDone
<1>2. CASE InitTable
  <2> DEFINE r1 == [refresh EXCEPT !.pc = "init key"]
             r2 == [r1 EXCEPT !.n = 1]
  <2>1. /\ refresh.pc = "init" /\ refresh' = r2
        /\ g_local_count' = 0 /\ g_local_list' = g_local_list
    BY <1>2 DEF InitTable
  <2>2. r1 \in Refresh /\ r1.pc = "init key"
    BY RefreshFits DEF Refresh, RefreshStates
  <2>3. r2 \in Refresh /\ r2.pc = "init key" /\ r2.n = 1
    <3> HIDE DEF r1
    <3> QED BY <2>2, RefreshFits DEF Refresh
  <2> HIDE DEF r2
  <2>4. TypeOK'
    BY <1>1, <2>1, <2>3, RefreshFits DEF IInv, TypeOK, Refresh, devices, cov
  <2>5. Exclusion'
    BY <1>1, <2>1, <2>3 DEF IInv, Exclusion
  <2>6. ListIsFilled' /\ ObjectsMatchDevices'
    BY <1>1, <2>1, <2>3 DEF IInv, ListIsFilled, ObjectsMatchDevices, devices
  <2>7. Progress'
    <3>1. g_device_count' = g_device_count /\ 0 <= g_device_count
      BY <1>1, CounterRanges DEF devices
    <3>2. refresh'.n - 1 = 0 /\ 1..g_local_count' = {}
      <4>1. refresh'.n = 1 /\ g_local_count' = 0
        BY <2>1, <2>3
      <4>2. QED BY <4>1
    <3>3. QED BY <2>1, <2>3, <3>1, <3>2 DEF Progress
  <2>8. KeysAreWritten'
    BY <1>1, <2>1 DEF IInv, KeysAreWritten, Accessed, InTable
  <2>9. QED BY <2>4, <2>5, <2>6, <2>7, <2>8 DEF IInv
<1>3. CASE InitKey
  <2> DEFINE r == [refresh EXCEPT !.n = refresh.n + 1]
             n == refresh.n
  <2>1. /\ refresh.pc = "init key" /\ n <= g_device_count /\ refresh' = r
        /\ g_local_list' = [g_local_list EXCEPT ![n] = Key(n)]
        /\ g_local_count' = g_local_count + 1
    BY <1>3 DEF InitKey
  <2>2. /\ g_local_count = n - 1
        /\ \A m \in 1..g_local_count : g_local_list[m] = Key(m)
    BY <2>1 DEF IInv, Progress
  <2>3. n \in Nat /\ n >= 1 /\ MaxDevices \in Nat
    BY CounterRanges
  <2>4. n \in Index /\ n + 1 \in 1..(MaxDevices + 1) /\ g_local_count + 1 \in 0..MaxDevices
    <3>1. n \in Nat /\ 1 <= n /\ n <= MaxDevices /\ MaxDevices \in Nat
      <4>1. n \in Nat /\ 1 <= n /\ MaxDevices \in Nat /\ g_device_count \in Nat
        BY CounterRanges
      <4>2. n <= g_device_count
        BY <2>1
      <4>3. g_device_count <= MaxDevices
        BY CounterRanges
      <4> HIDE DEF n
      <4>4. QED BY <4>1, <4>2, <4>3
    <3> HIDE DEF n
    <3>2. g_local_count + 1 = n
      BY <2>2, <3>1
    <3>3. QED BY <3>1, <3>2 DEF Index
  <2>5. r \in Refresh /\ r.pc = "init key" /\ r.n = n + 1
    BY <2>1, <2>4, RefreshFits DEF Refresh
  <2> HIDE DEF r, n
  <2>6. g_local_list \in [Index -> [instance : Instances \cup {0}, device : 0..MaxDevices]]
    BY DEF IInv, TypeOK
  <2>7. \A m \in Index : g_local_list'[m] = IF m = n THEN Key(n) ELSE g_local_list[m]
    BY <2>1, <2>4, <2>6
  <2>8. /\ Key(n) \in [instance : Instances \cup {0}, device : 0..MaxDevices]
        /\ Key(n).device = n
    <3>1. g_device_list[n] \in Device
      BY <2>4 DEF IInv, TypeOK
    <3>2. n \in 0..MaxDevices
      BY <2>4 DEF Index
    <3>3. QED BY <3>1, <3>2 DEF Key, Device
  <2>9. TypeOK'
    <3>1. g_local_list' \in [Index -> [instance : Instances \cup {0}, device : 0..MaxDevices]]
      BY <2>1, <2>6, <2>8
    <3>2. QED
      BY <1>1, <2>1, <2>4, <2>5, <3>1 DEF IInv, TypeOK, Refresh, devices, cov
  <2>10. Exclusion'
    BY <1>1, <2>1, <2>5 DEF IInv, Exclusion
  <2>11. ListIsFilled' /\ ObjectsMatchDevices'
    BY <1>1, <2>1, <2>5 DEF IInv, ListIsFilled, ObjectsMatchDevices, devices
  <2>12. g_local_count' = n /\ 1..n \subseteq Index /\ \A m \in 1..n : m # n => m \in 1..g_local_count
    <3>1. g_local_count' = g_local_count + 1 /\ g_local_count = n - 1 /\ n <= MaxDevices
      <4>1. g_local_count' = g_local_count + 1
        BY <2>1
      <4>2. g_local_count = n - 1
        BY <2>2
      <4>3. n <= MaxDevices
        BY <2>3, <2>4 DEF Index
      <4>4. QED BY <4>1, <4>2, <4>3
    <3>2. QED BY <2>3, <3>1 DEF Index
  <2>13. \A m \in 1..n : g_local_list'[m] = Key(m)
    BY <2>2, <2>7, <2>12
  <2>14. \A m \in Index : Key(m)' = Key(m)
    BY <1>1, SameIds DEF devices, IInv
  <2>15. Progress'
    <3>1. n + 1 - 1 = n
      BY <2>3
    <3>2. \A m \in 1..g_local_count' : g_local_list'[m] = Key(m)'
      BY <2>12, <2>13, <2>14
    <3>3. n <= g_device_count' /\ refresh'.n - 1 = n /\ refresh'.pc = "init key"
      <4>1. refresh'.n = n + 1 /\ refresh'.pc = "init key"
        BY <2>1, <2>5
      <4>2. n <= g_device_count'
        BY <1>1, <2>1 DEF devices
      <4>3. refresh'.n - 1 = n
        <5> DEFINE next == refresh'.n
        <5>1. next = n + 1
          BY <4>1
        <5> HIDE DEF next
        <5>2. next - 1 = n
          BY <2>3, <5>1
        <5>3. QED BY <5>2 DEF next
      <4>4. QED BY <4>1, <4>2, <4>3
    <3>4. QED BY <2>12, <3>2, <3>3 DEF Progress
  <2>16. KeysAreWritten'
    <3>1. \A m \in 1..g_local_count' : g_local_list'[m].device \in Index
      BY <2>7, <2>8, <2>12, <2>4 DEF IInv, KeysAreWritten
    <3>2. ASSUME NEW t \in Threads, reader'[t].pc = "access", InTable(t)'
          PROVE  Accessed(t)' \in Index
      <4>1. InTable(t) /\ reader[t].pc = "access" /\ reader[t].index \in Index
        <5>1. reader[t].index \in 0..MaxDevices
          BY DEF IInv, TypeOK
        <5>2. QED BY <1>1, <3>2, <5>1, RefreshFits DEF InTable, NotFound, Index
      <4>2. Accessed(t) \in Index
        BY <4>1 DEF IInv, KeysAreWritten
      <4>3. QED BY <1>1, <2>4, <2>7, <2>8, <4>1, <4>2 DEF Accessed
    <3>3. QED BY <3>1, <3>2 DEF KeysAreWritten
  <2>17. QED BY <2>9, <2>10, <2>11, <2>15, <2>16 DEF IInv
<1>4. CASE InitDone
  <2> DEFINE r1 == [refresh EXCEPT !.pc = "sleep"]
             r2 == [r1 EXCEPT !.n = 1]
  <2>1. /\ refresh.pc = "init key" /\ refresh.n > g_device_count
        /\ refresh' = r2 /\ UNCHANGED keys
    BY <1>4 DEF InitDone
  <2>2. r1 \in Refresh /\ r1.pc = "sleep"
    BY RefreshFits DEF Refresh, RefreshStates
  <2>3. r2 \in Refresh /\ r2.pc = "sleep"
    <3> HIDE DEF r1
    <3> QED BY <2>2, RefreshFits DEF Refresh
  <2> HIDE DEF r2
  <2>4. Exclusion'
    BY <1>1, <2>1, <2>3 DEF IInv, Exclusion
  <2>5. ListIsFilled'
    BY <1>1, <2>1, <2>3 DEF IInv, ListIsFilled, devices
  <2>6. g_local_count = g_device_count
    <3>1. g_local_count = refresh.n - 1 /\ g_local_count <= g_device_count
      BY <2>1 DEF IInv, Progress
    <3>2. refresh.n \in Nat /\ g_device_count \in Nat /\ g_local_count \in Nat
      BY CounterRanges
    <3>3. refresh.n > g_device_count
      BY <2>1
    <3> DEFINE m == refresh.n
    <3> HIDE DEF m
    <3>4. /\ m \in Nat /\ g_device_count \in Nat /\ g_local_count \in Nat
          /\ m > g_device_count /\ g_local_count = m - 1 /\ g_local_count <= g_device_count
      BY <3>1, <3>2, <3>3 DEF m
    <3>5. QED BY <3>4
  <2>7. ObjectsMatchDevices'
    BY <1>1, <2>1, <2>6 DEF IInv, Progress, ObjectsMatchDevices, devices, keys, Key
  <2>8. Progress'
    BY <2>1, <2>3 DEF Progress
  <2>9. QED
    BY <1>1, <2>1, <2>3, <2>4, <2>5, <2>7, <2>8, RefreshFits, RefreshStep
<1>5. QED BY <1>2, <1>3, <1>4

LEMMA RefreshThreadStep ==
  ASSUME IInv, RefreshThread
  PROVE  IInv'
<1>1. CASE \E reply \in Replies : Fetch(reply)
  BY <1>1, FetchStep
<1>2. CASE RebuildFails \/ \E reply \in Replies : Rebuild(reply)
  BY <1>2, RebuildSteps
<1>3. CASE Compare
  BY <1>3, CompareStep
<1>4. CASE Assign
  BY <1>4, AssignStep
<1>5. CASE Decide
  BY <1>5, DecideStep
<1>6. CASE LockServer \/ LockCov \/ UnlockCov \/ UnlockServer
  BY <1>6, LockSteps
<1>7. CASE InitTable \/ InitKey \/ InitDone
  BY <1>7, InitSteps
<1>8. QED BY <1>1, <1>2, <1>3, <1>4, <1>5, <1>6, <1>7 DEF RefreshThread

-----------------------------------------------------------------------------
(* The invariant.                                                          *)

LEMMA InitIInv == Init => IInv
<1> SUFFICES ASSUME Init PROVE IInv
  OBVIOUS
<1>1. PICK reply \in Replies :
        /\ g_device_list = Rebuilt(reply)
        /\ g_device_count = Count(reply)
        /\ g_local_list =
             [n \in Index |-> IF n <= g_device_count THEN Key(n)
                              ELSE [instance |-> 0, device |-> 0]]
        /\ g_local_count = g_device_count
        /\ refresh = [pc |-> "sleep", n |-> 1, actual_count |-> 0, restart |-> FALSE,
                      device |-> NoDevice, reply |-> reply]
  BY DEF Init
<1>2. /\ server_sem = "none" /\ cov_sem = "none"
      /\ reader = [t \in Threads |-> [pc |-> "idle", instance |-> 0, index |-> 0]]
      /\ sweep = [phase |-> "MARK", todo |-> Subscribed]
      /\ marked = {} /\ told = [i \in Subscribed |-> -1]
  BY DEF Init
<1>3. MaxDevices \in Nat \ {0}
  BY DeviceListAssumption
<1>4. /\ g_device_count \in 0..MaxDevices
      /\ g_device_list \in [Index -> Device]
      /\ \A n \in 1..g_device_count : g_device_list[n].id # 0
  BY <1>1, RebuiltIsFilled
<1>5. ASSUME NEW n \in Index
      PROVE  Key(n) \in [instance : Instances \cup {0}, device : 0..MaxDevices] /\ Key(n).device = n
  <2>1. g_device_list[n] \in Device
    BY <1>4
  <2>2. n \in 0..MaxDevices
    BY <1>3 DEF Index
  <2>3. QED BY <2>1, <2>2 DEF Key, Device
<1>6. /\ 0 \in 0..MaxDevices /\ 1 \in 1..(MaxDevices + 1)
      /\ \A n \in 1..g_device_count : n \in Index /\ n <= g_device_count
  BY <1>3, <1>4 DEF Index
<1>7. g_local_list \in [Index -> [instance : Instances \cup {0}, device : 0..MaxDevices]]
  BY <1>1, <1>5, <1>6
<1>8. \A n \in 1..g_local_count : g_local_list[n] = Key(n) /\ g_local_list[n].device \in Index
  BY <1>1, <1>5, <1>6
<1>9. TypeOK
  <2>1. refresh \in [pc : RefreshStates, n : 1..(MaxDevices + 1), actual_count : 0..MaxDevices,
                     restart : BOOLEAN, device : Device, reply : Replies]
    BY <1>1, <1>6, NoDeviceType DEF RefreshStates
  <2>2. reader \in [Threads -> [pc : {"idle", "ready", "validate", "look up", "access"},
                                instance : Instances \cup {0}, index : 0..MaxDevices]]
    BY <1>2, <1>6
  <2>3. sweep \in [phase : Phases, todo : SUBSET Subscribed]
    BY <1>2 DEF Phases
  <2>4. marked \in SUBSET Subscribed /\ told \in [Subscribed -> People \cup {-1}]
    BY <1>2
  <2>5. g_local_count \in 0..MaxDevices /\ server_sem \in {"none", "main", "refresh"}
        /\ cov_sem \in {"none", "cov", "refresh"}
    BY <1>1, <1>2, <1>4
  <2>6. QED BY <1>4, <1>7, <2>1, <2>2, <2>3, <2>4, <2>5 DEF TypeOK
<1>10. Exclusion
  <2>1. reader["main"].pc = "idle" /\ reader["cov"].pc = "idle" /\ refresh.pc = "sleep"
    BY <1>1, <1>2 DEF Threads
  <2>2. QED BY <1>2, <2>1 DEF Exclusion
<1>11. ListIsFilled /\ ObjectsMatchDevices
  BY <1>1, <1>4, <1>8 DEF ListIsFilled, ObjectsMatchDevices
<1>12. Progress
  <2>1. refresh.pc = "sleep"
    BY <1>1
  <2>2. QED BY <2>1 DEF Progress
<1>13. KeysAreWritten
  <2>1. \A t \in Threads : reader[t].pc = "idle"
    BY <1>2
  <2>2. QED BY <1>8, <2>1 DEF KeysAreWritten
<1>14. QED BY <1>9, <1>10, <1>11, <1>12, <1>13 DEF IInv

LEMMA StutterIInv ==
  ASSUME IInv, UNCHANGED vars
  PROVE  IInv'
BY DEF IInv, TypeOK, Exclusion, ListIsFilled, ObjectsMatchDevices, Progress, KeysAreWritten,
       vars, devices, keys, cov, Accessed, InTable, DeviceWithId, Key

LEMMA NextIInv ==
  ASSUME IInv, [Next]_vars
  PROVE  IInv'
BY RefreshThreadStep, MainStep, CovStep, StutterIInv DEF Next

LEMMA Invariance == Spec => []IInv
<1>1. Init => IInv
  BY InitIInv
<1>2. IInv /\ [Next]_vars => IInv'
  BY NextIInv
<1>3. QED BY <1>1, <1>2, PTL DEF Spec

-----------------------------------------------------------------------------
(* The theorems.                                                           *)

(* Every variable keeps its range: no list outgrows DEVICE_MAX_COUNT, and  *)
(* no index leaves its table.                                              *)
THEOREM Typing == Spec => []TypeOK
<1>1. IInv => TypeOK
  BY DEF IInv
<1>2. QED BY <1>1, Invariance, PTL

(* No request or notification ever gets at a list that the rebuild has     *)
(* emptied, however often the backend refuses (rebuild_device_list under   *)
(* both semaphores).                                                       *)
THEOREM RequestsSeeAFilledList == Spec => []NeverEmptied
<1>1. IInv => NeverEmptied
  BY DEF IInv, Exclusion, ListIsFilled, NeverEmptied, Threads
<1>2. QED BY <1>1, Invariance, PTL

(* Between two changes of the sensors, object_init has left every object   *)
(* with the entry of its own sensor.                                       *)
THEOREM ObjectsAreTheSensors == Spec => []ObjectsMatchDevices
<1>1. IInv => ObjectsMatchDevices
  BY DEF IInv
<1>2. QED BY <1>1, Invariance, PTL

(* What is at an index of the list changes only while the main and the COV *)
(* thread are stopped: get_data_refresh may update a sensor in place but   *)
(* never put another there.                                                *)
THEOREM SensorsAreDeletedWhenStopped == Spec => DeletesOnlyWhenStopped
<1>1. ASSUME IInv, RebuildFails \/ \E reply \in Replies : Rebuild(reply)
      PROVE  \A t \in Threads : reader[t].pc = "idle" /\ reader'[t].pc = "idle"
  <2>1. refresh.pc = "rebuild" /\ reader' = reader
    BY <1>1 DEF RebuildFails, Rebuild
  <2>2. server_sem = "refresh" /\ cov_sem = "refresh"
    BY <1>1, <2>1 DEF IInv, Exclusion
  <2>3. reader["main"].pc = "idle" /\ reader["cov"].pc = "idle"
    BY <1>1, <2>2 DEF IInv, Exclusion
  <2>4. QED BY <2>1, <2>3 DEF Threads
<1>2. ASSUME IInv, Assign
      PROVE  \A n \in Index : g_device_list'[n].id = g_device_list[n].id
  <2> DEFINE m == DeviceWithId(refresh.device.id)
  <2>1. /\ refresh.pc = "assign"
        /\ g_device_list' = [g_device_list EXCEPT ![m] = refresh.device]
    BY <1>2 DEF Assign
  <2>2. m \in Index /\ g_device_list[m].id = refresh.device.id
    BY <1>2, <2>1, DeviceWithIdFits DEF IInv, Progress
  <2>3. g_device_list \in [Index -> Device]
    BY <1>2 DEF IInv, TypeOK
  <2> HIDE DEF m
  <2>4. QED BY <2>1, <2>2, <2>3
<1>3. ASSUME IInv, CovThread
      PROVE  \A n \in Index : g_device_list'[n].id = g_device_list[n].id
  <2>1. CASE Clear
    <3>1. g_device_list \in [Index -> Device]
      BY <1>3 DEF IInv, TypeOK
    <3>2. QED BY <2>1, <3>1 DEF Clear, Device
  <2>2. CASE ~Clear
    BY <1>3, <2>2
       DEF CovThread, CovAcquire, NextPhase, CovRelease, WildAccess, CovBegin, CovSkip,
           Begin, Mark, Send, Validate, LookUp, devices
  <2>3. QED BY <2>1, <2>2
<1>4. ASSUME IInv, MainThread
      PROVE  g_device_list' = g_device_list
  BY <1>4 DEF MainThread, MainAcquire, MainRelease, MainAccess, MainBegin, Begin,
              Validate, LookUp, devices
<1>5. ASSUME IInv, RefreshThread, ~Assign,
             ~(RebuildFails \/ \E reply \in Replies : Rebuild(reply))
      PROVE  g_device_list' = g_device_list
  BY <1>5 DEF RefreshThread, Fetch, Compare, Decide, LockServer, LockCov, UnlockCov,
              UnlockServer, InitTable, InitKey, InitDone, devices
<1>6. IInv /\ [Next]_vars => [StoppedWhenDeleted]_vars
  BY <1>1, <1>2, <1>3, <1>4, <1>5 DEF Next, StoppedWhenDeleted
<1>7. QED
  BY <1>6, Invariance, PTL DEF Spec, DeletesOnlyWhenStopped

-----------------------------------------------------------------------------
(* No change is missed.                                                    *)

(* The IDs are a key of the backend's sensors. A list that named one twice *)
(* would have an entry that is never compared again.                       *)
SensorsAreDistinct ==
  \A reply \in Replies : \A p, q \in Known(reply) : reply[p].id = reply[q].id => p = q

(* No two entries are one sensor's.                                        *)
IdsAreDistinct ==
  refresh.pc # "rebuild" =>
    \A m, n \in Index :
      g_device_list[m].id = g_device_list[n].id /\ g_device_list[m].id # 0 => m = n

(* An entry that is about to be written back without a flag is the one in  *)
(* the list: the COV thread can only have cleared the flag of another.     *)
FlagsAreKept ==
  refresh.pc = "assign" /\ ~refresh.device.flag =>
    g_device_list[DeviceWithId(refresh.device.id)] = refresh.device

(* The COV thread clears and sends what it has marked.                     *)
Looking == {"validate", "look up", "access"}
MarkedBeforeCleared ==
  reader["cov"].pc \in Looking /\ sweep.phase # "MARK" => reader["cov"].instance \in marked

(* The inductive invariant.                                                *)
FlagInv == IInv /\ IdsAreDistinct /\ FlagsAreKept /\ MarkedBeforeCleared

(* Different sensors of a reply go to different entries.                   *)
LEMMA RebuiltIsDistinct ==
  ASSUME SensorsAreDistinct, NEW reply \in Replies, NEW m \in Index, NEW n \in Index,
         Rebuilt(reply)[m].id = Rebuilt(reply)[n].id, Rebuilt(reply)[m].id # 0
  PROVE  m = n
<1>1. MaxDevices \in Nat /\ Count(reply) \in 0..MaxDevices
  BY RebuiltIsFilled, DeviceListAssumption
<1>2. m <= Count(reply) /\ n <= Count(reply)
  BY DEF Rebuilt, NoDevice
<1>3. m \in 1..Count(reply) /\ n \in 1..Count(reply)
  BY <1>1, <1>2 DEF Index
<1>4. reply[Nth(reply, m)].id = reply[Nth(reply, n)].id
  BY <1>2 DEF Rebuilt
<1>5. Nth(reply, m) = Nth(reply, n)
  BY <1>3, <1>4, NthIsKnown DEF SensorsAreDistinct
<1>6. QED BY <1>3, <1>5, NthIsKnown

(* What a list has just been built from is flagged.                        *)
LEMMA RebuiltIsFlagged ==
  ASSUME NEW reply \in Replies, NEW n \in 1..Count(reply)
  PROVE  Rebuilt(reply)[n].flag = TRUE
<1>1. MaxDevices \in Nat /\ Count(reply) \in 0..MaxDevices
  BY RebuiltIsFilled, DeviceListAssumption
<1>2. n \in Index /\ n <= Count(reply)
  BY <1>1 DEF Index
<1>3. QED BY <1>2 DEF Rebuilt

(* A step that leaves the IDs alone.                                       *)
LEMMA SameIdsDistinct ==
  ASSUME FlagInv, refresh.pc # "rebuild",
         \A n \in Index : g_device_list'[n].id = g_device_list[n].id
  PROVE  IdsAreDistinct'
BY DEF FlagInv, IdsAreDistinct

(* What the refresh thread has compared is written back: flagged, or as it *)
(* is.                                                                     *)
LEMMA AssignKeeps ==
  ASSUME FlagInv, Assign
  PROVE  /\ DeviceWithId(refresh.device.id) \in Index
         /\ \A n \in Index : /\ g_device_list'[n].id = g_device_list[n].id
                             /\ g_device_list'[n] = g_device_list[n] \/ g_device_list'[n].flag
<1> DEFINE m == DeviceWithId(refresh.device.id)
<1>1. refresh.pc = "assign" /\ g_device_list' = [g_device_list EXCEPT ![m] = refresh.device]
  BY DEF Assign
<1>2. m \in Index /\ g_device_list[m].id = refresh.device.id
  BY <1>1, DeviceWithIdFits DEF FlagInv, IInv, Progress
<1>3. g_device_list \in [Index -> Device] /\ refresh.device \in Device
  BY RefreshFits DEF FlagInv, IInv, TypeOK, Refresh
<1>4. ~refresh.device.flag => g_device_list[m] = refresh.device
  BY <1>1 DEF FlagInv, FlagsAreKept
<1> HIDE DEF m
<1>5. \A n \in Index : IF n = m THEN g_device_list'[n] = refresh.device
                       ELSE g_device_list'[n] = g_device_list[n]
  BY <1>1, <1>2, <1>3
<1>6. \A n \in Index : /\ g_device_list'[n].id = g_device_list[n].id
                       /\ g_device_list'[n] = g_device_list[n] \/ g_device_list'[n].flag
  BY <1>2, <1>4, <1>5
<1>7. QED BY <1>2, <1>6 DEF m

(* The flag is read together with the number it belongs to.                *)
LEMMA CompareKeeps ==
  ASSUME FlagInv, Compare
  PROVE  FlagsAreKept'
<1> DEFINE sensor == refresh.reply[refresh.n]
           n == DeviceWithId(sensor.id)
           skipped == [refresh EXCEPT !.n = @ + 1]
           new == [id |-> sensor.id, people |-> sensor.people,
                   flag |-> g_device_list[n].flag \/ g_device_list[n].people # sensor.people]
           found == [refresh EXCEPT !.pc = "assign", !.device = new]
<1>1. /\ refresh.pc = "compare"
      /\ \/ refresh' \in {skipped, [skipped EXCEPT !.restart = TRUE]}
         \/ n # NotFound /\ refresh' = found
      /\ UNCHANGED devices
  BY DEF Compare
<1>2. refresh \in Refresh
  BY RefreshFits DEF FlagInv
<1>3. CASE refresh' \in {skipped, [skipped EXCEPT !.restart = TRUE]}
  <2>1. refresh'.pc = "compare"
    BY <1>1, <1>2, <1>3 DEF Refresh
  <2>2. QED BY <2>1 DEF FlagsAreKept
<1>4. CASE n # NotFound /\ refresh' = found
  <2>1. n \in Index /\ g_device_list[n].id = sensor.id
    BY <1>4, DeviceWithIdFits DEF FlagInv, IInv
  <2>2. g_device_list[n] \in Device
    BY <2>1 DEF FlagInv, IInv, TypeOK
  <2>3. ~new.flag => new = g_device_list[n]
    <3>1. ~new.flag => ~g_device_list[n].flag /\ g_device_list[n].people = sensor.people
      OBVIOUS
    <3> DEFINE d == g_device_list[n]
    <3>2. /\ new.id = sensor.id /\ new.people = sensor.people
          /\ new = [id |-> new.id, people |-> new.people, flag |-> new.flag]
          /\ new.flag \in BOOLEAN
      OBVIOUS
    <3>3. d = [id |-> d.id, people |-> d.people, flag |-> d.flag] /\ d.flag \in BOOLEAN
      BY <2>2 DEF Device
    <3>4. d.id = sensor.id
      BY <2>1
    <3> HIDE DEF new, d, n, sensor
    <3>5. ~new.flag => new.id = d.id /\ new.people = d.people /\ new.flag = d.flag
      BY <3>1, <3>2, <3>3, <3>4 DEF d
    <3>6. QED BY <3>2, <3>3, <3>5 DEF d
  <2>4. refresh'.device = new /\ new.id = sensor.id
    BY <1>2, <1>4 DEF Refresh
  <2>5. \A id : DeviceWithId(id)' = DeviceWithId(id)
    BY <1>1, SameIds DEF FlagInv, IInv, devices
  <2>6. DeviceWithId(refresh.device.id)' = n
    BY <2>4, <2>5
  <2> HIDE DEF new, n, sensor, found, skipped
  <2>7. QED BY <1>1, <2>3, <2>4, <2>6 DEF FlagsAreKept, devices
<1>5. QED BY <1>1, <1>3, <1>4

(* A step that leaves the list and the COV thread alone.                   *)
LEMMA FlagsElsewhere ==
  ASSUME FlagInv, UNCHANGED <<devices, cov>>, UNCHANGED reader["cov"],
         refresh'.pc # "assign" \/ refresh' = refresh,
         refresh.pc = "rebuild" => refresh'.pc = "rebuild"
  PROVE  IdsAreDistinct' /\ FlagsAreKept' /\ MarkedBeforeCleared'
<1>1. IdsAreDistinct'
  BY DEF FlagInv, IdsAreDistinct, devices
<1>2. FlagsAreKept'
  <2>1. \A id : DeviceWithId(id)' = DeviceWithId(id)
    BY SameIds DEF FlagInv, IInv, devices
  <2>2. QED BY <2>1 DEF FlagInv, FlagsAreKept, devices
<1>3. MarkedBeforeCleared'
  BY DEF FlagInv, MarkedBeforeCleared, cov
<1>4. QED BY <1>1, <1>2, <1>3

LEMMA RefreshFlags ==
  ASSUME SensorsAreDistinct, FlagInv, RefreshThread
  PROVE  IdsAreDistinct' /\ FlagsAreKept' /\ MarkedBeforeCleared'
<1>1. UNCHANGED <<reader, cov>>
  BY DEF RefreshThread, Fetch, Rebuild, Compare, Assign, Decide, LockServer, LockCov,
         RebuildFails, UnlockCov, UnlockServer, InitTable, InitKey, InitDone
<1>2. MarkedBeforeCleared'
  BY <1>1 DEF FlagInv, MarkedBeforeCleared, cov
<1>3. refresh \in Refresh
  BY RefreshFits DEF FlagInv
<1>4. CASE Compare
  <2>1. refresh.pc = "compare" /\ UNCHANGED devices
    BY <1>4 DEF Compare
  <2>2. IdsAreDistinct'
    BY <2>1, SameIdsDistinct DEF devices
  <2>3. QED BY <1>2, <1>4, <2>2, CompareKeeps
<1>5. CASE Assign
  <2>1. refresh.pc = "assign"
    BY <1>5 DEF Assign
  <2>2. refresh'.pc = "compare"
    BY <1>3, <1>5 DEF Assign, Refresh
  <2>3. IdsAreDistinct'
    BY <1>5, <2>1, AssignKeeps, SameIdsDistinct
  <2>4. QED BY <1>2, <2>2, <2>3 DEF FlagsAreKept
<1>6. CASE RebuildFails
  <2>1. refresh.pc = "rebuild" /\ refresh' = refresh
    BY <1>6 DEF RebuildFails
  <2>2. QED BY <1>2, <2>1 DEF IdsAreDistinct, FlagsAreKept
<1>7. ASSUME NEW reply \in Replies, Rebuild(reply)
      PROVE  IdsAreDistinct' /\ FlagsAreKept'
  <2>1. refresh'.pc = "unlock cov" /\ g_device_list' = Rebuilt(reply)
    BY <1>3, <1>7 DEF Rebuild, Refresh
  <2>2. IdsAreDistinct'
    BY <2>1, RebuiltIsDistinct DEF IdsAreDistinct
  <2>3. QED BY <2>1, <2>2 DEF FlagsAreKept
<1>8. ASSUME UNCHANGED devices, refresh.pc # "rebuild", refresh'.pc # "assign"
      PROVE  IdsAreDistinct' /\ FlagsAreKept'
  BY <1>1, <1>8, FlagsElsewhere
<1>9. CASE \/ \E reply \in Replies : Fetch(reply)
           \/ Decide \/ LockServer \/ LockCov \/ UnlockCov \/ UnlockServer
           \/ InitTable \/ InitKey \/ InitDone
  <2>1. UNCHANGED devices /\ refresh.pc # "rebuild"
    BY <1>9 DEF Fetch, Decide, LockServer, LockCov, UnlockCov, UnlockServer,
                InitTable, InitKey, InitDone
  <2>2. refresh'.pc # "assign"
    BY <1>3, <1>9 DEF Refresh, Fetch, Decide, LockServer, LockCov, UnlockCov, UnlockServer,
                      InitTable, InitKey, InitDone
  <2>3. QED BY <1>2, <1>8, <2>1, <2>2
<1>10. QED BY <1>2, <1>4, <1>5, <1>6, <1>7, <1>9 DEF RefreshThread

LEMMA MainFlags ==
  ASSUME FlagInv, MainThread
  PROVE  IdsAreDistinct' /\ FlagsAreKept' /\ MarkedBeforeCleared'
<1>1. UNCHANGED <<devices, cov, refresh>>
  BY DEF MainThread, MainAcquire, MainRelease, MainAccess, MainBegin, Begin, Validate, LookUp, cov
<1>2. reader'["cov"] = reader["cov"]
  <2>1. reader \in [Threads -> Reader] /\ "cov" \in Threads /\ "cov" # "main"
    BY DEF FlagInv, IInv, TypeOK, Reader, ReaderStates, Threads
  <2>2. QED
    BY <2>1 DEF MainThread, MainAcquire, MainRelease, MainAccess, MainBegin, Begin, Validate,
                LookUp, Done
<1>3. QED BY <1>1, <1>2, FlagsElsewhere

(* The COV thread clears a flag, or writes no entry at all.                *)
LEMMA CovWrites ==
  ASSUME IInv, CovThread
  PROVE  /\ UNCHANGED <<g_device_count, refresh>>
         /\ ~Clear => g_device_list' = g_device_list
         /\ Clear => /\ Accessed("cov") \in Index
                     /\ \A n \in Index :
                          /\ n # Accessed("cov") => g_device_list'[n] = g_device_list[n]
                          /\ g_device_list'[n].id = g_device_list[n].id
                          /\ g_device_list'[n].people = g_device_list[n].people
                          /\ ~g_device_list[n].flag => g_device_list'[n] = g_device_list[n]
<1>1. /\ UNCHANGED <<g_device_count, refresh>>
      /\ ~Clear => g_device_list' = g_device_list
  BY DEF CovThread, CovAcquire, NextPhase, CovRelease, Clear, WildAccess, CovBegin, CovSkip,
         Begin, Mark, Send, CovAccess, Validate, LookUp, devices
<1>2. ASSUME Clear
      PROVE  /\ Accessed("cov") \in Index
             /\ \A n \in Index :
                  /\ n # Accessed("cov") => g_device_list'[n] = g_device_list[n]
                  /\ g_device_list'[n].id = g_device_list[n].id
                  /\ g_device_list'[n].people = g_device_list[n].people
                  /\ ~g_device_list[n].flag => g_device_list'[n] = g_device_list[n]
  <2> DEFINE a == Accessed("cov")
             device == [g_device_list[a] EXCEPT !.flag = FALSE]
  <2>1. a \in Index
    BY <1>2 DEF Clear, CovAccess, IInv, KeysAreWritten, Threads
  <2>2. g_device_list' = [g_device_list EXCEPT ![a] = device]
    BY <1>2 DEF Clear
  <2>3. g_device_list \in [Index -> Device]
    BY DEF IInv, TypeOK
  <2>4. /\ device.id = g_device_list[a].id /\ device.people = g_device_list[a].people
        /\ ~g_device_list[a].flag => device = g_device_list[a]
    <3>1. g_device_list[a] \in Device
      BY <2>1, <2>3
    <3> HIDE DEF a
    <3>2. QED BY <3>1 DEF Device
  <2> HIDE DEF a, device
  <2>5. \A n \in Index : /\ n # a => g_device_list'[n] = g_device_list[n]
                         /\ n = a => g_device_list'[n] = device
    BY <2>2, <2>3
  <2>6. \A n \in Index :
          /\ n # a => g_device_list'[n] = g_device_list[n]
          /\ g_device_list'[n].id = g_device_list[n].id
          /\ g_device_list'[n].people = g_device_list[n].people
          /\ ~g_device_list[n].flag => g_device_list'[n] = g_device_list[n]
    <3> SUFFICES ASSUME NEW n \in Index
                 PROVE  /\ n # a => g_device_list'[n] = g_device_list[n]
                        /\ g_device_list'[n].id = g_device_list[n].id
                        /\ g_device_list'[n].people = g_device_list[n].people
                        /\ ~g_device_list[n].flag => g_device_list'[n] = g_device_list[n]
      OBVIOUS
    <3>1. CASE n = a
      <4>1. g_device_list'[n] = device /\ g_device_list[n] = g_device_list[a]
        BY <2>5, <3>1
      <4>2. QED BY <2>4, <3>1, <4>1
    <3>2. CASE n # a
      <4>1. g_device_list'[n] = g_device_list[n]
        BY <2>5, <3>2
      <4>2. QED BY <3>2, <4>1
    <3>3. QED BY <3>1, <3>2
  <2>7. QED BY <2>1, <2>6 DEF a
<1>3. QED BY <1>1, <1>2

LEMMA CovMarks ==
  ASSUME FlagInv, CovThread
  PROVE  MarkedBeforeCleared'
<1>1. reader \in [Threads -> Reader] /\ "cov" \in Threads
  BY DEF FlagInv, IInv, TypeOK, Reader, ReaderStates, Threads
<1>2. sweep \in [phase : Phases, todo : SUBSET Subscribed]
  BY DEF FlagInv, IInv, TypeOK
<1>3. ASSUME NEW i \in Subscribed, CovBegin(i) PROVE MarkedBeforeCleared'
  <2>1. reader'["cov"].instance = i
    BY <1>1, <1>3 DEF CovBegin, Begin, Reader
  <2>2. sweep.phase = "MARK" \/ i \in marked
    BY <1>3 DEF CovBegin
  <2>3. sweep'.phase = sweep.phase /\ marked' = marked
    BY <1>2, <1>3 DEF CovBegin, Begin
  <2>4. QED BY <2>1, <2>2, <2>3 DEF MarkedBeforeCleared
<1>4. CASE Validate("cov") \/ LookUp("cov")
  <2>1. reader["cov"].pc \in Looking /\ UNCHANGED cov
    BY <1>4 DEF Validate, LookUp, Looking
  <2>2. reader'["cov"].pc = "ready" \/ reader'["cov"].instance = reader["cov"].instance
    <3>1. reader["cov"] \in Reader
      BY <1>1
    <3>2. \/ reader' = Done("cov")
          \/ reader' = [reader EXCEPT !["cov"].pc = "look up"]
          \/ \E x : reader' = [reader EXCEPT !["cov"].pc = "access", !["cov"].index = x]
      BY <1>4 DEF Validate, LookUp
    <3>3. CASE reader' = Done("cov")
      BY <1>1, <3>3 DEF Done
    <3>4. CASE reader' = [reader EXCEPT !["cov"].pc = "look up"]
      BY <1>1, <3>1, <3>4 DEF Reader
    <3>5. ASSUME NEW x, reader' = [reader EXCEPT !["cov"].pc = "access", !["cov"].index = x]
          PROVE  reader'["cov"].instance = reader["cov"].instance
      BY <1>1, <3>1, <3>5 DEF Reader
    <3>6. QED BY <3>2, <3>3, <3>4, <3>5
  <2>3. QED BY <2>1, <2>2 DEF FlagInv, MarkedBeforeCleared, cov, Looking
<1>5. ASSUME reader'["cov"].pc \in {"idle", "ready"} PROVE MarkedBeforeCleared'
  BY <1>5 DEF MarkedBeforeCleared, Looking
<1>6. CASE CovAcquire \/ CovRelease
  <2>1. reader'["cov"].pc \in {"idle", "ready"}
    BY <1>1, <1>6 DEF CovAcquire, CovRelease, Reader
  <2>2. QED BY <1>5, <2>1
<1>7. CASE NextPhase \/ \E i \in Subscribed : CovSkip(i)
  <2>1. reader'["cov"].pc = "ready"
    BY <1>7 DEF NextPhase, Finished, CovSkip
  <2>2. QED BY <1>5, <2>1
<1>8. CASE Clear \/ WildAccess \/ \E i \in Subscribed : Mark(i) \/ Send(i)
  <2>1. reader'["cov"].pc = "ready"
    BY <1>1, <1>8 DEF Clear, WildAccess, Mark, Send, CovAccess, Done
  <2>2. QED BY <1>5, <2>1
<1>9. QED BY <1>3, <1>4, <1>6, <1>7, <1>8 DEF CovThread

LEMMA CovFlags ==
  ASSUME FlagInv, CovThread
  PROVE  IdsAreDistinct' /\ FlagsAreKept' /\ MarkedBeforeCleared'
<1>1. IInv
  BY DEF FlagInv
<1>2. /\ UNCHANGED <<g_device_count, refresh>>
      /\ \A n \in Index :
           /\ g_device_list'[n].id = g_device_list[n].id
           /\ ~g_device_list[n].flag => g_device_list'[n] = g_device_list[n]
  BY <1>1, CovWrites
<1>3. IdsAreDistinct'
  BY <1>2 DEF FlagInv, IdsAreDistinct
<1>4. FlagsAreKept'
  <2> SUFFICES ASSUME refresh.pc = "assign", ~refresh.device.flag
               PROVE  g_device_list'[DeviceWithId(refresh.device.id)'] = refresh.device
    BY <1>2 DEF FlagsAreKept
  <2>1. DeviceWithId(refresh.device.id)' = DeviceWithId(refresh.device.id)
    <3>1. \A id : DeviceWithId(id)' = DeviceWithId(id)
      BY <1>1, <1>2, SameIds DEF IInv
    <3>2. QED BY <1>2, <3>1
  <2>2. DeviceWithId(refresh.device.id) \in Index
    BY <1>1, DeviceWithIdFits DEF IInv, Progress
  <2>3. g_device_list[DeviceWithId(refresh.device.id)] = refresh.device
    BY DEF FlagInv, FlagsAreKept
  <2>4. QED BY <1>2, <2>1, <2>2, <2>3
<1>5. QED BY <1>3, <1>4, CovMarks

LEMMA InitFlagInv == SensorsAreDistinct /\ Init => FlagInv
<1> SUFFICES ASSUME SensorsAreDistinct, Init PROVE FlagInv
  OBVIOUS
<1>1. IInv
  BY InitIInv
<1>2. PICK reply \in Replies : g_device_list = Rebuilt(reply) /\ refresh.pc = "sleep"
  BY DEF Init
<1>3. IdsAreDistinct
  BY <1>2, RebuiltIsDistinct DEF IdsAreDistinct
<1>4. reader["cov"].pc = "idle"
  BY DEF Init, Threads
<1>5. QED BY <1>1, <1>2, <1>3, <1>4 DEF FlagInv, FlagsAreKept, MarkedBeforeCleared, Looking

LEMMA NextFlagInv ==
  SensorsAreDistinct /\ FlagInv /\ [Next]_vars => FlagInv'
<1> SUFFICES ASSUME SensorsAreDistinct, FlagInv, [Next]_vars PROVE FlagInv'
  OBVIOUS
<1>1. IInv'
  BY NextIInv DEF FlagInv
<1>2. CASE UNCHANGED vars
  <2>1. UNCHANGED <<devices, cov>> /\ UNCHANGED reader["cov"] /\ refresh' = refresh
    BY <1>2 DEF vars
  <2>2. QED BY <1>1, <2>1, FlagsElsewhere DEF FlagInv
<1>3. CASE Next
  BY <1>1, <1>3, RefreshFlags, MainFlags, CovFlags DEF Next, FlagInv
<1>4. QED BY <1>2, <1>3

(* A step that marks no less, tells no one, and writes an entry of a       *)
(* sensor only with its flag set, or when its subscription is marked.      *)
LEMMA NoneMissed ==
  ASSUME IInv, UNCHANGED <<g_device_count, told>>, marked \subseteq marked',
         \A n \in Index :
           /\ g_device_list'[n].id = g_device_list[n].id
           /\ \/ g_device_list'[n] = g_device_list[n]
              \/ g_device_list'[n].flag
              \/ g_device_list[n].id \in marked
  PROVE  MissedIds' \subseteq MissedIds
<1> SUFFICES ASSUME NEW i \in Subscribed, i \in MissedIds' PROVE i \in MissedIds
  BY DEF MissedIds
<1>1. PICK n \in 1..g_device_count :
        /\ g_device_list'[n].id = i /\ told'[i] # g_device_list'[n].people
        /\ ~g_device_list'[n].flag /\ i \notin marked'
  BY DEF MissedIds
<1>2. n \in Index
  BY CountsFit DEF IInv
<1>3. g_device_list'[n] = g_device_list[n] /\ i \notin marked
  BY <1>1, <1>2
<1>4. QED BY <1>1, <1>3 DEF MissedIds

(* The subscriber is told what its entry has, and its sensor has no other. *)
LEMMA SentIsNotMissed ==
  ASSUME FlagInv, NEW i \in Subscribed, Send(i), ~Strays
  PROVE  MissedIds' \subseteq MissedIds
<1> DEFINE a == Accessed("cov")
<1>1. /\ reader["cov"].pc = "access" /\ InTable("cov") /\ reader["cov"].instance = i
      /\ told' = [told EXCEPT ![i] = g_device_list[a].people] /\ marked' = marked \ {i}
      /\ UNCHANGED <<g_device_list, g_device_count>>
  BY DEF Send, CovAccess
<1>2. reader'["cov"].pc = "ready"
  BY DEF Send, CovAccess, Done, FlagInv, IInv, TypeOK, Threads
<1>3. g_device_list[a].id = i
  BY <1>1, <1>2 DEF Strays, Threads
<1>4. a \in Index
  BY <1>1 DEF FlagInv, IInv, KeysAreWritten, Threads
<1>5. refresh.pc # "rebuild"
  BY <1>1 DEF FlagInv, IInv, Exclusion
<1>6. i # 0
  BY DeviceListAssumption
<1>7. \A n \in 1..g_device_count : n \in Index
  BY CountsFit DEF FlagInv, IInv
<1>8. \A n \in 1..g_device_count : g_device_list[n].id = i => n = a
  BY <1>3, <1>4, <1>5, <1>6, <1>7 DEF FlagInv, IdsAreDistinct
<1>9. /\ told'[i] = g_device_list[a].people
      /\ \A j \in Subscribed : j # i => told'[j] = told[j] /\ (j \in marked' <=> j \in marked)
  BY <1>1 DEF FlagInv, IInv, TypeOK
<1> HIDE DEF a
<1>10. i \notin MissedIds'
  BY <1>1, <1>8, <1>9 DEF MissedIds
<1>11. QED BY <1>1, <1>9, <1>10 DEF MissedIds

LEMMA CovMisses ==
  ASSUME FlagInv, CovThread, ~Strays
  PROVE  MissedIds' \subseteq MissedIds
<1>1. CASE Clear
  <2>1. /\ reader["cov"].pc = "access" /\ InTable("cov") /\ sweep.phase = "CLEAR"
        /\ UNCHANGED <<g_device_count, told, marked>>
    BY <1>1 DEF Clear, CovAccess
  <2>2. reader'["cov"].pc = "ready"
    BY <1>1 DEF Clear, CovAccess, Done, FlagInv, IInv, TypeOK, Threads
  <2>3. g_device_list[Accessed("cov")].id = reader["cov"].instance
    BY <2>1, <2>2 DEF Strays, Threads
  <2>4. reader["cov"].instance \in marked
    BY <2>1 DEF FlagInv, MarkedBeforeCleared, Looking
  <2>5. \A n \in Index :
          /\ g_device_list'[n].id = g_device_list[n].id
          /\ g_device_list'[n] = g_device_list[n] \/ g_device_list[n].id \in marked
    BY <1>1, <2>3, <2>4, CovWrites DEF FlagInv
  <2>6. QED BY <2>1, <2>5, NoneMissed DEF FlagInv
<1>2. ASSUME NEW i \in Subscribed, Send(i) PROVE MissedIds' \subseteq MissedIds
  BY <1>2, SentIsNotMissed
<1>3. CASE ~Clear /\ ~(\E i \in Subscribed : Send(i))
  <2>1. UNCHANGED g_device_count /\ g_device_list' = g_device_list
    BY <1>3, CovWrites DEF FlagInv
  <2>2. told' = told /\ marked \subseteq marked'
    BY <1>3 DEF CovThread, CovAcquire, NextPhase, CovRelease, WildAccess, CovBegin, CovSkip,
                Begin, Mark, Validate, LookUp, cov
  <2>3. QED BY <2>1, <2>2, NoneMissed DEF FlagInv
<1>4. QED BY <1>1, <1>2, <1>3

LEMMA RefreshMisses ==
  ASSUME FlagInv, RefreshThread
  PROVE  MissedIds' \subseteq MissedIds
<1>1. UNCHANGED <<told, marked>>
  BY DEF RefreshThread, Fetch, Rebuild, Compare, Assign, Decide, LockServer, LockCov,
         RebuildFails, UnlockCov, UnlockServer, InitTable, InitKey, InitDone, cov
<1>2. CASE Assign
  <2>1. g_device_count' = g_device_count
    BY <1>2 DEF Assign
  <2>2. QED BY <1>1, <1>2, <2>1, AssignKeeps, NoneMissed DEF FlagInv
<1>3. CASE RebuildFails
  <2>1. \A n \in 1..g_device_count' : g_device_list'[n].id = 0
    BY <1>3, CountsFit DEF RebuildFails, Emptied, NoDevice, FlagInv, IInv
  <2>2. 0 \notin Subscribed
    BY DeviceListAssumption
  <2>3. QED BY <2>1, <2>2 DEF MissedIds
<1>4. ASSUME NEW reply \in Replies, Rebuild(reply) PROVE MissedIds' \subseteq MissedIds
  BY <1>4, RebuiltIsFlagged DEF Rebuild, MissedIds
<1>5. CASE \/ \E reply \in Replies : Fetch(reply)
           \/ Compare \/ Decide \/ LockServer \/ LockCov \/ UnlockCov \/ UnlockServer
           \/ InitTable \/ InitKey \/ InitDone
  <2>1. UNCHANGED devices
    BY <1>5 DEF Fetch, Compare, Decide, LockServer, LockCov, UnlockCov, UnlockServer,
                InitTable, InitKey, InitDone
  <2>2. QED BY <1>1, <2>1, NoneMissed DEF devices, FlagInv
<1>6. QED BY <1>2, <1>3, <1>4, <1>5 DEF RefreshThread

(* With one entry per sensor, no change of a subscribed one is lost by the *)
(* refresh thread, which reads a flag and writes it back later without a   *)
(* lock (assign_device), nor by the sweeps, which clear it before they     *)
(* send: an access that strays, while object_init runs, is the only way.   *)
THEOREM ChangesAreMissedOnlyByStrays ==
  SensorsAreDistinct => (Spec => MissedOnlyByStrays)
<1> SUFFICES ASSUME SensorsAreDistinct PROVE Spec => MissedOnlyByStrays
  OBVIOUS
<1>1. Init => FlagInv
  BY InitFlagInv
<1>2. FlagInv /\ [Next]_vars => FlagInv'
  BY NextFlagInv
<1>3. FlagInv /\ [Next]_vars => [(MissedIds' \subseteq MissedIds) \/ Strays]_vars
  <2> SUFFICES ASSUME FlagInv, Next, ~Strays PROVE MissedIds' \subseteq MissedIds
    OBVIOUS
  <2>1. CASE RefreshThread
    BY <2>1, RefreshMisses
  <2>2. CASE MainThread
    <3>1. UNCHANGED <<devices, cov>>
      BY <2>2 DEF MainThread, MainAcquire, MainRelease, MainAccess, MainBegin, Begin,
                  Validate, LookUp, cov
    <3>2. QED BY <3>1, NoneMissed DEF devices, cov, FlagInv
  <2>3. CASE CovThread
    BY <2>3, CovMisses
  <2>4. QED BY <2>1, <2>2, <2>3 DEF Next
<1>4. QED BY <1>1, <1>2, <1>3, PTL DEF Spec, MissedOnlyByStrays
=============================================================================
