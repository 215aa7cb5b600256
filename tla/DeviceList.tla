----------------------------- MODULE DeviceList -----------------------------
(***************************************************************************)
(* The people counters behind the objects, main/get_data.c and             *)
(* main/object/ai.c, and the three threads that share them without a lock  *)
(* of their own:                                                           *)
(*                                                                         *)
(*  - the refresh thread fetches the sensors from the backend and updates  *)
(*    g_device_list in place. When the sensors themselves have changed it  *)
(*    takes server_sem and cov_sem, rebuilds the list, releases both, and  *)
(*    only then rebuilds the table that maps instances to entries          *)
(*    (object_init);                                                       *)
(*  - the main thread serves requests for a property under server_sem;     *)
(*  - the COV thread sweeps its subscriptions under cov_sem. Here an       *)
(*    instance has at most one.                                            *)
(*                                                                         *)
(* Every access to an object looks its instance up twice: once to see that *)
(* it exists, once more to find its entry. The backend is unknown: any     *)
(* reply may come at any time. The copy of an entry by memcpy is one step: *)
(* the number and its flag lie in the same 16 bytes.                       *)
(***************************************************************************)
EXTENDS Integers, Sequences, FiniteSets

CONSTANTS
  MaxDevices,  \* DEVICE_MAX_COUNT
  Instances,   \* object instances that are asked for, the IDs of the sensors
  Subscribed,  \* the instances that have a COV subscription
  People,      \* numbers a sensor counts
  Replies      \* lists of sensors the backend may reply, << >> is none

Index == 1..MaxDevices
Sensor == [id : Instances \cup {0}, people : People]

ASSUME DeviceListAssumption ==
  /\ MaxDevices \in Nat \ {0}
  /\ Instances \subseteq Nat \ {0} /\ Subscribed \subseteq Instances /\ 0 \in People
  /\ \A reply \in Replies : reply \in Seq(Sensor) /\ Len(reply) <= MaxDevices

VARIABLES
  g_device_list,   \* the sensors, and the flag that one has changed
  g_device_count,  \* g_device_list_count, and the object_count it is copied to
  g_local_list,    \* per object its instance and its entry of g_device_list
  g_local_count,
  server_sem,      \* who holds it: "main", "refresh" or "none"
  cov_sem,         \* "cov", "refresh" or "none"
  refresh,         \* the refresh thread and its local variables
  reader,          \* the main and the COV thread at an access to an object
  sweep,           \* the phase of the COV sweep and the instances it has left
  marked,          \* instances whose subscription requests to be sent
  told             \* history: the number last sent to it

devices == <<g_device_list, g_device_count>>
keys == <<g_local_list, g_local_count>>
cov == <<sweep, marked, told>>
vars == <<devices, keys, server_sem, cov_sem, refresh, reader, cov>>

Threads == {"main", "cov"}
Phases == {"MARK", "CLEAR", "SEND"}
NotFound == 0
Device == [id : Instances \cup {0}, people : People, flag : BOOLEAN]
NoDevice == [id |-> 0, people |-> 0, flag |-> FALSE]
Emptied == [n \in Index |-> NoDevice]

RefreshStates ==
  {"sleep", "compare", "assign", "lock server", "lock cov", "rebuild",
   "unlock cov", "unlock server", "init", "init key"}

TypeOK ==
  /\ g_device_list \in [Index -> Device]
  /\ g_device_count \in 0..MaxDevices
  /\ g_local_list \in [Index -> [instance : Instances \cup {0}, device : 0..MaxDevices]]
  /\ g_local_count \in 0..MaxDevices
  /\ server_sem \in {"none", "main", "refresh"}
  /\ cov_sem \in {"none", "cov", "refresh"}
  /\ refresh \in [pc : RefreshStates, n : 1..(MaxDevices + 1), actual_count : 0..MaxDevices,
                  restart : BOOLEAN, device : Device, reply : Replies]
  /\ reader \in [Threads -> [pc : {"idle", "ready", "validate", "look up", "access"},
                             instance : Instances \cup {0}, index : 0..MaxDevices]]
  /\ sweep \in [phase : Phases, todo : SUBSET Subscribed]
  /\ marked \in SUBSET Subscribed
  /\ told \in [Subscribed -> People \cup {-1}]

-----------------------------------------------------------------------------
(* The list of sensors. Sensors without a valid ID are skipped.            *)

Known(reply) == {p \in DOMAIN reply : reply[p].id >= 1}
Count(reply) == Cardinality(Known(reply))
Nth(reply, n) == CHOOSE p \in Known(reply) : Cardinality(Known(reply) \cap 1..p) = n
Rebuilt(reply) ==
  [n \in Index |->
    IF n <= Count(reply)
    THEN [id |-> reply[Nth(reply, n)].id, people |-> reply[Nth(reply, n)].people, flag |-> TRUE]
    ELSE NoDevice]

(* get_device_by_object_id and Analog_Input_Instance_To_Index.             *)
FirstIndex(S) == IF S = {} THEN NotFound ELSE CHOOSE n \in S : \A m \in S : n <= m
DeviceWithId(id) == FirstIndex({n \in 1..g_device_count : g_device_list[n].id = id})
InstanceToIndex(instance) ==
  FirstIndex({n \in 1..g_local_count : g_local_list[n].instance = instance})

Key(n) == [instance |-> g_device_list[n].id, device |-> n]

(* get_data_init has built the list and Device_Init the table.             *)
Init ==
  /\ \E reply \in Replies :
       /\ reply # << >>
       /\ g_device_list = Rebuilt(reply)
       /\ g_device_count = Count(reply)
       /\ g_local_list =
            [n \in Index |-> IF n <= g_device_count THEN Key(n)
                             ELSE [instance |-> 0, device |-> 0]]
       /\ g_local_count = g_device_count
       /\ refresh = [pc |-> "sleep", n |-> 1, actual_count |-> 0, restart |-> FALSE,
                     device |-> NoDevice, reply |-> reply]
  /\ server_sem = "none" /\ cov_sem = "none"
  /\ reader = [t \in Threads |-> [pc |-> "idle", instance |-> 0, index |-> 0]]
  /\ sweep = [phase |-> "MARK", todo |-> Subscribed]
  /\ marked = {}
  /\ told = [i \in Subscribed |-> -1]

-----------------------------------------------------------------------------
(* The refresh thread.                                                     *)

(* A fetch that fails returns at once and changes nothing.                 *)
Fetch(reply) ==
  /\ refresh.pc = "sleep"
  /\ refresh' = [refresh EXCEPT !.pc = "compare", !.n = 1, !.reply = reply,
                                !.actual_count = 0, !.restart = FALSE]
  /\ UNCHANGED <<devices, keys, server_sem, cov_sem, reader, cov>>

(* The first half of assign_device: the flag of the entry is read here,    *)
(* and written back, with the number, in the second half.                  *)

(* Mutant: the flag that is still set is not carried over.                 *)
CompareAnew ==
  LET sensor == refresh.reply[refresh.n]
      n == DeviceWithId(sensor.id)
      new == [id |-> sensor.id, people |-> sensor.people,
              flag |-> g_device_list[n].people # sensor.people]
  IN /\ refresh.pc = "compare" /\ refresh.n <= Len(refresh.reply) /\ n # NotFound
     /\ refresh' = [refresh EXCEPT !.pc = "assign", !.device = new]
     /\ UNCHANGED <<devices, keys, server_sem, cov_sem, reader, cov>>

Compare ==
  LET sensor == refresh.reply[refresh.n]
      n == DeviceWithId(sensor.id)
      skipped == [refresh EXCEPT !.n = @ + 1]
      new == [id |-> sensor.id, people |-> sensor.people,
              flag |-> g_device_list[n].flag \/ g_device_list[n].people # sensor.people]
  IN /\ refresh.pc = "compare" /\ refresh.n <= Len(refresh.reply)
     /\ refresh' =
          IF sensor.id < 1 THEN skipped
          ELSE IF n = NotFound THEN [skipped EXCEPT !.restart = TRUE]
          ELSE IF refresh.restart THEN skipped
          ELSE [refresh EXCEPT !.pc = "assign", !.device = new]
     /\ UNCHANGED <<devices, keys, server_sem, cov_sem, reader, cov>>

Assign ==
  /\ refresh.pc = "assign"
  /\ g_device_list' = [g_device_list EXCEPT ![DeviceWithId(refresh.device.id)] = refresh.device]
  /\ refresh' = [refresh EXCEPT !.pc = "compare", !.n = @ + 1,
                                !.actual_count = @ + 1, !.device = NoDevice]
  /\ UNCHANGED <<g_device_count, keys, server_sem, cov_sem, reader, cov>>

Changed == refresh.restart \/ refresh.actual_count # g_device_count

Decide ==
  /\ refresh.pc = "compare" /\ refresh.n > Len(refresh.reply)
  /\ refresh' = [refresh EXCEPT !.pc = IF Changed THEN "lock server" ELSE "sleep", !.n = 1]
  /\ UNCHANGED <<devices, keys, server_sem, cov_sem, reader, cov>>

LockServer ==
  /\ refresh.pc = "lock server" /\ server_sem = "none"
  /\ server_sem' = "refresh"
  /\ refresh' = [refresh EXCEPT !.pc = "lock cov"]
  /\ UNCHANGED <<devices, keys, cov_sem, reader, cov>>

(* Mutant: the COV thread is not stopped.                                  *)
LockNothing ==
  /\ refresh.pc = "lock cov"
  /\ refresh' = [refresh EXCEPT !.pc = "rebuild"]
  /\ UNCHANGED <<devices, keys, server_sem, cov_sem, reader, cov>>

LockCov ==
  /\ refresh.pc = "lock cov" /\ cov_sem = "none"
  /\ cov_sem' = "refresh"
  /\ refresh' = [refresh EXCEPT !.pc = "rebuild"]
  /\ UNCHANGED <<devices, keys, server_sem, reader, cov>>

(* One round of rebuild_device_list: the entries are emptied first, and    *)
(* stay so until a fetch brings at least one sensor.                       *)

(* Mutant: the thread gives up after a failure.                            *)
RebuildGivesUp ==
  /\ refresh.pc = "rebuild"
  /\ g_device_list' = Emptied
  /\ refresh' = [refresh EXCEPT !.pc = "unlock cov"]
  /\ UNCHANGED <<g_device_count, keys, server_sem, cov_sem, reader, cov>>

RebuildFails ==
  /\ refresh.pc = "rebuild"
  /\ g_device_list' = Emptied
  /\ UNCHANGED <<g_device_count, keys, server_sem, cov_sem, refresh, reader, cov>>

Rebuild(reply) ==
  /\ refresh.pc = "rebuild" /\ reply # << >>
  /\ g_device_list' = Rebuilt(reply)
  /\ g_device_count' = Count(reply)
  /\ refresh' = [refresh EXCEPT !.pc = "unlock cov"]
  /\ UNCHANGED <<keys, server_sem, cov_sem, reader, cov>>

UnlockCov ==
  /\ refresh.pc = "unlock cov"
  /\ cov_sem' = "none"
  /\ refresh' = [refresh EXCEPT !.pc = "unlock server"]
  /\ UNCHANGED <<devices, keys, server_sem, reader, cov>>

(* Mutants: object_init is forgotten; the semaphore is never posted.       *)
UnlockServerOnly ==
  /\ refresh.pc = "unlock server"
  /\ server_sem' = "none"
  /\ refresh' = [refresh EXCEPT !.pc = "sleep"]
  /\ UNCHANGED <<devices, keys, cov_sem, reader, cov>>
UnlockServerNever ==
  /\ refresh.pc = "unlock server"
  /\ refresh' = [refresh EXCEPT !.pc = "init"]
  /\ UNCHANGED <<devices, keys, server_sem, cov_sem, reader, cov>>

UnlockServer ==
  /\ refresh.pc = "unlock server"
  /\ server_sem' = "none"
  /\ refresh' = [refresh EXCEPT !.pc = "init"]
  /\ UNCHANGED <<devices, keys, cov_sem, reader, cov>>

(* object_init: the macro OBJECT_INIT, which counts the table up from 0.   *)

(* Mutant: the count is not reset.                                         *)
InitTableNoReset ==
  /\ refresh.pc = "init"
  /\ refresh' = [refresh EXCEPT !.pc = "init key", !.n = 1]
  /\ UNCHANGED <<devices, keys, server_sem, cov_sem, reader, cov>>

InitTable ==
  /\ refresh.pc = "init"
  /\ g_local_count' = 0
  /\ refresh' = [refresh EXCEPT !.pc = "init key", !.n = 1]
  /\ UNCHANGED <<devices, g_local_list, server_sem, cov_sem, reader, cov>>

InitKey ==
  /\ refresh.pc = "init key" /\ refresh.n <= g_device_count
  /\ g_local_list' = [g_local_list EXCEPT ![refresh.n] = Key(refresh.n)]
  /\ g_local_count' = g_local_count + 1
  /\ refresh' = [refresh EXCEPT !.n = @ + 1]
  /\ UNCHANGED <<devices, server_sem, cov_sem, reader, cov>>

InitDone ==
  /\ refresh.pc = "init key" /\ refresh.n > g_device_count
  /\ refresh' = [refresh EXCEPT !.pc = "sleep", !.n = 1]
  /\ UNCHANGED <<devices, keys, server_sem, cov_sem, reader, cov>>

RefreshThread ==
  \/ \E reply \in Replies : Fetch(reply) \/ Rebuild(reply)
  \/ Compare \/ Assign \/ Decide \/ LockServer \/ LockCov \/ RebuildFails
  \/ UnlockCov \/ UnlockServer \/ InitTable \/ InitKey \/ InitDone

-----------------------------------------------------------------------------
(* The main and the COV thread.                                            *)

MainAcquire ==
  /\ reader["main"].pc = "idle" /\ server_sem = "none"
  /\ server_sem' = "main"
  /\ reader' = [reader EXCEPT !["main"].pc = "ready"]
  /\ UNCHANGED <<devices, keys, cov_sem, refresh, cov>>

MainRelease ==
  /\ reader["main"].pc = "ready"
  /\ server_sem' = "none"
  /\ reader' = [reader EXCEPT !["main"].pc = "idle"]
  /\ UNCHANGED <<devices, keys, cov_sem, refresh, cov>>

CovAcquire ==
  /\ reader["cov"].pc = "idle" /\ cov_sem = "none"
  /\ cov_sem' = "cov"
  /\ reader' = [reader EXCEPT !["cov"].pc = "ready"]
  /\ UNCHANGED <<devices, keys, server_sem, refresh, cov>>

Finished == reader["cov"].pc = "ready" /\ sweep.todo = {}

NextPhase ==
  /\ Finished /\ sweep.phase # "SEND"
  /\ sweep' = [phase |-> IF sweep.phase = "MARK" THEN "CLEAR" ELSE "SEND", todo |-> Subscribed]
  /\ UNCHANGED <<devices, keys, server_sem, cov_sem, refresh, reader, marked, told>>

CovRelease ==
  /\ Finished /\ sweep.phase = "SEND"
  /\ cov_sem' = "none"
  /\ reader' = [reader EXCEPT !["cov"].pc = "idle"]
  /\ sweep' = [phase |-> "MARK", todo |-> Subscribed]
  /\ UNCHANGED <<devices, keys, server_sem, refresh, marked, told>>

Begin(t, i) ==
  /\ reader[t].pc = "ready"
  /\ reader' = [reader EXCEPT ![t].pc = "validate", ![t].instance = i]
  /\ UNCHANGED <<devices, keys, server_sem, cov_sem, refresh, marked, told>>

(* A request, for any object; the next subscription, of which only those   *)
(* that request to be sent are cleared and sent.                           *)
MainBegin(i) == Begin("main", i) /\ UNCHANGED sweep
CovBegin(i) ==
  /\ i \in sweep.todo
  /\ sweep.phase = "MARK" \/ i \in marked
  /\ Begin("cov", i)
  /\ sweep' = [sweep EXCEPT !.todo = @ \ {i}]
CovSkip(i) ==
  /\ reader["cov"].pc = "ready" /\ i \in sweep.todo
  /\ sweep.phase # "MARK" /\ i \notin marked
  /\ sweep' = [sweep EXCEPT !.todo = @ \ {i}]
  /\ UNCHANGED <<devices, keys, server_sem, cov_sem, refresh, reader, marked, told>>

Done(t) == [reader EXCEPT ![t] = [pc |-> "ready", instance |-> 0, index |-> 0]]

(* Analog_Input_Valid_Instance.                                            *)
Validate(t) ==
  /\ reader[t].pc = "validate"
  /\ reader' = IF InstanceToIndex(reader[t].instance) = NotFound THEN Done(t)
               ELSE [reader EXCEPT ![t].pc = "look up"]
  /\ UNCHANGED <<devices, keys, server_sem, cov_sem, refresh, cov>>

(* Present_Value, Change_Of_Value and Change_Of_Value_Clear look again and *)
(* do not test for -1.                                                     *)
LookUp(t) ==
  /\ reader[t].pc = "look up"
  /\ reader' = [reader EXCEPT ![t].pc = "access",
                              ![t].index = InstanceToIndex(reader[t].instance)]
  /\ UNCHANGED <<devices, keys, server_sem, cov_sem, refresh, cov>>

(* The entry the access reads; none with the index -1, when memory outside *)
(* the table would be read. The model then lets the access pass.           *)
InTable(t) == reader[t].index # NotFound
Accessed(t) == g_local_list[reader[t].index].device

MainAccess ==
  /\ reader["main"].pc = "access"
  /\ reader' = Done("main")
  /\ UNCHANGED <<devices, keys, server_sem, cov_sem, refresh, cov>>

CovAccess ==
  /\ reader["cov"].pc = "access"
  /\ reader' = Done("cov")
  /\ UNCHANGED <<g_device_count, keys, server_sem, cov_sem, refresh, sweep>>

WildAccess == CovAccess /\ ~InTable("cov") /\ UNCHANGED <<g_device_list, marked, told>>

Mark(i) ==
  /\ CovAccess /\ InTable("cov") /\ sweep.phase = "MARK" /\ reader["cov"].instance = i
  /\ marked' = IF g_device_list[Accessed("cov")].flag THEN marked \cup {i} ELSE marked
  /\ UNCHANGED <<g_device_list, told>>

Clear ==
  /\ CovAccess /\ InTable("cov") /\ sweep.phase = "CLEAR"
  /\ g_device_list' = [g_device_list EXCEPT ![Accessed("cov")].flag = FALSE]
  /\ UNCHANGED <<marked, told>>

Send(i) ==
  /\ CovAccess /\ InTable("cov") /\ sweep.phase = "SEND" /\ reader["cov"].instance = i
  /\ told' = [told EXCEPT ![i] = g_device_list[Accessed("cov")].people]
  /\ marked' = marked \ {i}
  /\ UNCHANGED g_device_list

MainThread ==
  \/ MainAcquire \/ MainRelease \/ MainAccess
  \/ \E i \in Instances : MainBegin(i)
  \/ Validate("main") \/ LookUp("main")

CovThread ==
  \/ CovAcquire \/ NextPhase \/ CovRelease \/ Clear \/ WildAccess
  \/ \E i \in Subscribed : CovBegin(i) \/ CovSkip(i) \/ Mark(i) \/ Send(i)
  \/ Validate("cov") \/ LookUp("cov")

Next == RefreshThread \/ MainThread \/ CovThread

Spec == Init /\ [][Next]_vars

(* Every thread runs, and every request has an end. The main thread gives  *)
(* server_sem back and waits for the datalink, the COV thread waits 200    *)
(* ms, so that whoever waits for a semaphore gets it in the end. The       *)
(* backend does not refuse for ever.                                       *)
Fairness ==
  /\ WF_vars(MainThread) /\ SF_vars(MainRelease) /\ WF_vars(CovThread)
  /\ WF_vars(Compare \/ Assign \/ Decide \/ UnlockCov \/ UnlockServer
             \/ InitTable \/ InitKey \/ InitDone)
  /\ WF_vars(\E reply \in Replies : Rebuild(reply))
  /\ SF_vars(LockServer) /\ SF_vars(LockCov)
FairSpec == Spec /\ Fairness

-----------------------------------------------------------------------------
(* Properties.                                                             *)

(* Sensors are deleted, added or moved only while both other threads are   *)
(* stopped between two uses of the objects: "stop cov_task (lock) before a *)
(* device is deleted" (README).                                            *)
StoppedWhenDeleted ==
  (\E n \in Index : g_device_list'[n].id # g_device_list[n].id)
    => \A t \in Threads : reader[t].pc = "idle" /\ reader'[t].pc = "idle"
DeletesOnlyWhenStopped == [][StoppedWhenDeleted]_vars

(* No thread ever gets at an entry that the rebuild has emptied: while the *)
(* backend refuses, requests wait.                                         *)
NeverEmptied ==
  \A t \in Threads : reader[t].pc # "idle" =>
    \A n \in 1..g_device_count : g_device_list[n].id # 0

(* Whenever no change is being handled, the objects are those of the list, *)
(* each with its own entry.                                                *)
ObjectsMatchDevices ==
  refresh.pc \in {"sleep", "compare", "assign", "lock server", "lock cov"} =>
    /\ g_local_count = g_device_count
    /\ \A n \in 1..g_local_count : g_local_list[n] = Key(n)

(* An access never leaves the table, and reads or clears the sensor that   *)
(* was asked for: the lock is there so that no pointer becomes invalid     *)
(* (README). object_init runs after it was released.                       *)
AccessesOwnDevice ==
  \A t \in Threads : reader[t].pc = "access" =>
    InTable(t) /\ g_device_list[Accessed(t)].id = reader[t].instance

(* A number that was not sent to its subscriber is flagged or marked, and  *)
(* stays so until it is sent: the refresh thread writes back a flag it read *)
(* before, while the COV thread clears it, lists are rebuilt in between,   *)
(* and no change gets lost. The only steps that lose one are accesses that *)
(* miss the sensor asked for, those that AccessesOwnDevice is about.       *)
MissedIds ==
  {i \in Subscribed :
     \E n \in 1..g_device_count :
       /\ g_device_list[n].id = i /\ told[i] # g_device_list[n].people
       /\ ~g_device_list[n].flag /\ i \notin marked}
Strays ==
  \E t \in Threads :
    /\ reader[t].pc = "access" /\ reader'[t].pc # "access"
    /\ ~(InTable(t) /\ g_device_list[Accessed(t)].id = reader[t].instance)
MissedOnlyByStrays == [][(MissedIds' \subseteq MissedIds) \/ Strays]_vars

(* The refresh thread always comes to an end of its round: it waits for no *)
(* thread that waits for it, and gives both semaphores back.               *)
RefreshEnds == refresh.pc # "sleep" ~> refresh.pc = "sleep"
=============================================================================
