# TLA+ models of the BACnet/IP people-counter server

The program is a BACnet/IP server. It fetches people counters from a backend
over HTTP every two seconds and shows each of them as an Analog Input object
that BACnet clients read, search for and subscribe to. This directory holds
TLA+ models of its core logic, TLC configurations that check them on small
instances, and proofs that TLAPS checks for every value of the constants.

Paths below are relative to the repository's root.

    tlc -workers 2 -config MCTsm.cfg MCTsm     # check a model
    tlapm TsmProofs.tla                        # check proofs

## The system

Three threads and a restart thread share global tables (`main/server.c`,
`main/main.c`, `main/get_data.c`):

| thread | loop | semaphore |
|---|---|---|
| main | receive a datagram, dispatch it, run the timers each second | `server_sem` |
| COV | one sweep of `handler_cov_fsm` over all subscriptions, sleep 200 ms | `cov_sem` |
| refresh | sleep 2 s, fetch the sensors, update the list in place or rebuild it | both, only while it rebuilds |
| restart | restart the process when it is asked to | none |

What matters is what the semaphores do *not* protect: the COV thread and the
main thread hold different ones, so the subscription table, the address table
and the transaction table are shared without mutual exclusion; and the refresh
thread holds none while it compares and updates sensors in place, and none
while `object_init` rebuilds the object table.

### Inventory

| component | state | operations | hard part | what makes it correct |
|---|---|---|---|---|
| Transaction state machine, `src/tsm.c` | 5 slots (ID, state, timer, retries), the ID cursor | allocate an ID, set confirmed, tick, free, ask for free or failed | IDs wrap and skip; answers late, lost, duplicated; configuration rewritten while requests are pending | IDs unique, never 0, reused as late as possible; no slot leaks; retried as configured; every request ends |
| COV subscriptions, `main/handler/h_cov.c` | 2000 entries, 16 addresses, state and index of the sweep, one flag per object | subscribe, renew, cancel, expire, mark, clear, free, send | two threads; a slot of one table refers to the others; one flag for all subscribers of an object | tables agree, nothing leaks, one entry per context, no change is lost, each change is sent |
| Sensor list and object table, `main/get_data.c`, `main/object/ai.c`, `main/object/object.c` | sensors with a changed flag; instance-to-entry table; two counts | fetch, compare, assign, rebuild, `object_init`, validate, look up, read, clear | unlocked readers and writers; a rebuild that may fail | deletion only while readers are stopped; an access reaches the sensor it names; no change is lost |
| Server loops, `main/server.c` | the elapsed times, the semaphores | receive, dispatch, timers | what each timer is passed | timers see the time that passed; no deadlock |
| APDU dispatch, `src/apdu.c` | handler tables, timeout, retries | dispatch, route answers to `tsm_free_invoke_id` | an answer is matched by its ID alone | only answers to what is pending have an effect |
| Network layer, `src/npdu.c`, `main/handler/h_npdu.c` | one source address, kept from datagram to datagram | encode, decode, discard or pass on | two optional addresses and a hop count move what follows them | what is not addressed here is discarded; replies go back the way the request came |
| Address cache, `src/address.c` | one entry with flags and a time to live | bind, request, add, remove, age | none here: no linked module adds an entry | - |
| Broadcast management, `src/bvlc.c`, `main/handler/dlenv.c` | BDT (128), FDT (128), NAT address, own registration | register, delete, age, forward, distribute | forwarding loops; ages cast to 16 bits | every registered device hears each broadcast once; registrations expire |
| Device object, `main/object/device.c` | number, texts, status, revision | find, list, read, write | numbers narrowed to 16 and 8 bits; the list depends on tables that change | what is acknowledged is read back; names are unique; a list read in parts is the list |
| Other objects, `main/object/{ao,av,bi,nc}.c` | as the analog input | as the analog input | as the analog input | as the analog input |
| Property services, `h_rp.c`, `h_rpm.c`, `h_wp.c`, `h_wpm.c`, `h_rr.c` | none | read, write, one or several at once | segmentation is missing: replies must fit; several writes may half fail | an error names the first write that was not done; retries do no harm; a multiple read is its single reads |
| Discovery, `h_whois.c`, `h_whohas.c`, `h_iam.c` | none of its own | match limits and names, answer, bind | ranges; looked up another way than a read | answers exactly when asked, with what a read would find |
| Communication control, `src/dcc.c` | enabled state, seconds left | set, age | the timer is never called | ends after its duration |
| Datalink, `src/bip.c`; codecs, `src/bacdcode.c`, `bacapp.c`, `bacstr.c`, `datetime.c`, ... | socket; none | send, receive; encode, decode | lengths | decode inverts encode |
| Client services compiled but not used (`event.c`, `getevent.c`, ...) | none | - | - | - |
| Backend client, `main/request.c`, JSON | none | fetch, parse | may fail at any time | - |

`PROJECT.json` lists the same components with their status, the source lines
each definition stands for, and the hazards with the properties that cover them.

## Modules

    TransactionTable --+-- Tsm ------- MCTsm              TransactionTableProofs
                       |    |                                |          |
                       |    +---------------------------- TsmProofs     |
                       +-- Cov ------- MCCov                            |
                       |    |  CovContexts (abstract)                   |
                       |    +----------------------------------- CovProofs
                       +-- CovRace --- MCCovRace,         CovRaceProofs
    DeviceList ----------------------- MCDeviceList,      DeviceListProofs
    Bbmd ----------------------------- MCBbmd,            BbmdProofs
    Codec --+-- PropertyServer --+-- ReadMultiple --+     RequestProofs
            |                    +-- Discovery -----+      (PropertyServer,
            +-- NetworkLayer -----------------------+       NetworkLayer)
                                                    |
                                                Datagrams -- MCPropertyServer

`LeastElements`, facts on least numbers, is extended by
`TransactionTableProofs`, `DeviceListProofs`, `BbmdProofs` and `RequestProofs`;
`TransactionTableProofs` by `TsmProofs`, `CovProofs` and `CovRaceProofs`.

### TransactionTable

The functions of `src/tsm.c` as operators on a table (slot -> `[InvokeID,
state, RetryCount, RequestTimer]`) and the cursor `Current_InvokeID`. The loop
of `tsm_next_free_invokeID`, which skips IDs in use and wraps from `MaxInvokeId`
to 1, is `SkipDistance`: the least number of steps from the cursor to an unused
ID. `TimerMilliseconds` does all slots in one step, since the main thread does
them in one call and no step of theirs depends on another. The state is "IDLE"
or "AWAIT_CONFIRMATION"; the copy of the APDU and the destination are left out,
as nothing but the retransmission reads them.

### Tsm

The transaction table between its users: clients that behave like a confirmed
COV subscription (`sending` to `housekeeping`), the main loop, the network and
an operator who writes the timeout and retry properties of the Device object
(`device.c` 1285, 1294). Clients are external to `tsm.c`; they follow
`handler_cov_fsm` states FREE and SEND and the release of the expiry handler.
The history variables `sent`, `allowed` and `age` count transmissions, the
retries configured while a request was pending and the allocations since an ID
was last given out.

### Cov and CovContexts

`Cov` has the tables of `h_cov.c` (entries, addresses), those of `tsm.c`, the
sweep state and the flag of each object. One call of `handler_cov_fsm` handles
one entry and is one step; one call of `handler_cov_subscribe`, of the timers or
of `apdu_handler` is one step. These interleave freely, which is what the two
semaphores allow *between* calls. What they allow *inside* a call is `CovRace`.
The value of an object is not represented: `owed` remembers which
subscriptions have not been sent the current one.

`CovContexts` says what the service promises: contexts (subscriber, object,
process), their terms, and whether a notification is pending. Cov implements it
under the refinement mapping at the end of `Cov.tla`, by which a context is the
entry of its address slot, object and process.

### CovRace

The same two threads statement by statement: three flags of an entry are bits of
one byte, which an assignment loads and later stores; the other fields have
bytes of their own; the COV thread keeps a pointer into the address table from
the start of `cov_send_request` to the sending. A call of `tsm.c`, and a search
through a table, is one step; process identifiers and the clearing sweep are
left out, a lifetime ends at any time, and at most `MaxRequests` requests are
handled.

Nothing protects an entry that both threads are at. The properties say that
nothing else suffers: `overlap` collects the entries both worked on at once,
until a new subscription takes them, and `stray` the IDs reserved for such an
entry. Without these two exemptions each of the three properties fails, within a
few steps: the COV thread stores the byte it loaded before a cancellation, and
the subscription lives again; it notifies an entry that is marked valid and not
yet filled; it reserves an ID for an entry that was cancelled meanwhile. No
comment of the code claims otherwise, so that these are listed as hazards and
not as findings.

### DeviceList

The refresh thread statement by statement where it runs without a lock, and the
two other threads access by access: each access to an object validates its
instance, looks it up again and only then uses the index. `g_device_count`
stands for `g_device_list_count` and for the `object_count` that is set to it in
the same call. `memcpy` of a sensor is one step because the number and its
flag lie in the same 16 bytes. The refresh thread starts two seconds before its
first fetch, so it never runs before `Device_Init`.

### Bbmd

Several BBMDs, each of them this program, with their subnets and foreign
devices. A datagram to a BBMD is an element of `network` until `bvlc_receive`
handles it or it is lost; what hosts and foreign devices hear is counted at once
in `heard`, since they do not answer. `audience` remembers who has to hear a
broadcast: everybody, when all tables are complete as it is sent, and nobody as
soon as a table changes or a datagram is lost on the way. `promised` is what a
foreign device may conclude from its last registration. A broadcast on the own
subnet comes back to the BBMD's socket, which is bound to all addresses; the
program relies on it to hear what it distributes for a foreign device. For the
same reason BBMDs and foreign devices get some broadcasts twice (`NoStorm` says
never three times). A foreign device registers with one BBMD only.

### Codec, PropertyServer, ReadMultiple, Discovery

`Codec` has the encodings of `bacdcode.c`, `bacint.c`, `bacapp.c` and `bacreal.c`
as far as a property or a request needs them: a message is a sequence of octets.
`PropertyServer` has the device object and the handlers of ReadProperty,
WriteProperty and WritePropertyMultiple, `ReadMultiple` the one of
ReadPropertyMultiple, `Discovery` Who-Is and Who-Has, each from the octets of a
request to the octets of its reply.

A request is one step: the main thread holds the semaphore of the object table
from before it decodes a request until the reply is sent. What interleaves are
requests of several clients, the refresh thread's rebuild (`Rebuild`) and a
client that reads the Object_List element by element with the
Database_Revision before and after (`NextRead`, `Page`, `Finished`, `Restart`).
Clients send what the repository's own encoders make (`rp_encode_apdu`, ...), so
that requests are well formed, but for multiple writes that end after a second
object identifier; the decoders' errors are there and are reached by
values that do not fit and by segmented requests only. The clock stands still,
sensors never time out, the lists of the two other object types are empty, and
the first name and description are abbreviated.

The properties of handlers ask what *would* be answered in each reachable state,
for every request of a set; they are evaluated where no client is in the middle
of its list (`Quiet`), which leaves out no state of the device.

### NetworkLayer, Datagrams

`NetworkLayer` has the header of an NPDU, which NPDUs are handed on, and which
datagram a message becomes. `Datagrams` puts it around the handlers, with the
dispatch of `apdu_handler` and the headers of requests and replies, so that
`Serve` leads from a received datagram to those that are sent. A client has an
IP address, or that of its router with a network and a station behind it, and a
size of reply it takes.

## Runs

Every configuration gives small sets to the constants and checks deadlock.

| run | question | result |
|---|---|---|
| `tsm` | 2 clients, 2 slots, 3 IDs, 0 and 1 retries, lost, late and duplicated answers; the timer gets the elapsed time | IDs unique and reused late, no slot leaks, retries as configured, every request ends |
| `tsm_server` | the timer gets 0, as `server.c` passes it | a request never ends: finding |
| `cov` | 2 subscribers, 1 object, 2 entries, 2 addresses, 1 transaction, failing datalink | the three tables agree, nothing leaks; implements `CovContexts` |
| `cov_liveness` | 1 subscriber of 2 objects, 2 entries, 1 transaction, object lists that shrink and grow, a network that may lose everything | no change is lost between the sweeps; each is sent, the subscription ends, or others hold every transaction |
| `cov_shared_flag` | 2 subscribers of one object | a change is lost: finding |
| `cov_full_addresses` | more subscribers than addresses | a subscriber is acknowledged and can never be notified: finding |
| `cov_race` | 2 subscribers, 2 objects, 2 entries, 3 requests, statement by statement | what the semaphores leave open stays with the entry both threads are at |
| `devices` | 2 instances, a backend that adds, removes, swaps and omits sensors | rebuilds are exclusive, tables match between them, a change is missed only after an access went astray, the refresh thread ends its round |
| `devices_access` | accesses after the semaphores are released | an access to another sensor: finding |
| `bbmd` | 2 subnets, 2 hosts, 2 foreign devices with 2 entries, all masks of one kind | hosts hear once, nothing comes back, all hear it, registrations last as promised |
| `bbmd_masks` | as above, one mask of each kind | a host hears a broadcast twice: finding |
| `requests` | 27 writes, 6 multiple writes, 27 reads, 7 multiple reads, 4 ranges, 3 sensor lists, 4 clients with 10 requests each | writes, errors, retries, names, reads, searches, replies and paged lists, see below |

The properties of `requests`:

* `AcknowledgedWritesAreReadBack`: a write that is acknowledged is what is read
  afterwards, narrowed to the width of its variable; one that is not
  acknowledged changes nothing.
* `ErrorsNameTheFirstUnwritten`: an acknowledgement of WritePropertyMultiple says
  that each of its writes would be acknowledged and all are done; an error names
  a write, all before it are done, and it and all after it are not.
* `RetriesAreHarmless`: repeating a write whose reply was lost gives the same
  reply and the same device.
* `NamesStayUnique`: after any write no two objects have one name.
* `MultipleReadsAgree`: the answers of ReadPropertyMultiple are those of single
  reads, `ALL`, `REQUIRED` and `OPTIONAL` included, or the whole is aborted
  because it does not fit.
* `DiscoveryAgrees`: the device answers Who-Is and Who-Has exactly when asked
  for, and says of itself what a read would.
* `RepliesReachTheirClients`: see the theorem `RepliesGoBack` below, with the
  handlers in between; a reply is no longer than the client takes, echoes the
  invoke ID, and has the same octets for all clients that take it.
* `PagedListIsTrue`: a list read element by element between two equal revisions
  is the list, unless the sensors were rebuilt meanwhile.

Why the bounds are enough. In `tsm` two slots and three IDs make the cursor wrap
and skip both used and just freed IDs, with one more ID than there are slots.
In `cov`, two entries of two subscribers are the least with which a slot of an
address or a transaction can be taken from one by an operation on the other;
one transaction makes them compete. `cov_liveness` has two objects and one
transaction, so that one subscription waits for the other's. In `cov_race` three
requests are enough to subscribe, cancel and give the entry to another
subscriber while the COV thread is at it. In `DeviceList` two entries are the
least with which two sensors can swap. In `bbmd` two BBMDs show each way a
datagram can take (host to host over two BBMDs, foreign device to its own and to
the other subnet); with two entries and two foreign devices slots are freed and
reused in the other order. In `requests` the writes are at and around each limit
(1 and 2^22 - 2 for the number, 255, 256 and 65536 for the numbers that are
narrowed, empty, longest and too long texts); a name of 1459 octets is the
longest ReadProperty can return and makes ReadPropertyMultiple abort; replies
are limited to 50 and to 1476 octets; a revision of 2 leaves every sequence of
up to two renamings. Clients are on the server's subnet, and behind one router in
two networks with addresses of one, six and seven octets.

Unbounded quantities are bounded by named constants: `MaxRetries`, `Timeouts`
(Tsm), `Lifetimes`, `ElapsedSeconds` (Cov), `MaxRequests` (CovRace), `People` and
`Replies` (DeviceList), `TimesToLive` and `ElapsedSeconds` (Bbmd), `MaxRevision`
(PropertyServer). `cov` and `cov_race` use symmetry of the two subscribers; runs
with liveness properties use none.

`cov_liveness`: two confirmed subscriptions that compete for one slot are not
both served, as the one earlier in the table may take it in each sweep; hence
"others hold every transaction".

## Fairness

* `Tsm`, `Cov`: weak fairness of the COV thread and of the timer. Both are loops
  without a blocking call other than the semaphores, which the refresh thread
  always gives back (`RefreshEnds`). Nothing is assumed of the network: answers
  may all be lost.
* `DeviceList`: weak fairness of each thread; strong fairness of the refresh
  thread's `sem_wait`, since the others release and take their semaphore again
  and again: the main thread blocks in `datalink_receive` without it, and the
  COV thread sleeps 200 ms without it. Strong fairness of `MainRelease` says a
  request has an end. The backend does not refuse for ever.

## Proofs

`LeastElements`, `TransactionTableProofs`, `TsmProofs`, `CovProofs`,
`CovRaceProofs`, `DeviceListProofs`, `BbmdProofs` and `RequestProofs` are checked
by `tlapm`. They assume the named assumptions of the modules (`TableAssumption`,
`TsmAssumption`, `CovAssumption`, `DeviceListAssumption`, `BbmdAssumption`,
`SensorListsAreLists`, `RequestsAreOctets`), which TLC evaluates in every run. Some theorems have a hypothesis of their own, each
of which a run shows to be needed:

| hypothesis | what it says | without it |
|---|---|---|
| `RoomForAll` (`CovProofs`, `CovRaceProofs`) | there are no more subscribers than address slots; the program has 16 | `cov_full_addresses`: a subscription nobody can be notified of |
| `OneSubscriber` (`CovProofs`) | one address and one process, so that an object has one subscription | `cov_shared_flag`: a change is lost for the second |
| `OneKindOfMask` (`BbmdProofs`) | the distribution tables agree on unicast or broadcast masks | `bbmd_masks`: a host hears a broadcast twice |
| `SensorsAreDistinct` (`DeviceListProofs`) | no reply of the backend names a sensor twice | with `<<One(1, 0), One(1, 1)>>` among the replies of `devices`, `MissedOnlyByStrays` fails: the second entry is never compared again, and a table that still leads to it hides all later changes |

| theorem | property | what it rests on |
|---|---|---|
| `TransactionTableProofs!NextFreeInvokeIdIsFree` | the allocator ends and returns an unused ID | fewer used IDs than IDs while a slot is free (pigeonhole), a least distance |
| `TsmProofs!Typing`, `InvokeIdsAreUnique`, `FreeSlotsStayIdle`, `SlotsNeverLeak` | `TypeOK`, `UniqueInvokeIds`, `FreeSlotsAreIdle`, `NoSlotLeaks` | each other, and the theorem above |
| `TsmProofs!TransmissionsAreBounded`, `NothingIsGivenUpEarly` | `BoundedTransmissions`, `GivesUpAfterAllRetries` | `RetryCountIsExact` |
| `TsmProofs!IdsReturnLate` | `IdsAreReusedLate` | `AgesDiffer`, `FewAreOlder`, the least distance |
| `CovProofs!Typing`, `AddressesStayConsistent`, `AddressesStayUnique`, `TransactionsNeverLeak`, `IdsBelongToConfirmed` | `TypeOK`, `AddressTableConsistent`, `UniqueAddresses`, `NoSlotLeaks`, `OnlyConfirmedHaveIds` | each other, and `PendingHaveIds` |
| `CovProofs!ContextsAreImplemented`, `SubscribersHaveAddresses` | `ImplementsContexts`, `EverySubscriptionIsAddressed`, with `RoomForAll` | `OnePerContext`, `OwedAreValid`, `ContextsAreNamed` |
| `CovProofs!ChangesAreNotMissed` | `NoChangeIsMissed`, with `OneSubscriber` | the same, and the property itself |
| `CovRaceProofs!TransactionsStayHeld`, `NotificationsStayTrue` | `TransactionsAreHeld`, `NotificationsAreTrue` | `WorkIsDone`, `LoadsAreCurrent`, `EveryIdIsKept`, `DroppedIdsAreFree` |
| `CovRaceProofs!EntriesStayAsAsked` | `EntriesAreAsAsked`, with `RoomForAll` | the same, and `EntriesAreSettled` |
| `DeviceListProofs!Typing`, `RequestsSeeAFilledList`, `ObjectsAreTheSensors`, `SensorsAreDeletedWhenStopped` | `TypeOK`, `NeverEmptied`, `ObjectsMatchDevices`, `DeletesOnlyWhenStopped` | `Exclusion`, `ListIsFilled`, `Progress`, `KeysAreWritten` |
| `DeviceListProofs!ChangesAreMissedOnlyByStrays` | `MissedOnlyByStrays`, with `SensorsAreDistinct` | the same, and `IdsAreDistinct`, `FlagsAreKept`, `MarkedBeforeCleared` |
| `BbmdProofs!Typing`, `RegistrationsLast` | `TypeOK`, `RegisteredAsPromised` | each other |
| `BbmdProofs!NoDuplicates`, `NothingReturns` | `HostsHearOnce`, `NoEcho`, with `OneKindOfMask` | `Forwarding` |
| `BbmdProofs!ForwardingEnds` | `NoStorm`, whatever the masks | `Pacing` |
| `BbmdProofs!BroadcastsReachEveryone` | `EveryoneHears`, with `OneKindOfMask` | `Pacing`, `Listening` |
| `RequestProofs!NamesAreNotTaken`, `RetriesDoNoHarm` | `NamesStayUnique`, `RetriesAreHarmless` | `ServingIsInductive`, `SameOutcome`, `RoundsAre` |
| `RequestProofs!UnsignedRoundTrip`, `SignedRoundTrip`, `ObjectIdRoundTrip`, `TagRoundTrip` | numbers of 32 bits, object identifiers and tags are decoded from what they are encoded in | sums of octets, positions in sequences |
| `RequestProofs!NpduRoundTrip`, `RepliesGoBack` | headers are decoded to what was encoded; a reply goes to the router of the client, for its network and station | positions in sequences |

The argument, module by module. Each inductive invariant was checked by TLC on
the runs of its module before it was proved.

* **Tables.** `tsm_next_free_invokeID` loops until it meets an unused ID. That
  it ends is `SomeIdIsFree`: the used IDs are the image of the occupied slots,
  and there are fewer of these than IDs. That the *first* such ID exists is
  `LeastNatural`, which follows from the well-foundedness of strict inclusion
  on finite sets (the induction theorem of the library cannot be used, as it
  takes an operator).
* **Tsm.** The inductive invariant is `TypeOK`, `UniqueInvokeIds`,
  `FreeSlotsAreIdle`, `NoSlotLeaks` and `RetryCountIsExact`. The last ties the
  retry counter of a pending slot to the history variables `sent` and `allowed`,
  without which nothing could be said of a request at the moment it is given up.
  How late an ID returns is a pigeonhole argument: no two IDs have one age below
  `Window` (`AgesDiffer`), and of those that are further ahead of the cursor
  than an ID but were handed out before it there are fewer than slots, as
  the cursor skipped each of them because it was in the table (`FewAreOlder`).
  When an ID is handed out, those that were handed out since and those that
  were skipped are all the others.
* **Cov.** `NoSlotLeaks` is not inductive alone: a slot is freed on behalf of
  the subscription that holds its ID, which has to be confirmed
  (`OnlyConfirmedHaveIds`), and a slot that waits has to have an ID
  (`PendingHaveIds`). `AddressTableConsistent` needs `UniqueAddresses`, since
  `cov_address_add` finds a slot by its address. The refinement needs that a
  context has one entry (`OnePerContext`), which rests on the uniqueness of
  addresses; that every entry names a context (`ContextsAreNamed`), which is
  where `RoomForAll` comes in; and that nothing is owed to a free entry
  (`OwedAreValid`). Then `Subscribe`, `Cancel`, `TimerSeconds` and the sendings
  are steps of `CovContexts`, an allocation without a sending and the marking
  are stutters.
* **CovRace.** The invariant says of each statement of either thread what it may
  rely on. `WorkIsDone` gives, for each rest of a main thread's program, what
  its statements so far have made of the entry; `LoadsAreCurrent` that what the
  COV thread loaded is still there; `EntriesAreSettled` what an entry is in
  between. Each of the three is only claimed of entries both threads were not
  at, and `OverlapsAreSeen` is what lets one thread's step leave the other's
  claims alone. `EveryIdIsKept` is claimed of *all* entries: an ID the COV
  thread does not have in hand is in an entry that stays confirmed, in memory
  and in whatever byte is about to be stored there, and that no statement will
  give another ID.
* **DeviceList.** `Exclusion` says at which statements each thread holds each
  semaphore; `ListIsFilled` that only the rebuild has empty entries; `Progress`
  how far each loop of the refresh thread is, and that the sensor it is about to
  write is in the list; `KeysAreWritten` that the table leads into the list.
  `ObjectsAreTheSensors` needs `Progress` for the loop of `OBJECT_INIT`. That
  changes are missed only by strays needs to be known where the refresh thread
  writes back a flag it read before: `FlagsAreKept` says that a flag it read as
  cleared still is, as only the COV thread clears flags and an access that goes
  where it should reaches the entry of its own sensor (`IdsAreDistinct`,
  `MarkedBeforeCleared`).
* **Codec.** A number below 2^32 is the sum of its octets times their weights;
  which of the four lengths the encoder takes decides only which weights are
  zero. A tag is decoded from the octets at its start, found by their position in
  the message, whatever follows (`FieldsAreFound`, `TagIsRead`).
* **PropertyServer.** The two theorems hold for requests of any octets, so that
  nothing is used of how they are decoded but that it depends on the octets
  alone. Whether a write is accepted depends on the device only through its
  number and, for a name, through the names of the sensors
  (`SameNamesAreAccepted`). So two devices that are `Alike` accept the same
  writes and become alike (`SameWrite`), the loops of WritePropertyMultiple stay
  at the same place on both (`InStep`, `RoundInStep`), end for the same reason
  (`SameOutcome`), and leave every property equal or as it was (`EqualOr`).
  A retry is the case where the second device is what the first execution left.
  The loops are a recursive function of the number of rounds; that there is a
  function with that recursion (`RoundsAre`) is proved from its finite beginnings
  (`RunsExist`, `RunsAgree`).
* **Network.** Each part of a header is read as what was written, if it is there,
  and leaves the rest (`SpecifierIsRead`); the control octet says which parts
  there are (`ControlBits`); a request and its reply are two round trips.
* **Bbmd.** `RegisteredAsPromised` is inductive with the types. `HostsHearOnce`
  is not: it needs to be known of each datagram where it can still be heard.
  `Forwarding` says that one no BBMD has taken up is the only one of its source
  and was heard on no other subnet, and that one to be broadcast again comes
  from the first BBMD and was not heard on the subnet it goes to. `Pacing` does
  the same without the masks: a datagram another BBMD forwarded finds its
  receiver and the receiver's foreign devices without having heard the
  broadcast, and one a BBMD sent to itself finds that they heard it at most
  once. `Listening` is the converse: whoever has to hear a broadcast has heard
  it, or a datagram on its way leads there (`Reaches`), and the tables are
  complete for as long as nothing disturbed it.

What stays with TLC:

* liveness (`EveryRequestEnds`, `RefreshEnds` and the like), as fairness and
  `ENABLED` are beyond the prover;
* what depends on a request being decoded to what its client meant (`TypeOK`,
  `AcknowledgedWritesAreReadBack`, `ErrorsNameTheFirstUnwritten` and
  `PagedListIsTrue` of `PropertyServer`): numbers, identifiers and tags are
  proved to be decoded from what they are encoded in, whole requests are not;
* the properties of `ReadMultiple`, `Discovery` and `Datagrams`: a module that
  reaches a `RECURSIVE` operator cannot be proved about.

## Findings

1. `server.c:130`: `elapsed_milliseconds` stays 0, so that `tsm_timer_milliseconds`
   never counts down. A confirmed notification whose answer is lost blocks its
   subscription and one of five transaction slots for ever (`tsm_server`).
2. `h_cov.c:391,414`: `cov_list_subscribe` stores the -1 of a full address table
   and acknowledges the subscription (`cov_full_addresses`).
3. `h_cov.c:657`: the flag of an object is cleared for all its subscribers on
   behalf of one that is to be sent (`cov_shared_flag`).
4. `get_data.c:286-288`: `object_init` runs after both semaphores are released
   (`devices_access`).
5. `bvlc.c:1254`: whether a forwarded message is repeated on the subnet is read
   from the mask of the sender, not from the BBMD's own (`bbmd_masks`).

## Known divergences without a run

Met while modelling, with the code's behaviour in the models:

* A segmented WritePropertyMultiple is acknowledged with nothing written, though
  `h_wpm.c:51-55` says it is aborted.
* The encoder of WritePropertyMultiple loses the priority of a write.
* -8388608 takes four octets where three would do (`bacdcode.c:1397`).
* The value in a COV notification of an Analog Input is tagged ENUMERATED; a read
  of it is REAL.
* The address cache never gets an entry, so that `I-Am` has no effect.
* A rebuild of the sensors does not change the Database_Revision.
* Both threads encode into `Handler_Transmit_Buffer`.
* A text with an embedded zero octet is read back up to it.
* ReadPropertyMultiple of `ALL` of an object type there is none of gives an empty
  list, though the comment in `h_rpm.c` says so of `OPTIONAL` only.
* Who-Has for an input that is not in the table looks its name up at index -1.
* A confirmed request that arrives as a broadcast of the datalink, without the
  broadcast network in its header, is executed and answered.

## Not modelled

Log files, HTTP, JSON and sockets are external. Of the hazards in
`PROJECT.json`, eight have no property, with the reason given there; one of
them, an ID of an answered notification that goes to another subscription,
takes more than 255 answers within one sweep, which no instance TLC can take
shows.

The definitions stand for about a ninth of the repository's lines. Most of the
others are no part of the running program. Of the 236
files, `src/` is a library of which this server links a part: `event.c`,
`getevent.c`, `alarm_ack.c`, `arf.c`, `awf.c`, `ptransfer.c`,
`timesync.c`, `rd.c`, `dcc.c` and the client side of each service are compiled
and never called, since their handlers are not registered; `address.c` works on
a table that stays empty; `bactext.c` and `proplist.c` are tables of names and
numbers; `include/` is declarations; a quarter of the
library is test code that the build leaves out; `main/cJSON.c` is a vendored parser. Models of
these would be models of code that does not run. What does run and is left out:
ReadRange, whose only list is the address cache; the list of active COV
subscriptions; the encoding of notifications and what is done with those of
others (nothing); the objects `ao`, `av`, `bi` and `nc`, of which there are none.

## Plan

Done: everything under "Modules". Worth doing next:

1. The round trip of a whole WriteProperty and ReadProperty request from the
   round trips of its parts, and with it `TypeOK`, `AcknowledgedWritesAreReadBack`
   and `PagedListIsTrue` as theorems.
2. The encoding of notifications and their delivery through `NetworkLayer`,
   composed with `Cov`.
3. The refinement of an abstract service by `CovRace`, for entries without
   overlap.
