# Formal model of the EZIOT SDK

TLA+ specifications of the parts of the EZIOT SDK that are hard to test: the
state machine that brings a device online, the API and thread on top of it, the
way of a message to the cloud and of its receipt back, the synchronisation of
properties, the download of upgrade packages, the sub-devices of a hub and the
profiles of the thing model.  TLC checks every module on small instances.  TLAPS
proves every safety property that the runs check, the refinement of the link's
contract included, for any numbers of servers, messages, properties, packages,
devices and versions and any limits; liveness is left to TLC.

Paths below are relative to `src/` of the repository; `microkernel` and
`ez_iot_sdk` are the two layers of the SDK.

## 1. The system

### 1.1 Components

| component | state it keeps | operations | what makes it correct |
|---|---|---|---|
| access state machine (`microkernel/src/ezdev_sdk_kernel_access.c`) | `cnt_state`, `entr_state`, retry counters, back-off timer, `access_risk` | `kernel_yield` → LBS re-direction, DAS registration, work, reconnection; `stop_yield` | registered implies logged in with the session in use; credentials of one server; the user is told; retries end; a banned device stays off |
| life cycle (`ezdev_sdk_kernel.c`) | `my_state`, the global `g_ezdev_sdk_kernel` | init, start, stop, fini, yield, yield_user, send, set_net_option | calls in any order leave a kernel that can be used or restarted |
| LBS transport (`lbs_transport.c`) | master key, session key, device id, DAS address; the first and third saved in flash | three authentication exchanges | the stored key is the one in use |
| DAS transport and MQTT client (`das_transport.c`, `paho.mqtt.embedded/MQTTClient.c`) | one MQTT connection, message handlers | login, subscribe, publish and wait for PUBACK, yield | a handler runs re-entrantly inside every wait; publishes are bounded and ordered |
| access domain bus (`access_domain_bus.c`) | none, writes the kernel's | domain configuration, risk configuration, forced offline, re-direction, keep-alive | a command is obeyed whatever the kernel was doing |
| risk control (`ezdev_sdk_kernel_risk_control.c`) | three risk tables | set, check access / domain / command | forbidden messages are not sent |
| events and queues (`ezdev_sdk_kernel_event.c`, `ezdev_sdk_kerne_queuel.*`) | five bounded FIFO queues | push, push at the head, pop, broadcast | nothing lost without a trace, order kept |
| extend modules (`ezdev_sdk_kernel_extend.c`) | tables of modules | deliver one event, one message, one v3 message a round | each receipt reaches its module once |
| ez_iot API (`ez_iot_sdk/src/ez_iot.c`, `ez_iot_yeild.c`, `ez_iot_ctx.c`) | `status`, `g_running`, the yield thread | init, start, stop, fini, bind; event and message routing | one thread drives the kernel; status says what is so |
| shadow (`component/shadow`) | per property need_report, timer, outstanding message, cached value; per resource need_sync; three flags, a status | register, push, set, report, receipt, query | what the device last set reaches the cloud |
| OTA (`component/ota`) | two download slots, resume offset, status, quit flag | init, deinit, download, download thread, notify and file callbacks | what is reported as downloaded is whole; a resumed download has no gap; every package is reported; a shut-down module calls nobody |
| hub (`component/hub`) | list of sub-devices in flash, `g_unauth_count`, retry timer | add, delete, clean, update of version and status, authentication and its answers, list and status reports | the platform's relation list is the hub's; authenticated devices are registered with the thing model; those unauthenticated are asked again |
| TSL (`component/tsl`) | list of registered devices, profiles in flash (TSLMAP and a file per handle) and in RAM, download thread | register, unregister, query, download, store and load a profile | a device gets the profile of its version, and gets it in the end |
| connect adapter | none | convert values between thing model and shadow | conversions |
| `ez_protocol.c` | binding id | build and parse request bodies | formats |
| AP provisioning, HTTP server and client, logger, time, timers, `ez_hal`, FlashDB, bscJSON, ezxml, mbedtls | | | platform and vendored code |

### 1.2 Interactions

    application --- ez_iot_init/start/stop/fini, push ---> ez_iot, shadow, OTA
         ^                                                    | kernel_send(_v3)
         | callbacks                                          v
    ez_kernel_yeild_thread --- kernel_yield ----> access state machine
         |                                          | cycle(): re-entrant
         |                                          v
         |                     LBS / DAS <---> MQTT client --> access domain bus
         '----- kernel_yield_user <-- event queue <-- broadcast_*

* One thread drives the kernel: it alternates `ezdev_sdk_kernel_yield` and
  `ezdev_sdk_kernel_yield_user`.  Start, stop, init and fini are called by the
  application's thread.
* Any thread may call `ezdev_sdk_kernel_send`, `_send_v3` and
  `ezdev_sdk_kernel_set_net_option`; only the queues have a lock.
* While the driving thread waits for SUBACK, PUBACK or UNSUBACK, `cycle()`
  delivers whatever arrives, and a platform command rewrites the state of the
  function that is waiting.
* Results come back as events: through a bounded queue, to `ez_iot_yeild.c` and
  to every module, on the driving thread.
* The shadow has a thread of its own that sleeps on a semaphore.
* OTA and TSL start a thread when there is something to download, which ends when
  nothing is left; the hub asks again from a timer's thread.
* The hub registers its sub-devices with the thing model and deletes their
  profiles, under its own lock.

### 1.3 What is hard

Re-entrant commands; unlocked check-then-store; retries and re-directions
sharing counters; a queue whose producer is also its only consumer; events that
outlive the session they tell of; a stop that waits for a thread; power loss
between two writes; flags read before a lock and cleared under it; a semaphore
that forgets a post; threads that end while they are given work; a list walked
while others delete from it; flash read, changed and written back by three
threads.  `PROJECT.json` lists each with its line and the property
that is about it.

## 2. Modules

| module | models | extends |
|---|---|---|
| `KernelAccess` | access state machine, life cycle, login, platform commands | |
| `LinkContract` | what the kernel promises about the link (abstract) | |
| `KernelAccessRefines` | refinement mapping from the first to the second | `KernelAccess` |
| `KernelAccessProof` | proofs | `KernelAccessRefines`, `TLAPS` |
| `IotSession` | ez_iot API, yield thread, event queue, flash, power loss | `KernelAccess` |
| `IotSessionProof` | proofs | `IotSession`, `KernelAccessProof` |
| `KernelSend` | publish queues, retries, receipts, stop and restart | |
| `KernelSendProof` | proofs | `KernelSend`, `TLAPS` |
| `ShadowCore` | property synchronisation: application, yield thread, shadow thread | |
| `ShadowCoreProof`, `ShadowWakeProof` | proofs | `ShadowCore`, `TLAPS` |
| `OtaDownload` | slots, download thread, retries and resume, callbacks, init and deinit | |
| `OtaDownloadProof` | proofs | `OtaDownload`, `TLAPS` |
| `HubDevices` | sub-devices: list in flash, authentication, reports, retry timer, restart | |
| `HubDevicesProof` | proofs | `HubDevices`, `TLAPS` |
| `TslProfile` | profiles: registration, download thread, flash, URLs, power loss | |
| `TslProfileProof` | proofs | `TslProfile`, `TLAPS` |
| `MC*` | TLC instances | |

### 2.1 KernelAccess

State is what `g_ezdev_sdk_kernel` keeps, under its names, with data reduced to
what decides: a master key, a session and a login are represented by the server
they belong to (`NoServer`: empty or none), the device id by whether there is
one.  `pc` is where the driving thread waits for packets; `opt` is a thread
inside `set_net_option(3)` between its check and its store; `told` is the last
connectivity event broadcast.

Each action is one call of the code up to its return, or up to the point where
it waits for a packet during which a handler may run: `cnt_das_reg_do` is
`cnt_das_reg_login` (to CONNACK) then `cnt_das_reg_done` or
`cnt_das_reg_unsubscribed`; `cnt_das_work_do` and `kernel_stop` are split the
same way.  A reconnection has no such wait (`das_light_reg` does not subscribe)
and is one action.  A CONNECT is sent before any packet is dispatched, so no
command can arrive during it.

`das_mqttlogin2das` may do two logins (the platform still has the session: fast
registration), which end alike and are one.  `lbs_redirect_times` only scales a
back-off; the model keeps whether it is zero.  A yield whose timer has not
expired is a stuttering step.

### 2.2 LinkContract

Five variables: running, link (down, up, broken), moving, banned, said.  It says
which changes are announced and which happen silently.  A link comes up only
with `online`, `switchover` or `reconnect`; registration happens only when
nobody believes the link to be up; a link that is given up is announced; a
banned kernel neither resumes nor gives up.  `KernelAccessRefines` reads it off
`KernelAccess` and TLC and TLAPS check that every step is a step of the contract.

`DeviceSpec` is the contract of the whole device.  It adds a loss of power, and a
start that is announced and taken back because its thread could not be created.

### 2.3 IotSession

Adds the application's thread (`app`), the yield thread (`thread`), `status`, the
event queue and what survives a power loss: the master key in the key store, and
the device id and server name the application saved.  `Yielding` wraps every
step of `kernel_yield` with the events it broadcasts.  A power loss may come at
any step, also between the two writes of `save_key_value`.  When the thread cannot be
created `ez_iot_start` stops the kernel again, all in one call and one action; a
blacklisted kernel refuses, stays started, and `status` says ready either way.

Waiting in the back-off lasts at least a second, a hundred rounds of the thread,
and one event is delivered a round: the guard of `Yielding` says that the queue
has been emptied when the next attempt is made.  `BacklogBounded` relies on it.

### 2.4 KernelSend

Two queues, the message in hand, the event queue, and for each message its
number of publishes, its receipts and, if it ended without one, why: cleared by
stop or fini, no room when it was put back, or its receipt found the event queue
full.  Of the link only whether it is registered remains.

### 2.5 ShadowCore

Three threads and what they share: the three flags (one set), `g_shadow_status`,
the semaphore, the nodes.  `pc` is where the shadow thread is: at the top of its
loop (`rest` after a complete round), waiting, before and after the flags are
read, in a walk, before the status is stepped.  A walk holds the mutex and is one
action; which timers have expired, which callbacks deliver a value and at which
property a send fails are its inputs.  `app` and `kernel` say what the call of
the application and the callback of the yield thread have still to do, since both
raise a flag and post the semaphore in separate steps.

Of a report on its way the model keeps whether its sequence number is the
`msg_seq` of the node and whether its value is the present one.  `settled` and
`owed` are ghosts: properties the platform in charge knows (or that had no
value), and a switch of platform the shadow thread has not acted upon.  `owed` is
needed: `check_status_update` may clear a `g_need_reset` it has not seen.

`SemKeepsPost` tells the ports apart: FreeRTOS keeps a post (TRUE), Linux and
mt7688 set `num` to 0 and wait on the condition variable (FALSE).  The
application's registration and push are whole; `shadow_core_stop` and the
deletion of a domain are not modelled, nothing calls them.  Of several resources
and domains one is modelled: a walk treats them alike.

### 2.6 OtaDownload

Two threads, the one that calls `ez_iot_ota_download` and the one that downloads,
share the slots, `g_download_status` and `g_quit` without a lock: the call is cut
where another thread may look (`total_size` before the URL; the thread before
the status), the download at every request, read, test of `g_quit` and callback.
The application's `init`, `deinit` and the kernel's `fini` come at any time.
`offset` is what `file_download` resumes at, `hashed` where its digest started.
`told`, `saved` and `late` are what the callbacks were given.  A package is
`Blocks` pieces; the length of the answer is modelled by whether the request
asked for what is missing.

### 2.7 HubDevices

The list is one value in flash, so every section under `g_hlock` is one action and
what follows its unlock is another (`app`, `yt` and `tm` say where each of the
three threads is). `asked` counts requests without an answer: answers come late,
for devices deleted meanwhile, or, when a device was asked about twice, one after
the other (`AskMax` is 1 in the run, so that only the theorems cover this). `plat`
is the relation list the platform has; `stale` says that a report was lost or the
device restarted, after which it may differ until the next report. `held` is the
lock `hub_clean_do` leaves behind when it cannot erase the list. `hub_func_init`
is a restart at any step.

### 2.8 TslProfile

A profile and its handle are represented by the version they belong to, so that a
wrong profile shows.  `Without` is a list from which the first entry of a serial
has gone.  `known` and `file` are flash; `copy` is the copy of TSLMAP
each of two threads works on between its read and its write (`Met` has the files a
save finds: without a TSLMAP they are removed before it writes, 1673); `thr` is where
`ez_profile_get_thread` is, `job` its copy of the entry it serves, `dangling`
that the entry has been freed.  `reg` is the registering thread, which the hub
runs one call at a time; `url` is the yield thread between the two sections of
`ez_iot_tsl_adapter_profile_url`.  What the code reads through a dangling pointer
may be any version.

`OwnProfile` speaks of executions in which no device changed its version and none
was removed while the thread had it in hand (`upset`), `Served` of a device that
waits while the thread looks for work: outside these the code breaks them, see
section 5.

## 3. Runs

| run | shows | instance |
|---|---|---|
| `access` | safety, ban, contract; a broken link is resolved; a started device gets registered | 2 servers, limits 2 and 1 |
| `access_redirect` (violation) | a re-direction inside `das_yield` is overwritten by the broken link found in the same call; the device reconnects at its former server | same |
| `session` | threads, queue and flash agree; `ez_iot_stop` returns; online is reached and heard of | 2 servers, 2 starts, 1 power loss |
| `session_stale` (violation) | an old online event after a restart | 2 starts |
| `send` | one place, attempts, order; every message ends | 3 messages, queues of 2 and 3, 1 start |
| `send_receipt` (violation) | a retried message vanishes | queues of 1 and 3 |
| `shadow` | nothing unreported is forgotten, no receipt settles a newer value, the thread does not sleep over work; every value gets through, queries do not hold up reports | 1 property, 2 reports on their way, 1 retry, 3 calls, events or data in |
| `shadow_wakeup` (violation) | the thread sleeps over a change | same, Linux semaphore |
| `ota` | a package reported is whole, resumed without gap; status and quit flag are heeded; packages are reported | 3 packages, one damaged, of 2 pieces, retries 1, 0 and 2, 2 initialisations |
| `ota_again` (violation) | a package that was accepted is never heard of | same |
| `hub` | relation list agrees with the list, authenticated devices are registered with the thing model, the counter covers the unauthenticated; walks end while devices are deleted | 2 devices, 2 versions, 2 additions, 1 update, 1 request unanswered |
| `tsl` | a device counted as loaded has its profile; a waiting device is served | 2 devices, 2 versions, 2 calls, 1 early answer |

Bounds.  Two servers suffice for everything that depends on keys or sessions of
different servers: one assigned, one former.  The retry limits 5 and 3 become 2
and 1, different, so that each is met by one state machine and exceeded by the
other.  Publish queues of 16 become 2 and 1, so that they are full with the
messages of the instance; the event queue of 64 becomes 8, which
`BacklogBounded` shows is never reached in `IotSession`, and 3 in `KernelSend`,
where it is full.  The number of attempts of a message is the 2 of
the code.  `StartMax` (restarts) and `CrashMax` (power losses) bound counters
that have no bound in the code.  `send` has one start and one stop: that the safety
properties survive a restart is what the theorems say, for any `StartMax` (the
invariants of `MCKernelSend.cfg` alone also pass with `StartMax = 2`, in 2.8 million
states; with `Settles` that instance is too large).

In `ShadowCore` `FlightMax` is two reports of a property without receipt, one
superseded and one awaited, and the publish queue full with them; `RetryMax` 1
instead of 3 queries; `NewsMax` bounds calls and events.  Properties meet only in
the result of a walk, which one property shows already (waiting, failed, done);
safety was also checked with two properties and symmetry, where a failed report
keeps the other property from its turn, and is proved for any number.

In `OtaDownload` a third package is one more than there are slots; two pieces give
a piece before and one after a lost connection; `InitMax` 2 is a shut-down and a
new start.  In `HubDevices` two devices are one to delete and one to stand on in a
walk; `AskMax`, `UpdMax` and `AddMax` bound what has no bound in the code, and
`ListMax` 2 stands for
`COMPONENT_HUB_SUBLIST_MAX`, so that the list can be full.  In `TslProfile` two devices share a
profile or have one each; `OpMax` counts registrations, removals, updates and
power losses (safety alone was also checked with 3); `EarlyMax` bounds how often an
answer is noted between the thread's look at a device and its own note.

Deadlock is not checked where the cfg says so: once banned and uninitialised a
device cannot be used again before a power cycle; the application or the hub may
stop calling OTA and TSL, and then nothing is left to do.

Fairness.  `LiveSpec`: the thread that calls `kernel_yield` keeps calling it
(`ez_kernel_yeild_thread` is a loop) and the back-off timers expire; nothing is
assumed of the application, the platform or the network.  An LBS round refused
again and again changes nothing, so that only `NetFairness` speaks of it.  `NetFairness` and
`SNetFairness`, hypotheses of `Recovers` and `OnlineHeard`, add strong fairness of
the successful network steps: a request that
is made again and again is eventually granted.  They are needed, since no
program gets online through a dead network.  A refused key or device id is
included, for the platform does answer.  `SLiveSpec`: the operating system runs
both threads.  `KernelSend!LiveSpec`: the same, and a link that is not broken
for ever each time just before a message is taken.  `ShFairness`: the threads run
and the kernel is done with every report (`Settles`).  `Quiet` and
`ShNetFairness`, hypotheses of the liveness of `ShadowCore`: nothing new happens
and the device stays online; a report attempted again and again is sent; of
reports repeated for ever some get their receipt before they are repeated, for a
receipt that comes later than `MINIIMUM_RETRY_INTERVAL` no longer matches and the
property is reported once more.  `OtaLiveSpec` and `HubLiveSpec`: the threads get
processor time and their calls return; nothing of the server or the platform.
`TslLiveSpec`: the threads run, and a query, a download, an answer and a write of
flash that are possible again and again succeed in the end.

Every property has a mutant: a definition of the same module that is wrong in
the way a slip in the code would be (its comment says which), and that breaks
the property.

## 4. Proofs

`KernelAccessProof` proves, from `NoServerAssumption` and `RetryAssumption` only
(the empty name is no server, the limits are naturals):

* `AccessInvariant`: `Spec => []AccessInv`.  `AccessInv` is the type invariant,
  the four safety invariants, and `ControlInv`, which none of them gives: what a
  waiting thread implies of `my_state`, and what `cnt_state` and `logged` still
  are under a `pc` during which other actors assign `cnt_state`.  Without it
  `RegedMeansLoggedIn` is not inductive, `cnt_das_reg_done` registers
  whatever `cnt_state` has become, so the login must be known to be current.
  One lemma per actor shows that its actions keep the invariant, one step per
  action; the theorem puts them together.
* `TypeCorrect`, `RegedMeansLoggedInThm`, `RegistersWithFreshSessionThm`,
  `CredentialsMatchThm`, `UserWasToldThm`: its conjuncts.
* `BannedNeverLogsInThm`: the action property, from the same invariant.
* `KernelImplementsContract`: initial states map to initial states and each
  action, under `AccessInv`, to a step of `LinkContract` or to a stutter.

`ShadowCoreProof` proves, from `ShadowAssumption` only (no property is called
`NoKey`, the limits are naturals), for either semaphore:

* `NothingForgotten`: `ShSpec => []ReportedOrDue`.  It is not inductive: a
  receipt settles a property, so it must be one of the present value.
  `AwaitedIsCurrent` says so of every report on its way, and `ShadowInv` joins
  both with the type invariant.  What makes it true is that
  `shadow_core_propertie_changed` sets `msg_seq` to 0, that `do_report` gives a
  node the number of its newest report, and that a receipt is matched with it;
  a change of platform is remembered in `owed` until the thread sees the flag.
* `ShadowTypeCorrect`: among others `retry_count` never exceeds `RetryMax`.

`ShadowWakeProof` proves `NeverSleepsOverWork`, `ShSpec => []AsleepOnlyWhenDone`,
from `SemKeepsPost` (without it `shadow_wakeup` shows the contrary).  `WakeInv` says
why: a property unsent after the last walk of a round, and a flag the thread is not
about to look at, have a post kept or still to come.  Every step of the other
threads ends with a post or owes one; the shadow thread takes a post only before it
looks at everything again, and a walk that lets the round go on leaves nothing
unsent.  It is inductive together with `ShadowInv`.

`OtaDownloadProof` proves, from `OtaAssumption` only, `OtaInvariant`,
`OtaSpec => []OtaInv`, and from it the type invariant and the four safety
invariants the run `ota` checks (`OtaTypeCorrect`, `SuccessIsWhole`,
`ResumesWhereItStopped`, `StatusIsSet`, `QuitEndsCallbacks`).  What they lack to be
inductive: the thread is created once, for a slot that is never emptied
(`OtaControl`); a package is in one slot at most, since it was called for once
(`CalledOnce`); what is stored of a package the thread has not come to is nothing,
and nothing is reported of one it has not left (`SavedInOrder`); `g_quit` seen is
`g_quit` heeded (`LateOnce`).

`KernelSendProof` proves, from `SendAssumption` only (the two kinds of messages are
disjoint, the capacities and `PublishMax` positive), `SendTypes`,
`EveryMessageOnePlace`, `AttemptsBounded` and `PublishedInOrder`.  Their common
invariant `SendInv` adds what is in hand while a publish waits (`InHand`), that a
queue holds messages of its protocol version (`OwnQueue`), that a message is accepted
once (`AcceptedOnce`), the attempts of the one in hand (`HandAddsUp`), and that
messages wait in the order of acceptance, the one in hand first (`WaitInOrder`): this
is what makes putting a retried message back at the head right.  Each way a list can
change (append, take the head, put at the head, clear) has a lemma.

`IotSessionProof` proves `SessionInvariant`, `SSpec => []SessionInv`, for any servers,
queue and limits.  The kernel's invariant is a part of it, taken from
`KernelAccessProof`; the rest says which state the kernel is in where each thread is.

* `SessionTypes`, `OneDriver`, `KeysPersist`: its conjuncts.
* `BacklogStaysShort`: `Allowed` counts, for each place of the yield thread, the events
  it may have left behind: up to three of one failed attempt, and one of a ban, which
  is the last.  It relies on the back-off, see 2.3, and on `BreakRetryMax # 0`: with no
  retry at all, the attempt that leaves three is made without a back-off before it.
* `NamesAreSaved`: `NameKept` says that the last switch in the queue names the server
  in use or, if there is none, the application has saved it.  An event lost to a full
  queue breaks it, hence the hypothesis `QueueRoom`, which is 61 starts since
  `ez_iot_init` for the queue of 64 of the code.
* `KernelStaysSafe`, `BannedStaysOut`, `DeviceKeepsContract`: what is proved of the
  kernel alone holds of the device.  `SessionDrivesKernel` is the reason: a step of the
  session is a step of the kernel or invisible to it, but for a loss of power and a
  start taken back.

`HubDevicesProof` proves, from `HubAssumption` only, `HubInvariant` and from it
`HubTypes`, `PlatformIsCurrent`, `AuthenticatedAreRegistered` and `RetryNotSkipped`.
`ReportCurrent` lacks one thing to be inductive: a report of states carries no list,
so before one the platform's list must be right already (`StatusesSuffice`).
`CountCovers` compares a counter with a number of devices: that those are finitely
many is part of the invariant, and not assumed of `Devs`.  The order of the list plays
no part but in the walks: the lemmas on `Without` say that the others keep their
entries, wherever they move.

`TslProfileProof` proves, from `TslAssumption` only, `TslInvariant` and from it
`TslTypes` and `ProfilesAreOwn`.  `TslInv` says of whatever is held of a device, as
long as `upset` is false, that it is about the device's own version or about none: in
flash, in either copy of the map, in the list, in the thread's hand, in the
registration under way, in a URL on its way.  A file is the profile of the version it
is stored under, and the entry in the thread's hand has not been freed.

Every safety property of a passing run, action properties and the refinement among
them, is thus stated by a theorem.  Only model-checked is liveness: `BreakResolved`,
`Recovers`, `StopReturns`, `OnlineHeard`, `Settles`, `ChangesGetThrough`, `SyncEnds`,
`PackagesAreTold`, `WalksEnd` and `Served`, for fairness and ENABLED are out of the
prover's reach.

## 5. What disagrees with the documentation

`PROJECT.json` lists the findings, each a run that TLC ends with a
counterexample: a re-direction lost to a broken link, an online event of a
former session, a message that vanishes in its retry, a shadow thread asleep over a
change (Linux), and an upgrade package that is accepted after an earlier one and
never heard of.

The shortest trace of `access_redirect`: the device is registered; inside `das_yield`
`bus_handle_dev_redirect` stores `unredirect`; the same `das_yield` ends with
`das_need_reconnect`, for which `cnt_das_work_do` stores `das_break` over it
(`ezdev_sdk_kernel_access.c:287`); `cnt_das_retry_do` logs in with the old session
(309).  The wait for SUBACK in `cnt_das_reg_do` loses a re-direction in the same way
(230), on a longer trace: commands are dispatched after the first SUBACK only, so it
takes a second registration.  It is then announced as `switchover`, with the device at
its former server.

Other things the models contain, as the code has them, and no document speaks of
clearly enough to be checked against:

* Life cycle: a banned device's kernel refuses to stop; `ez_iot_fini` then ignores that
  it refuses fini too, and it cannot be initialised again.  The forced synchronisation of the shadow, once
  a day, marks everything and does not leave the status `chg`, so that desired values
  are not asked for.
* OTA: `md5_ctx` starts anew with every attempt, so that a sound package whose
  download was resumed is refused (`SucMeansWhole` is an implication for this reason, and says nothing of it).
* Hub: `hub_ver_update_do` registers a device with the thing model although it is
  not authenticated (`hub_func.c:276`; the comment at 776 names authenticated ones
  only); deleted and added anew in another version, it stays registered in the former
  one.  `AuthedRegistered` therefore says neither that only authenticated devices are
  registered nor in which version.  `hub_clean_do` keeps `g_hlock` when flash cannot be written.
* TSL, all in `ez_iot_tsl_adapter.c`: `get_tsl_handle_count` never exceeds 1, so a
  file goes that other devices still use; `tsl_adapter_ref_add` returns before it
  does anything; a device registered between the thread's last look and its clearing
  of the running flag is served by nobody (730, 818, 1998); a thread made and not yet
  running is joined under the mutex it needs (2006, `Jammed`); after a change of
  version the old profile is loaded (1612); a URL noted after the device was done
  makes it load from nowhere (961, `fetch_null`); the copy of an entry outlives the
  entry (`dangling`); TSLMAP is read and written back without a lock; when it cannot
  be written the error code is returned from a `bool` function and taken for success.

Hazards without a property, beside those `PROJECT.json` lists with a note:

* `ez_iot.c:147`, a status written after the thread it speaks of has started;
  `ez_iot_yeild.c:9`, `ez_iot_stop` from a callback joins its own thread;
  `ez_iot.c:140`, a thread that cannot be created, after the kernel has started.
* `ezdev_sdk_kernel.c:269`, a banned kernel refuses stop and a started one fini;
  `:411`, a send while fini destroys the queue and its lock (the header forbids it).
* `das_transport.c:1029`, a receipt that finds the event queue full leaks its context;
  `:1440`, a message too long for the MQTT buffer costs two reconnections;
  `access_domain_bus.c:270`, a loop over commands bounded by the number of domains.
* `shadow_core.c:1524`, answers not matched with queries; `:772`, a value deleted when
  acknowledged, which a later platform does not get; `:318`, see above.
* `hub_func.c:112`, the retry timer fires once; `:675`, an answer carries the serial
  only and may be that of an earlier request; `:969`, a callback under `g_hlock`;
  `ez_iot_hub.c:129`, `deinit` leaves the extension loaded.

## 6. Not modelled

* Formats, cryptography, logging, memory: conversions without control state.
* `cnt_das_reg_fast_do` and `cnt_das_reg_v3_fast_do`: no assignment of
  `cnt_state` leads to them.
* Callbacks of the application: they return.  A callback that calls
  `ez_iot_stop` joins its own thread.
* Other ports' `hal_thread_destroy`, which deletes the thread: POSIX is modelled.
* Vendored code; FlashDB is a store whose single writes are atomic.
* OTA: `ez_ota_module_report`, progress and status messages, which change no state of
  the component.
* Hub: `deinit`, the report of a single sub-device's properties, a second module
  `init` while the connection is up.
* TSL: `deinit`; the profiles in RAM (`g_capacities_list`) and the checks of values
  against them; the walk of `init` concurrent with the yield thread.
* Two devices of one version whose profile differs: a handle is type and version.

Most of the files in the repository are not the SDK's own logic: mbedtls, http_parser,
FlashDB, ezxml, bscJSON, the headers of lwIP and of the boards make up the greater
part of its lines.  The map covers the parts in which state is shared, kept or
exchanged.

## 7. Plan

1. `RiskControl`: domain and command tables and the loop of
   `bus_handle_dev_risk` against a reference definition.
2. `KernelReceive`: receive queues, routing by `ez_iot_yeild.c`, binding.
3. `EzTimer`: the timers the hub and the shadow rely on (`ez_hal`).
4. Composition: `KernelSend` under `ShadowCore` instead of `ReportOver`; the hub's
   calls as the registering thread of `TslProfile`.
5. An abstract specification for `ShadowCore`: a register per property that the
   platform's copy follows, one report at a time; the refinement checked and proved.
6. Of the liveness properties, their safety part: that a measure decreases with each
   fair step (`StopReturns`, `WalksEnd`).
