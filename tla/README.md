# Verification of the ESP-Mosaico recovery update system

ESP-Mosaico devices keep a *recovery* firmware in the `factory` slot. It can
rewrite the whole device (bootloader, partition table, application, data and,
by itself, the recovery image) from three places: ESP-Iris over USB or TCP, an
HTTP download, and a NAND filesystem. It also joins a Wi-Fi network, installs
applications over ESP-Iris, and is itself restored by a host command over a
serial line. This directory holds TLA+ specifications of that system, TLC
configurations that model-check them on small
instances, and proofs, checked by TLAPS, that hold for every instance.

Paths are relative to the repository; `factory_*.c` are in
`firmware/recovery/main/`.

## 1. Inventory

### Components

| Component | State it keeps | Operations | Status |
|---|---|---|---|
| **System Update backend** `factory_system_update.c` | `s_owner`, `s_status`, `s_update` (plan, completed set, active component, staging buffers), flash, the driver's dangerous-write protection, otadata, `last_result` in NVS | reserve, prepare, begin / write / end component, commit, abort, restart | modelled, proved |
| **Bootloader slot selection** `bootloader_components/main/bootloader_start.c` | none (reads otadata, the recovery key) | choose the image that runs | partly |
| **System metadata** `factory_system_metadata.c` | NVS of the `sysmeta` partition | load / store the last result | partly (the store) |
| **HTTP update source** `factory_http_update.c` | `s_http_busy`, `s_http_snapshot`, one task per update | start, download task, source status | modelled, proved |
| **HTTP update authorization** `factory_http_update_authorization.c` | `s_code` (state, digits, attempts, deadline, generation) | generate, cancel, consume, rotate, mark | modelled, proved |
| **HTTP trigger server** `factory_http_trigger_server.c` | none between requests | `update_handler`, `status_handler`, `health_handler` | partly (no parsing, no server start-up) |
| **NAND update source** `factory_nand_update.c` | `s_nand_busy`, `s_nand_snapshot` (scan state, catalog, update state, generation), the mount | scan, update, snapshot | modelled, proved |
| **Network** `factory_network.c` | `s_network` (state, pending credentials, retry clock), NVS `wifi` | start, scan, connect, forget, station and IP events | modelled, proved |
| **Recovery screens** `factory_ui.c` | `s_ui.page`, last phase and catalog generation seen | page changes, presses, a poll every 250 ms | partly (HTTP Update, NAND, progress and result pages; the others are "home") |
| **Recovery OTA support** `recovery_ota_support.c` | NVS `last_good`, `target` | prepare and choose the target of an ESP-Iris application OTA | modelled, proved |
| **Recovery control, inventory, main** | none | registration, read-only RPCs, boot order | not modelled: no state of their own |
| **Host gateway, runtime** `tools/mosaico_cli/{gateway,runtime,recovery}.py` | maintenance leases, operation ids and outcomes, a gateway process | lease, submit, wait, probe; start or share a gateway | partly (leases, waits and the probe; not the start of a gateway) |
| **Host CLI** `tools/mosaico_cli/{cli,commands}.py` | where a command stands | `recover`, `ota` and the rest | partly (`recover`; the rest is sequential) |
| **Packaging, screen mirror** | files, pixels | sequential I/O | not modelled: nothing concurrent, no update state |

### How they interact

```
  trigger server --code--> authorization <--poll, page-- screens
        |                        ^
      start                 mark failed
        v                        |
  HTTP source ---reserve, prepare, begin/write/end, commit, abort---+
  NAND source ---the same source_* calls----------------------------+--> backend --> flash, otadata, NVS
  ESP-Iris    ---callbacks prepare/begin/write/end/commit/abort-----+         |
                                                                          restart --> bootloader
  installer --submit, wait--> Gateway --ESP-Iris--> OTA support --> last_good, target
                                          writer  --> ota_N, otadata
  recover --leases--> Gateway;  recover --flash tool--> the whole board
  screens, control RPC, main --connect, forget, scan--> network <--events-- driver
```

The sources run in tasks of their own and call the backend directly. The
backend has no task except the short `restart_task`; what it shares is guarded
by short critical sections (`s_owner_lock`, `s_status_lock`, `s_code_lock`,
`s_http_lock`), never by one lock for a whole operation. All the interesting
behaviour is between those sections.

### What is hard here, and what makes each part correct

*Backend.* Three tasks, one writer, claims and late aborts in any order; power
loss between any two steps of a commit that rewrites the boot chain in place;
hardware failures on every path. It is correct when: the writer has one
owner and every way out gives it back; what was verified is what is committed;
the boot chain is written only by a fully verified plan, the table last; the
flash protection is off only while a protected image is rewritten; COMMITTED
is published only when everything is installed and bootable; immutable
partitions are not touched; power loss outside the single-copy window leaves
a device that boots; the published status speaks of the holder.

*Authorization.* Rotation draws its random number outside the lock, while the
page closes or another code is made; a lock must end; the code is consumed
before the update it authorises exists, so every failure of the start must
leave UPDATE_RUNNING again.

*HTTP source and server.* One busy flag between an update that is ending and
one that is starting; a status answer assembled from two reads; a task that
cannot be created after everything was claimed for it.

*NAND source.* Scan and update of one mount exclude each other; the same
task-creation failure path as HTTP; the directory may hold more bundles than the
catalog has slots, in any order; the catalog is replaced while the screen shows it.

*Network.* Events of an earlier connection arrive after connect or forget;
credentials are saved by the event that follows success; retry has a clock.

*Screens.* A poll sees phases, not transitions: short-lived states may be
missed between two polls, and the page must still end up right.

*OTA support.* The metadata that names the last good slot is read twice and
written back before the slot is overwritten; a read that fails looks like a key
that is not there. It is correct when the last application that reported itself
healthy survives everything an OTA does and every power loss.

*Installer.* Contact is lost while the device works, and the operation must not
be replayed. It is correct when "succeeded" means installed, "failed" means over,
and it says so when nobody knows. It does not always: three of its failures
are guesses (see *Observations*).

*Recover.* Two leases run down while renewals, a ROM probe and the flash tool take
their time; the board on the serial line need not be the one meant; any call
can fail, time out, or lose its answer. It is correct when the leases cover the
tool, which depends on how long the calls before it take, when success means
the board that was meant, and no lease is forgotten.

`PROJECT.json`, `hazards`, lists these with the line where each one bites and
the properties that would catch it.

## 2. Modules

| Module | What it is |
|---|---|
| `UpdateWriter` | abstract specification: a writer that is claimed, reports and is released; what the sources may rely on |
| `SystemUpdate` | the backend in full detail, with the sources' side of the protocol, flash, boot selection, faults and power loss |
| `MCSystemUpdate` | the small device TLC checks |
| `SystemUpdateProofs` | the inductive invariant of `SystemUpdate`; its safety properties and the return of the writer as theorems |
| `SystemUpdateRefinement` | the proof that `SystemUpdate` implements `UpdateWriter`, and what findings 1 and 2 come from |
| `UpdateCode` | the display code: one action per critical section |
| `HttpUpdate` | HTTP source and trigger server, composed with `UpdateCode` and with `UpdateWriter` for the backend |
| `MCHttpUpdate` | the instance TLC checks |
| `NandSource` | the NAND source: scans, updates and their claims, over `UpdateWriter` |
| `NandSourceProofs` | its inductive invariant; its safety properties, its use of `UpdateWriter` and the return of NAND and writer as theorems |
| `RecoveryScreens` | polls and presses of the recovery screens, composed with `NandSource` and the published status |
| `RecoveryScreensProofs` | the proofs that the screens, also with the application OTA beside them, implement `NandSource`, and their properties as theorems, safety and liveness |
| `ScreensWithOta` | the same screens with the application OTA beside the System Update |
| `Network` | the station: start, connect, forget, scan, the event handler and its saves, over driver, queue and NVS |
| `ApplicationOta` | an application OTA from the installer over the Gateway's record to the slot, the metadata and the boot choice |
| `RecoverCommand` | `recover`: leases, limits, probe, flash tool, acceptance, unwinding |
| `HttpUpdateProofs`, `NetworkProofs`, `ApplicationOtaProofs`, `RecoverProofs` | the inductive invariants of these modules; their safety properties as theorems, and the liveness properties of the first three |

The composition is by contract. `SystemUpdate` implements `UpdateWriter`
(checked and proved), and `HttpUpdate` uses the actions of `UpdateWriter` in
place of the backend; that it uses nothing else of it is proved (`HttpUsesWriter`),
so what holds of `HttpUpdate` holds with the real backend
as far as the claim and the published status are concerned. `NandSource` does
the same (`NandUsesWriter`); `RecoveryScreens` extends it and implements it (proved),
so that what holds of the source alone holds beside the screens; `ScreensWithOta`
extends that, and implements it too.
`Network`, `ApplicationOta` and `RecoverCommand` share no state with these.

### SystemUpdate and the code

| Specification | Code |
|---|---|
| `owner` | `s_owner` |
| `status` | `s_status`: owner, operation, phase, and the result as ok / refused / aborted |
| `upd` | `s_update`; `completed` is the `completed` flag per plan entry, `match` says whether the running SHA-256 is still that of the image, `staged` are the PSRAM buffers |
| `flash`, `protection`, `boot`, `lastResult` | flash regions, `esp_flash_set_dangerous_write_protection`, the otadata selection, `last_result` |
| `job[s]` | where the task of source `s` is in its own code, and for which operation |
| `commitStep` | the program counter inside `commit_update` |
| `restart`, `power` | `restart_task` is counting down; what runs after the last reset |
| `Reserve`, `PrepareLocal`, `PrepareIris` | `factory_system_update_source_reserve`, `_source_prepare`, the callback `prepare_update` |
| `Begin`, `Write`, `End` | `begin_component`, `write_component`, `end_component` |
| `CommitStart` ... `CommitSchedule` | `commit_update` and `commit_protected_image`, cut where a power loss finds different flash or another task can see a difference |
| `Abort`, `AbortPersist`, `LateAbort` | `abort_update_owned`: reset and release, then (separately) the result record; and an abort of an operation that is over |
| `Restart`, `Crash`, `EnterRecovery` | `restart_task`, power loss, the recovery key; `BootTarget` is the bootloader's choice |

A call whose guard fails returns an error and changes nothing; the source then
gives up (`Fail`). Failures of hardware or allocation are disjuncts of the
action whose call fails and count against `MaxFaults`.

### UpdateCode, HttpUpdate and the code

Every action of `UpdateCode` is one critical section of `s_code_lock`.
Rotation has two (`RotateClaim`, `RotatePublish`). Of the 32-bit generation
only the comparison matters: a rotation under way is `"current"` or
`"superseded"`. The timer is a boundary (`ahead`, `due`), not a clock.

In `HttpUpdate`, `start[s]` is the program counter of a caller of
`start_http_with_id` (the httpd task; another caller such as the RPC) and
`task[op]` that of `http_update_task`, with one action per point where
another task can see a difference. `FailureSteps` is the order of the task's
failure path. Components are one component; the backend is `UpdateWriter`.

### NandSource and the code

| Specification | Code |
|---|---|
| `nandBusy` | `s_nand_busy`, set by `nand_operation_claim`, cleared by `nand_operation_release` |
| `nand`, `changed` | `s_nand_snapshot`; of its generation, whether the screen has seen it |
| `scanning`, `ScanPublishes`, `ScanEnds` | `catalog_scan_task`: the new snapshot, then the release |
| `ScanCatalog`, `SlotsFilled`, `Sorted` | `scan_catalog`: the manifest of the catalog directory, then those of its entries; `catalog_try_add` into the slots there are; `qsort` |
| `RequestScan` | `factory_nand_update_request_scan` |
| `start[c]`, `Begin`, `CreateTask`, `UnmadeAborts`, `UnmadeReports` | a caller inside `factory_system_update_start_nand`: the screen's Install, or the RPC |
| `task[op]`, `TaskPrepares` ... `TaskFrees` | `nand_update_task`, cut where another task can see a difference |
| `OtherClaims`, `OtherGoesOn` | HTTP and ESP-Iris, through the writer only |

A scan finds the bundle of the catalog directory or not (`Root`), and then any
bundles in any order, up to `MaxEntries` of them; what fits the `MaxCandidates` slots
is kept and sorted. A directory that cannot be opened leaves what was found
before, and the scan is published as failed with it. What a scan finds is not
assumed to have anything to do with the scan before, since the file service may
write to the filesystem meanwhile. `Catalogs` are the lists that fit and are
sorted, which is what `NandTypeOK` claims of every snapshot.

### RecoveryScreens, ScreensWithOta and the code

| Specification | Code |
|---|---|
| `page` | `s_ui.page`; "home" stands for every page without an update on it |
| `view`, `rows` | `s_nand_snapshot_view`, and the rows `nand_list_rebuild` made, each of which keeps an index |
| `chosen` | `s_ui.selected_nand` |
| `nandSeen`, `phaseSeen` | `s_ui.nand_update_state`, `s_ui.update_phase` |
| `PollCopy`, `PollMisses`, `PollRest` | one turn of `ui_status_task`: `nand_ui_update` with or without its snapshot, then `system_update_ui_update` |
| `OpenList`, `Select`, `CancelConfirm`, `Leave`, `Install` and `InstallReturns`, `Home` | the event handlers of the buttons |
| `ota`, `otaSeen`, `OtaPollRest` | the last job of ESP-Iris, `ota_was_active` for that job, `ota_ui_update` |

A poll and a press hold the display lock. It is not held by the tasks they
watch: between the two reads of a poll, and while Install waits in
`start_nand`, anything may happen.

### Network and the code

| Specification | Code |
|---|---|
| `state`, `saved`, `scanning`, `pending`, `late` | `snapshot.state`, `.credentials_saved`, `.scanning`; `pending_ssid`, `pending_password` and `pending_credentials`; whether the connection timeout passed since `connect_started_us` |
| `stored` | the two keys of the NVS namespace `wifi`, written one by one |
| `radio`, `events` | the driver's link, configuration and scan; what it posted and nobody handled |
| `handler`, `ScanDone` ... `SaveEnds` | `network_event`, cut where it gives the mutex back: the retry and the two steps of `credentials_save` are steps of their own |
| `call[c]` | where app_main, the display task and the RPC task stand in `factory_network_start`, `_connect`, `_forget`, `_request_scan` |
| `StartWifi` ... `Unreadable`; `Connect` ... `JoinNetwork`; `Forget`, `Clear`, `Drop`; `RequestScan`, `ScanStart`, `Unscan` | their steps between two lock regions |
| `RadioUp`, `RadioDown`, `RadioScanned` | the driver on its own |

A network is one tag for SSID and password; a pair with two tags is a save cut in
half. The connection clock is a boundary: it passed or not.

### ApplicationOta and the code

| Specification | Code |
|---|---|
| `meta` | `last_good` and `target` of the namespace the Recovery writes |
| `SelectTarget`, `Prepare`, `RecoveryWrite` | `esp_iris_platform_select_ota_target`, `esp_iris_platform_prepare_ota` with `recovery_read_u32` and `recovery_write`, one step per key |
| `host`, `Submit` | `run_ota`: where it stands and what it reported; one submission |
| `Submitted`, `CommandFails`, `Unanswered` | what `_wait_gateway_operation` makes of the answer to the submission: a status, a command that failed and printed one, none |
| `PollFails`, `PollEnds`, `PollLate`; `TimedOut` | its polls: a request that fails, the end of the operation, the timeout between two polls; the timeout of the submission |
| `due`, `Deadline` | whether the timeout of the run has passed |
| `operation`, `Accept`, `Refuse`, `Conclude` | the operation record of the Gateway, as the host sees it (external) |
| `guessed` | history: a failure was reported without knowing of an end |
| `job`, `WriterStep`, `JobRestarts`, `Healthy` | the writer of ESP-Iris, and an application that reports itself healthy (external) |

### RecoverCommand and the code

| Specification | Code |
|---|---|
| `at`, `left` | where `recover` stands, and what is left of the limit of the call it is in |
| `route` | the managed serial route, `--recovery-port`, or a board in ROM mode that no Gateway owns |
| `lease`, `held`, `noted` | the Gateway's leases (external); those the command has to finish; those it reported as quarantined |
| `AcquireMain` ... `Renew` | `acquire_maintenance_lease`, `acquire_endpoint_maintenance_lease`, `renew_maintenance_lease` |
| `Probe`, `StartTool`, `Flash` | `read_rom_hardware_mac`, `_run_streaming` of the flash tool |
| `Complete`, `Accepts`, `ReleaseAux` | `finish_maintenance_lease` and what the command accepts as the recovered target |
| `Fail`, `ReplyLost`, `Unwind`, `Killed` | an exception or limit anywhere, an answer that is lost, the unwinding, the end of the process |

`Tick` is time: it takes from what is left of the call and of every lease. `since`
(history) is the time from the first renewal to the flash tool. `Replug` is the
operator, who may exchange the board on the interface until the tool writes, on
every route but the managed one, whose device has a connection of its own.

## 3. Runs

| Run | Module, configuration | Bounds | States | Shows |
|---|---|---|---|---|
| `system_update` | `MCSystemUpdate`, `SystemUpdate.cfg` | 3 sources, 2 operations, 6 manifests, 1 fault, 1 power loss; symmetry in local sources and operations | 147,104 | type invariant; `WriterExclusion`, `VerifiedStays`, `ProtectionWindow`, `CommittedIsInstalled`; `BootChainOrder`, `FixedRegionsKept`, `PowerLossSurvived`; the refinement `WriterContract` |
| `writer_returns` | `MCSystemUpdate`, `SystemUpdateLive.cfg` | HTTP and ESP-Iris, 2 operations, 4 manifests, 1 fault, 1 power loss | 183,044 | wherever its owner stands, it can go on (`WriterReady`); a writer that is claimed becomes free again (`WriterReturns`) |
| `http_update` | `MCHttpUpdate`, `HttpUpdate.cfg` | 2 readers of the code, 1 attempt, the trigger and one other caller, 2 operations, 1 task that cannot be created | 287,404 | type invariant; `CodeOnPage`, `RunningHasUpdate`, `OneHttpUpdate`, `StatusRetained`, `StatusConsistent`; a locked code unlocks (`LockLifts`); every update gives the busy flag back (`BusyEnds`) |
| `recovery_screens` | `RecoveryScreens`, `RecoveryScreens.cfg` | screen and RPC, 2 operations, 1 slot, which the bundle of the directory and one entry overfill, 1 task that cannot be created | 500,008 | type invariant of screens and source; `ConfirmNamesBundle`; `NandExclusive`, `NandGivesBack`; a busy NAND becomes free (`NandBusyEnds`); the update page, which has no button, is left by itself (`UpdatePageEnds`) |
| `network` | `Network`, `Network.cfg` | 3 callers, one network stored and another one asked for, 2 requests, 1 failed call; the queue is as long as it gets | 817,061 | type invariant; `LinkShown`, `ScanAccounted`, `StaysForgotten`, `SavedAnswered`; an attempt that goes on ends (`ConnectingEnds`) |
| `application_ota` | `ApplicationOta`, `ApplicationOta.cfg` | 2 slots, 2 runs, 1 fault, 1 power loss | 76,292 | type invariant; `LastGoodSpared`, `SuccessIsInstalled`, `FailureIsOver`; the installer comes back (`InstallerReturns`) |
| `recover_command` | `RecoverCommand`, `RecoverCommand.cfg` | 2 boards, limits of 1 or 2 ticks, which sum to more than the margin between renewal and tool | 330,820 | type invariant; `HeldWhileFlashing`, `SuccessIsFlashed`, `FailureUnwinds` |
| `record_overtaken` | `MCSystemUpdate`, `SystemUpdateRecord.cfg` | as `system_update` | | finding 1 |
| `status_overwritten` | `MCSystemUpdate`, `SystemUpdateStatus.cfg` | as `system_update` | | finding 2 |
| `code_while_running` | `MCHttpUpdate`, `HttpUpdateCode.cfg` | as `http_update` | | finding 3 |
| `status_lost` | `MCHttpUpdate`, `HttpUpdateRetain.cfg` | as `http_update` | | finding 4 |
| `progress_hidden` | `ScreensWithOta`, `ScreensWithOta.cfg` | as `recovery_screens`, any number of OTA jobs | | finding 5 |

Why the bounds are enough:

- *Sources and operations.* A race over the writer needs a holder, a
  competitor and an operation that is already over. Two operations give that,
  with HTTP and NAND interchangeable and ESP-Iris, whose claim is part of
  prepare, different. In `HttpUpdate` two operations let one end while the other
  is minted and runs. A third, a second attempt and a larger catalog add nothing
  the safety properties could miss: those are proved for every number of each
  (section 4), and the runs are there for the liveness properties and the mutants.
- *Manifests.* One with every kind of component but recovery (the application
  in two chunks, so that a component can be short, exact and in progress), one
  recovery-only, one with data for an immutable partition, two with images that
  are no images, one that does not parse. Each reaches paths no other reaches.
- *Faults, power losses.* One fault reaches every failure branch; one power
  loss reaches every point between two steps. With both, TLC also sees a device
  that lost power after a fault.
- *Screens and NAND.* A row, an index and a confirmed bundle need a catalog that
  has the entry and one that has not, and the limit of the slots one bundle more
  than fits. The order of several bundles is covered by the proof only. Two operations give a failure and the
  update after it; one failed task creation gives each caller that path.
- *Network.* A connect needs a network that differs from the one stored, and a
  call to meet: a second connect, a forget or a scan. Start-up is there on every
  restart. One fault reaches every refused call of driver and NVS.
- *OTA.* Two slots are the least where one can be spared; the second run is the
  retry. `LastGoodSpared` says nothing of one slot, as the code says too.
- *Recover.* One tick is enough to let a lease expire a moment too early when the
  margin is left out; second renewal, probe and preparation may take one tick more
  than the margin, as in the code; two boards are the right one and a wrong one.
- *Attempts.* With one, every wrong code locks; counting is proved for any number.

`CHECK_DEADLOCK FALSE` appears where the model can come to rest: a
device whose boot chain is gone (a fault, or power loss in the single-copy
window) does nothing more. The HTTP runs have no such state, and deadlock
is checked there.

### Fairness

`writer_returns` assumes weak fairness of each source's steps and of the
restart. The HTTP task waits for the network with a limit and every HTTP call
has a timeout; the NAND task reads files until an error or the end; ESP-Iris
aborts an update when its session ends (framework behaviour, external to this
repository: the weakest of the assumptions, and only about that source).
`restart_task` is a delay and a call. Nothing is assumed of claims, late
aborts, faults or power losses, so that none of them is needed for the result.

`http_update` assumes weak fairness of the tasks' steps, of the handler
once it has consumed a code, of an interval ending, of the second half of a
rotation, and of the display's poll, which runs every 250 ms. Requests,
presses and other sources owe nothing.

`recovery_screens` assumes weak fairness of the second half of a
poll and of the press that waits for `start_nand`, of the scan task, of each call
and each task of the NAND source (`NandFairness`), and of the other update sources
taken together. The first half of a poll is
strongly fair: it tries the snapshot's mutex without waiting, every 250 ms, and
the mutex is held only for a copy, so it cannot be missed for ever. Presses owe
nothing: the user may go away.

`network` assumes weak fairness of the event task, of the connection clock and of
the driver's answer to an attempt to join (it always ends in an address or a
disconnect). The callers owe nothing. `application_ota` assumes only that the
clock of the installer passes its timeout (`Deadline`), and that the installer goes
on to look (`HostEnds`): its submission is run with that timeout, and each of its
requests for the status has a limit of 15 s. Device and Gateway may stop for ever,
and no request owes it to fail.
`recover_command` states no liveness: every call has a limit, and what would have
to be shown is that Python returns from it.

`ConnectingEnds` speaks of an attempt that goes on. A connect whose
`esp_wifi_connect` is refused after "connecting" was published leaves that state
with no attempt behind it: nothing ends it until the next event or request.

`UpdatePageEnds` leaves out one state: both sources of failure the page could
wait for have already been seen as failed. A poll compares states, so a NAND update
that is started and fails again within one poll interval, after a failure that
a poll has seen and no new scan has cleared, shows no change and stays on the page until
the next update or a restart.

### Findings

1. **The record of a later update is overwritten** (`RecordIsOfLastUpdate`,
   `factory_system_update.c:1409`). `abort_update_owned` gives the writer back
   and writes its failure to NVS afterwards. Another source can reserve,
   update and commit in between; the late write replaces the record of the
   update that is installed. `firmware/recovery/README.md:155-157` promises the
   result of the last update.
2. **A refused manifest overwrites another operation's error**
   (`StatusOfItsOwn`, `factory_system_update.c:669`). On the callback path the
   status record is started only after the manifest parsed, and finished when
   it did not: the error of the refused manifest lands in the record of the
   operation before. That operation is over, as the trace shows: it was aborted, and its
   record says FAILED before and after. What changes is its result.
   `status_handler` (`factory_http_trigger_server.c:403-420`) returns that
   result to the HTTP client that asks for its own failed operation, though it is the error of
   another source's manifest. `docs/recovery-http-trigger.md:65-66` says a status
   is never substituted by that of a NAND or USB update.
3. **A code can be valid while its update runs** (`NoCodeWhileRunning`,
   `factory_http_update.c:385`). The failing task of an update that was started
   without a code marks the authorization failed; if a request is between
   marking its own code running and taking the busy flag, that request's
   authorization is gone, its update starts, and a new code can be shown and
   accepted. `docs/recovery-http-trigger.md:28` excludes it.
4. **A failed start can take the status of its successor** (`LaterReplaces`,
   `factory_http_update.c:460`). When the task cannot be created, busy flag and
   writer are given back before the failure is published.
   `docs/recovery-http-trigger.md:67-68` says the later operation is the one
   retained. With all tasks created, it is (`StatusRetained`).

5. **A failed application OTA hides the System Update** (`ProgressShown`,
   `factory_ui.c:1301`). `ota_was_active` is never cleared, so after a failed job
   that a poll saw active, `ota_ui_update` claims the screen on every poll and
   shows its result page again, also after Recovery home. A System Update that
   is started then runs without its progress page.
   `firmware/recovery/README.md:26-27` says both kinds of update share that page.
   This supposes that `esp_iris_ota_get_status` goes on reporting the last job,
   as the code that reads its end after `active` is gone requires.

### Observations

What the models show of the code, where no document promises the contrary:

- *Network.* A connect to B while the station is on A disconnects first, and the
  handler of that disconnect may rejoin A before B is configured; when A answers,
  the credentials of B are saved unproven (`factory_network.c:300`). Hence the
  condition of `SavedAnswered`: a connect that met nothing else.
- *Network.* A save cut in half leaves an SSID with the password of another
  network; the next start joins with that pair (`credentials_load` asks only
  for both keys).
- *OTA.* `recovery_read_u32` returns 0 for a read that failed, and
  `esp_iris_platform_prepare_ota` writes that 0 back, so that one failed read
  forgets the last good slot for good. `LastGoodSpared` excludes it (`misread`).
- *Installer.* Three of its failures are guesses, after which the device may still
  write, or the Gateway still start: an operation polled as `outcome_unknown`
  (`gateway.py:739-751`, `792-804`; as the answer to the submission the same
  status is reported as unknown), an answer to a poll that is no JSON
  (`gateway.py:400`), and a submission that fails while it prints a status of an
  operation under way (`gateway.py:721-731`). `FailureIsOver` leaves out exactly these
  (`guessed`).
- *Recover.* The lease outlives the flash tool by 60 s (`commands.py:931`). The limits
  of what comes between its renewal and the tool sum to more: 15 s for the renewal
  of the second lease, 60 s (`host.py:224`) and 30 s (`recovery.py:367`) for the
  environment and the probe, 60 s for the environment of the tool. `README.md:77-79`
  promises reservations that remain during flashing; the code keeps that promise in every run in which these calls take
  no more than the margin together (`HeldWhileFlashing`), and not in general.
- *Recover.* `_run_streaming` kills its child and not what the child started; the
  board may be written after the command gave up (`OrphanEnds`).
- *Recover.* A grant whose answer is lost, or an unwritable endpoint whose abort
  fails, leaves a lease nobody finishes until it expires (`leaked`); so does an
  interrupt while the leases are unwound (`Killed`).

## 4. Proofs

All theorems hold for any set of sources and operations, any manifests, images,
layouts, delivered flash, networks, slots, boards and limits that satisfy the
named assumptions, and any value of the bounds.

| Theorem | Module | Property |
|---|---|---|
| `Invariance` | `SystemUpdateProofs` | `Spec => []IndInv` |
| `TypeCorrect` | | `TypeOK` |
| `Exclusion` | | `WriterExclusion` |
| `VerifiedComponentsStay` | | `VerifiedStays` |
| `ProtectionRestored` | | `ProtectionWindow` |
| `CommittedInstalled` | | `CommittedIsInstalled` |
| `BootChainOrdered` | | `BootChainOrder` |
| `FixedKept` | | `FixedRegionsKept` |
| `PowerLoss` | | `PowerLossSurvived` |
| `WriterComesBack` | | `WriterReturns` (with `WriterReady`, `RanksSettle`) |
| `WriterImplemented` | `SystemUpdateRefinement` | `WriterContract` |
| `RecordFollowsHolder`, `WriterNotTakenOver` | | the abstract `RecordOfHolder` and `NoTakeover`, of the backend |
| `RecordTrueWithoutOverlap` | | `RecordIsOfLastUpdate`, without its cause (finding 1) |
| `StatusIsItsOwn` | | `StatusOfItsOwn`, without its cause (finding 2) |
| `NandInvariance` | `NandSourceProofs` | `NandSpec => []NandInv` |
| `NandTypeCorrect` | | `NandTypeOK` |
| `NandIsExclusive` | | `NandExclusive` |
| `NandReturnsWriter` | | `NandGivesBack` |
| `NandUsesWriter` | | `NandSpec => Writer!Spec`: the source refines `UpdateWriter` |
| `NandIsFreed`, `NandWriterComesBack` | | `NandBusyEnds`, `NandWriterReturns` (with `NandReady`) |
| `ScreensImplementNand` | `RecoveryScreensProofs` | `Spec => NandSpec` |
| `ScreensTypeCorrect`, `ConfirmPageNamesBundle` | | `TypeOK`, `ConfirmNamesBundle` |
| `ScreensFreeNand` | | `NandBusyEnds`, `NandWriterReturns`, beside the screens (with `NandReady`) |
| `UpdatePageIsLeft` | | `UpdatePageEnds` (with `NandReady`, `ScreensReady`, `ClaimsSettle`, `IsFiniteSet(Ops)`) |
| `ScreensWithOtaImplementNand`, `ScreensWithOtaInvariance` | | `OtaSpec => NandSpec`; the safety properties, with the OTA |
| `HttpInvariance` | `HttpUpdateProofs` | `Spec => []HttpInv` |
| `HttpTypeCorrect`, `CodeStaysOnPage` | | `TypeOK`, `CodeOnPage` |
| `RunningCodeHasUpdate`, `OneUpdateAtATime` | | `RunningHasUpdate`, `OneHttpUpdate` |
| `StatusIsRetained`, `StatusAgrees` | | `StatusRetained`, `StatusConsistent` |
| `HttpUsesWriter`, `HttpReturnsWriter` | | `Spec => Writer!Spec`; who holds the writer for HTTP |
| `BusyIsGivenBack`, `HttpWriterComesBack`, `LockIsLifted` | | `BusyEnds`, `HttpWriterReturns`, `LockLifts` (with `HttpReady`) |
| `NoCodeUnlessMarked` | | `NoCodeWhileRunning`, without its cause (finding 3) |
| `NetworkInvariance` | `NetworkProofs` | `Spec => []NetInv` |
| `NetworkTypeCorrect`, `LinkIsShown`, `ScansAccounted` | | `TypeOK`, `LinkShown`, `ScanAccounted` |
| `ForgetIsKept`, `SavedOnceAnswered` | | `StaysForgotten`, `SavedAnswered` |
| `ConnectingComesToAnEnd` | | `ConnectingEnds` (with `NetReady`, `NetRankSettles`) |
| `OtaInvariance` | `ApplicationOtaProofs` | `Spec => []OtaInv` |
| `OtaTypeCorrect`, `LastGoodIsSpared` | | `TypeOK`, `LastGoodSpared` |
| `SuccessInstalled`, `FailureOver` | | `SuccessIsInstalled`, `FailureIsOver` |
| `InstallerComesBack` | | `InstallerReturns` (with `HostReady`) |
| `RecoverInvariance` | `RecoverProofs` | `Spec => []RecoverInv` |
| `RecoverTypeCorrect`, `ReservationsHeld` | | `RecoverTypeOK`, `HeldWhileFlashing` |
| `SuccessFlashed`, `FailureUnwound` | | `SuccessIsFlashed`, `FailureUnwinds` |

So every safety property of a passing run is proved for all constants, but
`WriterReady`, which is about ENABLED; and every liveness property, under the
hypotheses in brackets (see *Liveness*).

### The inductive invariant

`IndInv` (at the end of `SystemUpdate`) adds to the properties what makes them
inductive:

- `PlanShape`, `TableInPlan`: what `parse_manifest_json` leaves in `s_update`:
  authorised targets, no target twice, one component of each kind but data,
  recovery alone or a table first. Without it, a write to one component could
  land on another, verified one.
- `LayoutMeaning`: once the layout is validated, application and data go to
  mutable partitions. This keeps streaming away from boot chain and fixed
  regions.
- `ActiveMeaning`: what the buffer of the component being received holds. With
  `match` it gives, at the last chunk, that the buffer holds the image.
- `CompletedMeaning`: verified bootloader, recovery and application are
  bootable, a verified table resolves the whole plan. This is where
  `CommittedIsInstalled` gets its bootable slot under the *new* layout.
- `CommitMeaning`, `CommittedMeaning`: how far flash and boot selection have
  come at each commit step, and that only a sealed operation says COMMITTED.
- `BootChainWhole`: without faults every part of the boot chain is whole, save
  the one being rewritten while the protection is off. `PowerLossSurvived`
  follows from it and `BootTarget`.

`SystemUpdateProofs` proves that each action preserves `IndInv`, one lemma per
action, one step per conjunct it can disturb. The action properties then need
`IndInv` and one look at the actions that write flash.

### The NAND source

`NandInv` has three parts. `Shape` adds the records to the type invariant.
`OneUser` says of each kind of user (the scan task, a caller whose task is not
created yet, an update task) that it has the claim and excludes every other;
`NandExclusive` puts them into one set, which says less where a caller and an
operation were the same value. `Returned` sharpens `NandGivesBack`: a task that
has passed its abort no longer holds the writer, which is what lets it end.

### The screens

`ScreensImplementNand` maps every step of the screens to a step of the screen
as `NandSource` sees it (a press, a call that returned, the poll's copy), to a step of
the source itself, or to none. `NandInv` then holds beside the screens for
nothing, and gives the rest: the catalog a poll copies is a legal one, the phase it
shows is one of the writer's. What is left is that the screen polls only
between its own calls, and that an index into the copy finds a bundle.

### The HTTP source

`HttpInv` adds to its properties whose `s_http_busy` is (`OneUser`, per start and
per task), which operations the writer has seen (`Presented`), and what a source
may say of an operation given what the writer recorded of it (`Says`, `Agreed`).
`StatusConsistent` is about two reads; it becomes inductive with what each task and
each reply under way already knows. `Running` follows an accepted code from its
handler to its task. `Retained` needs that no failure path of task creation is
taken, which is finding 4 seen from the other side.

### The network

The queue makes these properties hard. `NetInv` speaks of it through
five facts (a disconnect is queued, an address is queued, a scan result is queued,
at most one is, every address has a disconnect behind it), and one lemma each says
what posting and handling an event do to them. `LinkInv`: without a link up, every
queued address is taken back behind it. `ScanInv` is `ScanAccounted` over these facts.
`ForgottenInv` adds that no save and no start with loaded credentials is under
way; `AwaitedInv`, that until the network of a lone connect answers nothing else can
give an address: no call, no retry, no event.

### The application OTA

`UpInv`: the writer runs in the Recovery, so that no application can report
itself healthy while a slot is written. `Spares`: from the choice of the slot to the
last write it is not the last good one, unless there is no other or a read failed, and what
is written back is what was read. `RecordInv` ties the report of the installer to
the Gateway's record, and the record to the writer: nothing runs for a record that is
over, nor for a request that was not yet accepted or was cancelled, save a job of an
earlier run; and what a record calls succeeded is in the slot that boots.

### The recovery

`Holding` says which leases the command has at each step; `Covers` is the argument about
time: as long as no more than the margin passed since the first renewal, every lease
still has what it was given less that time (`Kept`), and once the tool runs, what
is left of its own limit and the margin beside it (`Outlasts`). Nothing is assumed of how the limits
relate to the margin. `Accounted` is `FailureUnwinds` before the end; `Written` follows the board that
was written to the one that is accepted.

### The refinement

The mapping is `holder <- [owner, upd.op]`, `record <- status`,
`claimed <- used`. A step of the backend has to be allowed by the phase the
record shows, which `IndInv` does not say, so `SystemUpdateRefinement` first
proves `RecordMeaning`: while the writer is held the record is the holder's,
open, and its phase is the one the job's stage and the active component
imply. Then one lemma per action maps it to claim, refuse, report, release,
reset or a stutter. `RecordFollowsHolder` and `WriterNotTakenOver` are the abstract
properties of `UpdateWriter`, read through the mapping.

### The causes of the findings

A counterexample shows one behaviour that breaks a promise. For findings 1 to 3
there is a theorem beside it: without the one kind of step named in the
finding, the promise holds in every behaviour that is left, whatever else fails.

- Finding 1 (`RecordTrueWithoutOverlap`): no failure is recorded (`AbortPersist`)
  while somebody has the writer (`RecordsAlone`). The invariant `ResultKept` carries the
  success from `CommitPersist` over the restart's scheduling to COMMITTED; power losses
  and failed writes are allowed throughout. Recording before releasing gives that.
- Finding 2 (`StatusIsItsOwn`): no manifest that comes by the callback is refused
  (`CallbackAccepts`). The proof reads the backend through its refinement: of the
  steps of `UpdateWriter` that leave the record to its operation, only `Refuse` is not
  the holder's; a claim brings an operation id no record has had, and a reset none.
- Finding 3 (`NoCodeUnlessMarked`): no task marks a running code that another
  operation was started by (`MarksItsOwn`). `CodeFollows` then follows the code from the
  request that took it, over handler and start, to the end of its task.

Finding 4 has `StatusIsRetained`: if every task can be created, the later
operation is the one retained.

### Liveness

The provers reason neither about ENABLED nor by induction over data. Both are
therefore stated, by name, as hypotheses of these theorems, and everything else
is proved: which actor has to move, that nobody else can undo what it did, and
that what is left to do sinks.

- `WriterReady`, `HttpReady`, `NandReady`, `ScreensReady`, `NetReady`, `HostReady`
  say that an actor with something left to do has a step it can take: it waits
  for nobody. They are facts about the reachable states of the specification, and
  nothing about scheduling. `WriterReady` is an invariant of `writer_returns`. The
  others hold in every state of the passing run of their module when they are
  added to its configuration as INVARIANTs; where one failed while something is still
  to be given back, fairness would let that actor stay where it is for ever, and
  the fair run of its module would show its liveness property violated.
- `RankSettles(s)`, `NetRankSettles` and `ClaimsSettle` say that a tuple of naturals
  (of `ClaimsSettle`, one natural number) that only ever sinks stops changing. That
  is true of every behaviour, being the well-foundedness of the lexicographic
  order, and says nothing about the code.

`[]Fairness` in a theorem is `Fairness`, which is a conjunction of WF and SF: it
holds from any moment on when it holds from the start.

*The writer* (`WriterComesBack`). The rank of the owner is: its stage (admitted,
open, commit, over), then the components it has still to receive or the steps
of the commit, then whether the next component is still to be begun, then
the bytes it lacks. Every step of the owner lowers the tuple, aborts and
failures included (they end the stage); no step of another actor raises it while the
owner stays. The components left are counted as a cardinality, which is
why the module uses `FiniteSetTheorems`. If the owner never gave the writer back,
its tuple would only sink, hence stop changing, while fairness forces a step that
lowers it.

*Connecting* (`ConnectingComesToAnEnd`). The tuple is: the requests and steps of
calls that may still come (this is where the bound on requests enters; without it
somebody could ask for another network for ever), whether the clock has yet to
pass, and what radio, queue and event task have left to do. While the
attempt lasts, each of their steps lowers it: once the clock has passed, a lost link
is no longer retried.

*The busy flags, the lock, the installer.* The installer waits until its timeout has
passed and then until it looks at it, whatever it is told meanwhile. All of these pass through finitely many stages,
so no rank is needed: one leads-to per stage, chained backwards from the last
one. `BusyHasUser` in `HttpUpdateProofs` and `OneUser` in `NandInv` say whose stage
it is. The writer claimed by an HTTP or NAND update
comes back by the same chain (`HttpWriterComesBack`, `NandWriterComesBack`); with the
refinement of `UpdateWriter` this is the sources' side of `WriterReturns`.
`ScreensFreeNand` is `NandIsFreed` read through `ScreensImplementNand`: the screens
share the source's fairness.

*The update page* (`UpdatePageIsLeft`). With a new update always ready to begin, the
other sources could keep the page busy for ever, update after update, and the screen
would be right to show it; hence `IsFiniteSet(Ops)`. Each claim takes one operation
from those left (`ClaimsSink`), so there is a last one. From then on calls and task of
the NAND source end (`CallsEnd`), the update of another source goes phase by phase to
its end (`OthersEnd`), and the next poll leaves the page (`PollsEnd`). That this poll
still has something to notice is `ShownInv`: who waits on the page for anything but
the progress of another source waits for an update of the NAND, and a commit the
page has seen is one of the record. It rests on `NandMeaning`: the record is open
while the writer is held and closed while it is free, and the state the NAND source
publishes is that of a call or a task that will still report, or of a commit.

### Assumptions

Stated in the modules (`SourceAssumption`, `BundleAssumption`,
`ImageAssumption`, `TableAssumption`, `FlashAssumption`, `BoundAssumption`,
`CodeAssumption`, `HttpAssumption`, `NandAssumption`, `ScreenAssumption`,
`NetworkAssumption`, `OtaAssumption`, `RecoverAssumption`): sources and ids are
distinct; a table that `esp_partition_table_verify` accepts places nothing over the
bootloader or itself; the device is delivered with a boot chain that is whole. And, in
what the actions are:

- an operation id is minted once (128 random bits) and never reused;
- ESP-Iris calls begin, write, end, commit and abort only between a prepare
  that succeeded and the end of that operation, and does not abort after a
  commit that succeeded (its framework is not in this repository);
- overlap of two targets is equality of regions;
- one NVS record is written atomically; RAM is lost on a reset;
- after the selected image the bootloader falls back to the recovery image and
  to `ota_0` (ESP-IDF behaviour, external); `target_partition_valid` always
  finds what the plan resolved;
- `"stuck"` is a protection the flash driver refuses to restore; the code can
  only report it;
- `random_code` cannot fail: a value below one million always prints as six digits.

### Model-checked only

- `WriterReady` and the other hypotheses about ENABLED.

`recover_command` has no liveness property. The five findings are counterexamples,
which need no proof; that finding 5 has no other cause is not stated.

## 5. Abstractions

Digests are images: two contents are equal or not; a stream is sound or not,
chunk by chunk. Sizes count chunks. JSON syntax, schema, chip, version and
flash size are one flag of a manifest (`form`); the rules on the plan are
spelt out. Error codes are ok, refused or aborted. URLs, headers and bodies are
the choice between going on and being refused. Digits are right or wrong. Delays
and deadlines are order, not time. The 32-bit generation does not wrap.
`HttpUpdate` does not follow the phases other sources report, since
nothing there reads them. UI page changes and the display's half of rotation
are serial, as both hold the display lock.

In `NandSource` and `RecoveryScreens` the phases between "prepared" and
"committing" are one, since no page tells them apart; bundles are numbers in the
order of their paths; the claim, the reservation and the status "starting" are one
step, and so are the backend's "prepared" and the status "running" (the screen
takes the states in between for one of the two). The rows of the list show
nothing but which bundle they stand for.

In `Network`, mDNS, the list of access points and authentication details are left out; the
driver takes a configuration unless it joins, joins from an idle link, and posts one
event per end of a link. In `ApplicationOta` the writer, the Gateway and the
application are external: the Gateway accepts a request at most once, also after the
installer gave up, or cancels it, and concludes from what the device does, or that it
does not know, or not at all. In `RecoverCommand` the bundle is prepared, the
flash tool writes all or leaves the old image unusable, the Gateway's
`complete` succeeds only when it finds the prepared version on the interface of the
main lease; boards are exchanged on the independent and the unowned route, and until
the tool starts.

### Not modelled

- *Recovery control, inventory, main*: argument checks, read-only answers and the order of
  the boot; no state of their own.
- *Start-up of a Gateway* (`gateway.py:278-373`): two workspaces can both find none
  and both start one. `ensure_gateway` then polls for up to 20 s, shares a compatible
  winner and terminates only the process it started itself; which process gets the port,
  and how the loser ends, is decided by the operating system and by ESP-Iris.
- *The load path of the system metadata*, and its NVS layout: it runs once, before any task.
- *Wi-Fi, pairing and password pages*: forms without a part in an update; what they ask of the
  network is in `Network`.
- *Server start-up, body and header parsing* of the trigger server: their outcomes are choices.
- *The other host commands, packaging, screen mirror*: sequential, or pixels.
- ESP-IDF, LVGL, ESP-Iris, the Gateway and the flash tool are external.

## 6. What could follow

- A refinement of `ApplicationOta` from the host's side: an operation that is
  submitted, and then succeeds, fails or is unknown, once.
- The start-up race of two Gateways, once what ESP-Iris does with a taken port is described.
