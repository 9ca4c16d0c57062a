# Verification of meta-monutchee

meta-monutchee is the Yocto layer set of MNCOS. Most of it is recipes and
policy, but it also holds running code: a system-management daemon that owns
a device's network, clock, power and factory reset, an SDK of service and
logging libraries, and scripts that prepare storage, load firmware, boot a board
over JTAG and pack artifacts. This directory models that code in TLA+, checks
the models with TLC on small instances, and proves the most important results
with TLAPS for every instance.

In this text `source/` is `meta-mncos/recipes-support/mnc-system/files/source/`.

## 1. The system

| Part | Code | State it owns | Operations | What is hard about it |
|---|---|---|---|---|
| Backend | `source/daemon/storage.cpp` | `state.json` (the journal), `state_`, `storage_failed_`, `job_deadline_` | `bootstrap`, `start`, `tick`, `apply`, `beginNetwork`, `prepareNetworkCommit`, `finishNetwork`, `power`, `resetDevice` | crashes between any two steps, uncertain writes, a second owner of the settings file, deadlines |
| Worker and processes | `source/daemon/main.cpp`, two units | the bus, the worker thread | one tick and one request per iteration; bootstrap before the daemon; restart on failure | an exception means three different things in three places |
| Platform | `source/daemon/backend.cpp`, `clock_config.cpp`, `ptp.cpp`, `network_config.cpp` | systemd units, networkd files, boot markers | `preferences`, `network`, `power`, boot policies | several effects of which any may fail, transitions that time out |
| Validation | `source/common/mnc/system/validation.cpp` | none | `validate`, `validateNetwork`, `validNtpServer` | boundary cases of addresses and prefixes |
| Service library | `source/common/mnc/service/` | life-cycle state, stop flag; registered services | `execute`, `start_registered`, `control`, `status` | signals racing start-up and stop; dependency order |
| Logging library | `source/common/mnc/logging/` | the systemd journal | `write`, `read`, `follow`, paging | cursors, rotation, merged streams, bounded pages |
| Client library | `source/common/mnc/os/system/client.cpp` | one bus connection | one call per method | a lost reply |
| Storage | `meta-mncos/recipes-core/mnc-storage/files/mnc-storage` | partitions, mounts, archives, boot status | `prepare`, `backup`, `restore`, `reformat` | power loss inside a restore or a reset, fallbacks |
| SELinux, preboot, RAM root | `mnc-selinux`, `mnc-preboot`, `ram-init`, `make-ram-root.py` | labels, boot stage | first boot relabel, hand-over to the real root | interrupted relabel |
| Firmware control | `meta-xilinx-addon/recipes-support/fwctl/files/fwctl` | remoteproc and fpga-manager state | `install`, `load`, `start`, `stop` | waiting for state changes |
| JTAG loader | `meta-xilinx-addon/recipes-core/images/files/load-jtag-image.tcl` | target state | reset, FSBL, PL, images, hand-over | completion detection |
| Artifacts | `meta-mnc-artifact/scripts/mnc-artifact.py` | archive and manifest | create, verify | what verify accepts against what create writes |
| Production flasher | `mncos-flash-emmc` | eMMC partitions | flash | interruption |
| Xilinx sysmon | `mnc-xilinx-sysmon/.../sysmon.cpp` | none | `readSnapshot` | devices that come and go while it reads |
| Recipes, classes, device trees, product templates, `yocto-script` | the rest | none at run time | build-time metadata | not a running system |

How they interact. At boot `mnc-storage` mounts the product's partitions and
reports in its status file whether a factory reset was prepared;
`mnc-system-manager --bootstrap` then recovers the journal and writes the boot
policies; the daemon starts after it and serves requests over D-Bus. A product
service, the *settings authority*, owns the settings file: it proposes a network
(`BeginNetwork`), asks permission to write (`PrepareNetworkCommit`), replaces
the file, and finishes (`FinishNetwork`). The daemon recognises the write by the
hash of the file, also after a crash. A factory reset crosses all of them: the
daemon journals the intent, the next boot's `prepare()` erases, and bootstrap
clears the intent. The daemon process itself is an instance of the service
library, and its log entries go through the logging library.

## 2. Modules

| Module | Models | Kind |
|---|---|---|
| `SystemManager` | Backend, worker, bootstrap, settings authority, crashes | specification and properties |
| `MCSystemManager` | values for its constants | model checking |
| `SystemManagerSafety` | types, memory and journal, exclusion of operations, job hand-over, factory reset, the running network | proof |
| `SystemManagerAgreement` | journal and settings file, outcomes told to clients | proof |
| `ClockDiscipline` | `preferences()` with its rollback, clock units, boot markers, systemd | specification and properties |
| `MCClockDiscipline` | values for its constants | model checking |
| `ClockDisciplineProofs` | type correctness, exclusion of disciplines, the recorded mode, servers in use | proof |
| `ServiceLifecycle` | `Service::execute()`, the daemon's hooks and worker thread, signals, systemd's restarts | specification and properties |
| `ServiceLifecycleProofs` | exit status, bus and worker | proof |
| `ServiceManager` | registration, `start_registered()` | specification, refines `ActivationOrder` |
| `ActivationOrder` | what `start_registered()` promises | abstract specification |
| `ServiceManagerProofs` | the refinement, unique units, depth of the recursion, inspections | proof |
| `UnitInspection` | `status()` and `control()` of a moving unit | specification and properties |
| `JournalReader` | `read()`, `bounded_page()`, `follow()`, paging | specification and properties |
| `JournalReaderProofs` | the contract of `read()`, pages, `follow()` | proof |
| `LogRecords` | writing a record and decoding it | specification and properties |
| `MCFramework` | these five, one in each behaviour; constants and fairness | model checking |
| `Sysmon` | `readSnapshot()` | specification and properties |
| `SysmonProofs` | devices a snapshot touches, and what it says | proof |
| `AddressRules` | texts and subnets of `validation.cpp` | operators against reference definitions |
| `NetworkApply` | `network()`, its files, networkd and links | specification and properties |
| `Storage` | `mnc-storage`, and the daemon's part in a reset | specification and properties |
| `PlatformProofs` | identity, erasure and whole copies; what the links have after a success | proof |
| `MCPlatform` | these four, one in each behaviour; constants | model checking |

`ClockDiscipline` and `NetworkApply` look inside one platform effect of
`SystemManager` each (the steps that change `live`); `ClockDiscipline` abstracts
the journal to its time preferences. `ServiceLifecycle` is the process around
the worker of `SystemManager`, whose work it reduces to returning, throwing or
hanging. `Storage` looks at the device that `SystemManager` calls `data`, across
boots, and reduces the journal to `reset_intent`.

### SystemManager

*State.* `journal` is `state.json` with two contents: `visible`, what a read
returns, and `stable`, what surely survives power loss; they differ after
`atomicWrite()` fails between `rename` and the sync of the directory. `st` is
`state_`; `storage_failed` and `job_deadline` are the members of those names
(a deadline is armed or not; at every tick it may have passed). `pc` and `call`
are the program counter and the stack frame of the one process that runs
Backend code: nothing else of the daemon touches this state, the worker thread
serialises it. `live` is what the platform has been told to run, with `Unknown`
for a setting nobody applied or one that failed half way. `settings` is the
content of the settings file, `authority` what its owner may write next, `data`
the reset paths that hold customer data. `told` and `handed` are history;
`used` counts what the bounds limit.

*Steps.* A handler is cut where somebody else can see its state: at a journal
write, at a platform effect, after a read of the settings file. `Persist` is the one place that
writes the journal (the code changes `state_` before every `persist()`); the frame says where it
returns to. `Throw` is an exception: in a request it becomes an error
reply, in `apply()` it runs the rollback, in the worker loop and in `on_start()`
it ends the daemon, which systemd restarts, and in bootstrap it fails the unit
the daemon requires.

*Environment.* A fault is a system call or platform effect that fails. `Crash`
ends a process at any step, `PowerLoss` the machine, each also in the middle of
a journal write. The settings authority and the services that store customer
data are not part of this repository; they are modelled from the protocol and marked
external.

*Abstractions.* A configuration is its network and everything else (hostname,
clock, SSH). A hash is the content it identifies. A refused request changes
nothing and is a `ServeNone` step. Ids count proposals and jobs, so a stale
id is one that is no longer `st.pending.id`, and is refused. Reset paths are
deleted in any order. Audit events and link observation, which do not influence control, are left out.

### ClockDiscipline

*State.* `unit` is the `ActiveState` of every unit of the profile, `queued` the
units whose start job waits in systemd, `disabled` the marker files
`ntp-disabled`, `ptp-disabled` and `irig-disabled`, `conf` timesyncd's server
file and `dropin` networkd's drop-ins, `loaded` and `links` what the running
services have read of them. `time` is the recorded configuration, `pc` and
`call` the control of `apply()`. `trouble` is history: since the last boot, was
there a crash or failed rollback, and has an `apply()` succeeded since?

*Steps.* `Apply` passes `validateConfiguration()`; `WriteMarker` (one file each),
`WriteServers` and `WriteDropIns` are `writeClockPolicy()`; `UnitStep`,
`Timeout` and `StageDone` are `unit()` over the stop list, then over the start list, of
`clockUnits()`; `Reload`, `Save` and `SaveFails` end it. `Fails` is an exception of
any call; the first starts the rollback, which runs the same steps with the
previous preferences, a second one ends it. `UnitMoves` is systemd, `Boot`
the boot policy and the units enabled at boot. Products gate their units on the markers as
`source/README.md` requires; their settings authority applies preferences after
a start, which is an `Apply`.

*Abstractions.* The lists are walked in any order. The drop-ins of all ports
are one file. Time zone, hostname and SSH only may fail. `QueuedStarts` says
whether systemd may hold the start job of an inactive unit for longer than
`unit()` waits (ordering after another unit that hangs).

### ServiceLifecycle

*State.* `main` and `worker` are the places of the two threads, `stop` and
`failed` the atomics they share, `bus` whether the connection is held,
`blocked` and `signals` the mask and the pending signals, `told` the last
message to systemd, `exit_status` and `wanted` what systemd knows. *Actions*:
`Mask`, `OnStart`, `Ready`, `LoopHead`, `Wait`, `Reload`, `Health`, `Feed`,
`Stopping`, `OnStop`, `ExecuteReturns` in the order of `execute()`, with the
exceptions `MaskFails`, `OnStartThrows`, `LoopThrows`; `Worker...` is the loop of
the worker thread. `StopUnit`, `Hangup`, `Kill` and `Restart` are systemd.

### ServiceManager, ActivationOrder, UnitInspection

`start_one()` is recursive: `stack` holds its frames (service, next dependency),
`cursor` is the loop of `start_registered()`, `started` its vector, and a call
that exhausts `MaxDepth` frames ends in `"overflow"`. `Dependency`,
`AlreadyStarted`, `StartOne`, `UnknownDependency` and `BusFails` are what a
frame can do. `ActivationOrder` has no stack and no order of registration.
In `UnitInspection` every property read of `inspect()` is a step (`GetUnit`,
`ActiveState`, `ReadSubState`, `NRestarts`, `Nice`), between which the unit may
run its job, crash, be restarted, reset or unloaded; a reply of the bus may be
invalid (`InvalidReply`).

### JournalReader, LogRecords

`log` is the journal from `low` on, which vacuuming raises; an entry is its time
and the fields a query selects on. A query of the audience "user" is also a native
match of the library, which then shows only those entries (`Visible`), so that the
cursor of another entry is not found. `read()` returns one of a set of pages,
because seeking a time is ambiguous after the clock was set back. `at`, `after`,
`since`, `page` and `delivered` are `follow()`, one read, one delivery or one
wait per step; `turn`, `got` and `top` a client that turns pages. In
`LogRecords` strings are sequences of chunks, of which only what the code asks
(size, character class, leading number) is known; writing and decoding are
operators, and a step takes one call from the catalogue of the instance.

### Sysmon, AddressRules, NetworkApply

`Sysmon` reads sysfs one access at a time (`ReadName`, `ReadCompatible`,
`ReadCanonical`, then `CheckLabel` ... `ReadOffset` for each channel) while the
kernel removes attributes and devices (`Vanish`, `Unbind`) and registers devices
under the lowest free number (`Bind`). The sorted lists of devices and of channels
are the sets still to be walked, and a step takes the least of them. An AMS device
without device-tree node (`Nodeless`) makes `compatible()` throw, which ends the
scan. `AddressRules` enumerates texts by their
fields, and addresses of `Width` bits. In `NetworkApply` `files` is what is in
the directory, `loaded` what networkd has read, `link` what each interface
runs with, `identity` what the device tree says of its hardware (nothing, the
node of the profile, or another one, which `interfacePolicy()` refuses also at boot); `WriteFile`, `Reload` and `ReconfigureLink` are one file and one bus
call each, `Fail` an exception or a crash at any of them.

### Storage

*State.* `disk` is all that survives power loss: partitions, settings, identity
(`product`), older layout, recordings, login paths, machine id, `/var/lib` and
the journalled `intent`. `mounted` says what is at `/factory`, `/state` and
`/data`; `archive` are the backups in RAM, in a temporary `/state`, and off the
device. `step` and `role` are the one program counter, as `prepare()` runs before
systemd and commands hold `maintenance.lock`. `restored`, `refused`, `exposed`
and `cut` are history; `cut` is the set of what an interruption has really left in
part.

*Actions.* `Boot` to `VarLib` are `prepare()`, with a partition that is
missing, damaged or left alone by a maintenance boot (`MountTmpfs`) and the
reset (`ReadJournal`, `Mkfs`, `RemovePath`, `Removed`). `Bootstrap` and
`resetDevice` are the daemon. `Backup`, `PublishBackup`; `Reformat`, `Umount`,
`Erase`, `Format`; `Restore`, `RestoreRole`, `Conflict`, `Sync` are the
commands. `Refuse` and `CommandFails` are failing tools, `PowerLoss` may come at
any step; both leave an interrupted `mkfs`, `rmtree` or `cp` half done, and
`PowerLoss` loses what was not synced. `disk_guard()` refuses a reformat while a
persistent `/state` is bound to `/var/lib` and other places (`Guarded`).

*Abstractions.* Settings are two documents and a lock file with a version; an archive
is what `verify_archive()` found in it (checksums are taken to do their work);
the labels of SELinux and the journal directory are left out.

## 3. Runs

| Run | Bounds | Properties |
|---|---|---|
| `network_transactions` | 2 networks, 2 preferences, 2 proposals, 1 fault, 1 crash | `TypeOK`, `NetworkJournalled`, `Agreement`, `OutcomeStable` |
| `jobs_and_reset` | 2 networks, 1 preference, 2 reset paths, 1 proposal, 2 jobs, 1 fault, 1 crash | `OneOperation`, `NeverInterruptedOnceHanded`, `MemoryIsJournal`, `IntentBeforeDeletion`, `IntentSurvives` |
| `progress` | boot preferences, 1 proposal, 1 job, 1 fault, 1 crash | `TransactionSettles`, `StorageFailureRecovers`, `ResetProgresses` |
| `effect_before_journal` | no proposal, job, fault or crash | `DurableBeforeEffect` is violated |
| `stale_cancel` | 1 proposal | `DurableCommitStands` is violated |
| `clock_modes` | NTP, IRIG and legacy unit, 2 PTP ports and an unmanaged one, no waiting start jobs | `TypeOK`, `Exclusive`, `ModeHolds` |
| `clock_progress` | NTP and local time, 3 server lists, waiting start jobs | `ServersInUse`, `ApplyEnds` |
| `services_and_logs` | up to 3 services with dependencies of 4 shapes, 1 unit; 3 entries, 2 times, 1 vacuuming; log calls at and above each limit | `FailureReported`, `OrderlyExit`, `BusOutlivesWorker`, `OverflowNeedsCircle`, `HonestReport`, `StrictContract`, `ReaderGetsCall`, `EntryBounded`, `StopEnds`, `FailureRestarts`, `OrderedStart`, `FollowExact`, `CatchesUp`, `StablePages` |
| `platform` | 4 IIO devices on 3 numbers, 2 moves of the kernel; texts of 9 fields, 6-bit addresses; 2 interfaces, 2 calls of `network()`; 2 settings, 2 uses, 3 boots | `PlatformTypeOK`, `HonestSnapshot`, `NeverForeign`, `RulesExact`, `Routed`, `PreferredWins`, `Recoverable`, `CopiesWhole`, `Erasure` |
| `servers_after_crash` | NTP, 1 PTP port, 2 server lists | `ServersReplaced` is violated |
| `queued_start` | NTP, 2 PTP ports, waiting start jobs | `Exclusive` is violated |
| `optional_started` | the instance of `services_and_logs` | `OptionalRests` is violated |

Why the bounds are enough. Two networks tell the old one from the proposed one,
and with two proposals the second starts from the outcome of the first, in each
direction. One fault and one crash may fall at any step of any handler
and of any recovery; a crash inside the recovery from a fault is included. Two
reset paths let power fail between deletions. Two jobs let one follow a job that
was interrupted, failed or dispatched. The clock runs bound nothing but the
profile: calls, failures, timeouts, crashes and boots are unlimited. Two PTP ports
are needed for a change within one mode, three server lists to tell the old, the
new and the restored one apart; the ports are symmetric.

The last two passing runs each hold several components that share no state: a
frozen variable `part` picks the one that a behaviour exercises, so that the
states add up and do not multiply; nothing is lost, since no step of one
component depends on another. Two kernel moves let a device go and another take its number;
nine fields are what eight groups and a `::` need, and six bits have every kind
of prefix. A second `network()` starts from what a failed first one left. With
three boots a reset can be asked for, cut, and completed, and a card can be
reformatted, restored after a restart, and used. Three entries and a page of one
put a vacuuming and a set clock between any two reads. The theorems of section 4 remove the bounds for
the properties they cover.

*What the runs show.*

* `NetworkJournalled`, `Agreement`: whatever expires, is cancelled, fails or
  crashes, a network that is not the journalled one runs only under an open
  transaction, and once none is open the running network, the journal and the
  settings file agree.
* `OutcomeStable`: no client is told both outcomes of a transaction.
* `OneOperation`: transactions, jobs and resets exclude each other in memory and
  in every version of the journal that could come back.
* `MemoryIsJournal`, `StorageFailureRecovers`: after an uncertain write nothing
  is served from memory, and the daemon restarts.
* `NeverInterruptedOnceHanded`: a reboot that was handed over is not reported as
  interrupted by the boot it caused.
* `IntentBeforeDeletion`, `IntentSurvives`, `ResetProgresses`: a reset deletes
  nothing before its intent is durable, forgets the intent only when all is
  gone and the defaults run, and gets there.
* `Exclusive`: two clock disciplines, or two PTP ports, never run together, not
  even while one is still stopping, through failed rollbacks and crashes.
* `ModeHolds`: a finished change, a completed rollback and a boot leave only the
  recorded mode running and startable.
* `ServersInUse`: NTP and networkd use the recorded servers although they are
  only restarted when a file changes.
* `ApplyEnds`: `apply()` ends even if systemd never runs its jobs.
* `FailureReported`, `OrderlyExit`, `BusOutlivesWorker`: whatever the moment at
  which the worker fails or a signal arrives, status 0 means an orderly,
  requested stop, and the worker never uses a released bus.
* `StopEnds`, `FailureRestarts`: a stop ends the process and a failed worker is
  replaced. The exceptions are stated: a worker that hangs, and an exception in
  the loop of `execute()`, which does not set the stop flag, so that `join()`
  waits until systemd kills the process.
* `OrderedStart`: `start_registered()` implements `ActivationOrder`, also in calls
  after a failed one: what it handles is needed by an automatic service and comes
  after its dependencies. `OverflowNeedsCircle`: it recurses without end only on a
  circle of dependencies.
* `HonestReport`: an inspection of a resting unit is exact, and a moving unit is
  called permanently failed only if it was seen failed and at its limit.
* `StablePages`, `StrictContract`, `FollowExact`, `CatchesUp`: strict paging loses
  and repeats nothing, and `follow()` neither skips nor starves an entry, apart from
  a clock that was set back. `read()` keeps the contract of `bounded_page()` for
  strict queries but for one case, which `StrictContract` states exactly: a cursor
  of an entry that the native match hides counts as expired.
* `ReaderGetsCall`, `EntryBounded`: a reader gets what a log call gave, and limits
  of writer and reader fit.
* `HonestSnapshot`, `NeverForeign`: a snapshot is exact while sysfs is still and
  nothing ends the scan, and says "ok" only if every reading has a value and, while
  sysfs is still, nothing ended the scan. It touches only SYSMON devices, and a
  foreign one only if that takes the very number in hand after its driver was checked.
* `RulesExact`: the scans and masks of the validation accept exactly the texts
  and subnets of the reference definitions.
* `Routed`, `PreferredWins`: after a successful `network()` every link has its
  settings and the preferred interface the best route, whatever half-written
  files networkd read before.
* `Erasure`: recordings, settings and logins go only by a journalled reset or a
  reformat with a verified archive, at no other boot, command or power loss (but
  for settings that `restore` has just copied and not yet synced); the intent
  survives until recordings, settings and logins are gone, over any sequence of
  power losses and failing mounts; identity and machine id survive a reset.
* `Recoverable`: the identity is on the disk or in an archive at every moment of
  a reformat, unless the device restarts while the archive is only in RAM, which
  the program warns of. `CopiesWhole`: a restore that reports success has
  restored everything; a restore is refused for what an earlier one left, and
  `/var/lib` is incomplete, only where an interruption really left a part.
* `TransactionSettles`: an open transaction is settled, whether or not anybody confirms it.

`Agreement` assumes `WriteBeforeDecision`: the authority writes the
candidate only while the daemon has not decided on a rollback (it stops when its
30 seconds are over, or when told the transaction is gone). Without that
assumption the code cannot keep the two files in step: `stale_cancel` shows the
daemon undoing a commit it looked for too early.

*Fairness* (`FairSpec`). `WF_vars(System)`: the process that runs takes its next
step; systemd starts the daemon (`Restart=on-failure`) and bootstrap at power
on. `SF_vars(TickExpire)` and `SF_vars(Dispatch)`: the worker waits at most 250
ms between ticks and the boot clock passes every deadline. Strong fairness is
needed because a tick that finds the deadline in the future goes past it, and
justified because a deadline is set once and time does not stop.
`SF_vars(MachineStops)`: a machine told to go down does. Nothing is assumed of clients, the authority,
or an operator, so a failed bootstrap, which has no `Restart=`, is an end
that `TransactionSettles` and `ResetProgresses` allow.

For the clock, `WF_vars(Daemon)`: the worker goes on, and `unit()` polls with a
deadline of its own, so nothing is assumed of systemd.

`MCFramework` states the fairness of its parts. The threads of the process are
scheduled, and the worker ends what it began unless it hangs, because every
bus call and wait of the backend has a timeout. `SF` on the wait that takes a
SIGTERM: `sigtimedwait()` returns a pending signal, and SIGHUPs cannot keep it
out for ever. `WF` on systemd's restart and on `follow()`, whose waits end after
`wake_interval`. `MCPlatform` assumes none.

*Findings.*

1. `backend.hpp` says "All durable changes precede their effects." `apply()`
   runs `platform_.preferences()` and then writes the journal
   (`effect_before_journal`). A crash in between leaves preferences running that
   no journal records until the authority applies its own again.
2. `storage.cpp` says "A durable settings commit cannot subsequently be
   cancelled by a stale caller." The hash that `finishNetwork()` checks is read
   before the links are reconfigured and not again (`stale_cancel`).
3. `source/README.md` says "A custom list replaces configured servers". NTP is
   restarted when the server file changes; after a crash (or failed rollback)
   between that write and the restart, applying the same list again finds the file as it
   should be and leaves NTP with the old servers (`servers_after_crash`).
4. `backend.cpp` says "stop the old clock discipline before enabling its
   replacement". `unit()` takes "inactive" for stopped, also when a start job it
   gave up on still waits; that job later starts the abandoned PTP port beside the
   restored one (`queued_start`). Between modes the marker files usually prevent this.
5. `service_manager.hpp:50-51` says "Optional units are registered and controllable,
   but are not started by start_registered()". `start_one()` starts whatever its
   service names in `after`, so an optional service is started when an automatic
   one depends on it (`optional_started`).

*Observations* that the properties above state as exceptions or as the behaviour
of the code, without a run of their own:

* `read()` and `bounded_page()` differ for queries that are not strict: where
  they begin without a cursor, and at a vacuumed one; and for a strict query of the
  audience "user" whose cursor is of another entry (`Hidden`).
* "It never opens an acquisition device" (README of the provider) is not
  unconditional: a device that takes the number in hand after the check of the driver
  is read (`rebound`). `NeverForeign` shows that this is the only way.
* An AMS device without device-tree node, or one that vanishes while it is
  identified, ends the scan, and the devices after it are not reported; the status
  is then not "ok".
* `follow()` waits for the time of its last entry after the clock was set back,
  and its first page is the newest one, so a burst before the first delivery
  that is longer than a page is cut.
* An offset attribute that disappears before it is looked for counts as 0: the
  value is then wrong and the status may be "ok".
* Power loss in the `mkfs` of a reset may leave the data partition without its
  label; every later `prepare()` then refuses, as the reset needs it.
* The first copy of `/var/lib` is not synced, and a partial one is taken for
  complete by later boots; a `cp` of restore that was cut makes the next restore
  refuse its own work. Both are the exception `cut` of `CopiesWhole`.
* The archive leaves out the lock file of the settings, which `backup` itself
  creates: restoring onto the settings that were backed up is a conflict.

## 4. Proofs

All theorems hold for every value of the constants that satisfies
`ConstantsAssumption` (configurations are made of networks and preferences,
`SettingsPath` is a reset path, `Unknown` and `NoFile` are values of their own,
the bounds are naturals), and for `ClockDiscipline` `ProfileAssumption` (NTP,
IRIG and PTP units are different units), for `ServiceManager`
`ServiceAssumption` (the catalogue is made of services), for `JournalReader`
`ReaderAssumption` (the shape of a query; `follow()` refuses one that is newest
first), for `Sysmon` `SysmonAssumption` (finitely many numbers, a device at one of
them, compatible devices at different nodes, channels from 1 to 99 with integer
values), for `NetworkApply` the shape of proposals, and for `Storage`
`VersionsAssumption` (0 is no version of settings, and there is one). A further
hypothesis of a theorem is in the table.

| Theorem | States |
|---|---|
| `TypeCorrect` | `Spec => []TypeOK` |
| `MemoryIsJournalAlways` | `Spec => []MemoryIsJournal` |
| `OneOperationAlways` | `Spec => []OneOperation` |
| `NeverInterruptedAlways` | `Spec => []NeverInterruptedOnceHanded` |
| `IntentBeforeDeletionAlways` | `Spec => IntentBeforeDeletion` |
| `IntentSurvivesAlways` | `Spec => IntentSurvives` |
| `NetworkJournalledAlways` | `Spec => []NetworkJournalled` |
| `AgreementAlways` | `Spec => []Agreement`, assuming `WriteBeforeDecision` |
| `OutcomesStay` | `Spec => OutcomeStable`, assuming `WriteBeforeDecision` |
| `ClockTypeCorrect` | `Spec => []TypeOK` of `ClockDiscipline` |
| `ExclusiveAlways` | `Spec => []Exclusive`, assuming `~QueuedStarts` |
| `ModeHoldsAlways` | `Spec => []ModeHolds`, assuming `~QueuedStarts` |
| `ServersInUseAlways` | `Spec => []ServersInUse` |
| `FailureReportedAlways`, `OrderlyExitAlways`, `BusOutlivesWorkerAlways` | `LifecycleSpec => []` each |
| `OrderedStartAlways` | `RegistrySpec => OrderedStart`, the refinement |
| `OwnUnitAlways` | `RegistrySpec => []OwnUnit`: no two services share a name or unit |
| `OverflowNeedsCircleAlways` | `RegistrySpec => []OverflowNeedsCircle`, assuming finitely many units and a stack with a frame for each |
| `HonestReportAlways` | `InspectionSpec => []HonestReport` |
| `StrictContractAlways` | `JournalSpec => []StrictContract` |
| `StablePagesAlways` | `JournalSpec => StablePages`, for a newest-first query with a limit that is not 0 |
| `FollowExactAlways` | `JournalSpec => FollowExact` |
| `NeverForeignAlways`, `HonestSnapshotAlways` | `SysmonSpec => []` each |
| `RoutedAlways`, `PreferredWinsAlways` | `NetworkSpec => []` each |
| `RecoverableAlways` | `StorageSpec => []Recoverable` |
| `ErasureAlways` | `StorageSpec => Erasure` |
| `CopiesWholeAlways` | `StorageSpec => []CopiesWhole` |

*Type correctness* is inductive as it stands. Lemmas give the type of a frame
and of what an exception leaves behind.

*Memory and journal.* `MemoryIsJournal` speaks of one place only. `Synced`
says where memory may be ahead of the journal (the places between a change of
`state_` and its write), that a failed write is known only to the tick that ends
the daemon and to the rollback of `apply()`, and which exceptions go to bootstrap.

*Exclusion.* `OneOperation` covers memory and both versions of the journal, and
is inductive with the types: a request that passes `idle()` starts the only
operation, and `Persist`, a crash or a restart only copies one version over
another (lemmas `JournalStep` and `WorkSteps`).

*Hand-over.* `Handing`: once the power call was made, the job is neither
"accepted" nor "interrupted" in any version of the state; at the call itself every version says
"dispatched", because it is reached only through that write.

*Reset.* `Resetting` says that bootstrap deletes only under a stable intent,
that no customer data comes back while it runs (services start after it), and
that when it writes the cleared intent every path is gone and the defaults run.

*The running network.* `NetworkJournalled` is lost at the next step unless one
knows what is about to be written. `Running` says it of the memory too while a
write is under way (`Covered`), that `settleNetwork()` and the apply of
`beginNetwork()` run under an open transaction, that bootstrap ends with the
network of `state_`, and that a device without journalled settings runs complete
ones until `start()` takes them over.

*Journal and settings file.* Between the authority's write and the end of the
transaction the two files differ, so `Agreement` is not inductive. `Agreed` says it
of the future: every version of the journal that a crash or power loss can bring
back would *recover* to the network of the settings file (`Decided`: a closed
transaction is its configuration, an open one is committed exactly if the file is
the candidate). For that `Grants` ties what the authority may write to every
version of the journal, `Verdicts` says that the verdict `settleNetwork()` works
with stays the right one until it is journalled, and `Frames` what each handler
holds in its locals. `WriteBeforeDecision` is needed in one step only, the
authority's commit. `Faithful` does the same for outcomes: every version
recovers to the outcome a client has been told, and nobody has been told
one while the transaction is open and served. So a client who hears "committed"
from one process cannot hear "rolled_back" from the next, whichever journal it reads.

*Clock disciplines.* `Complement`: what `clockUnits()` does not stop is exactly
what it starts. `Staged`: while units are stopped, every competing unit that
still runs is on the list; from then on only units of the target run; and a
queued start belongs to a unit that is still stopping, so nothing comes up behind
the loop's back. The last part is what `QueuedStarts` would break. `Marked`: the markers
written so far are right, hence all of them when the first unit is touched.

*Servers.* `InUse` follows the pending restart through `preferences()`: a running
NTP service that has not read the server file is still to be stopped, or the call
knows that it must restart it (`Served`); the same for the drop-ins and the reload
of networkd (`Linked`). It holds as long as every rollback completes; the finding
`servers_after_crash` is what happens otherwise.

*Process.* The invariant of `ServiceLifecycleProofs` relates the place of the
main thread to the worker's: before `OnStart` and after the join there is none, and
the result is only computed from `failed` when no worker can change it any more.

*Activation order.* `Inv` describes the stack: every frame is a registered service
that is needed (`OnStack`), the dependencies before its `next` are started
(`Passed`), and the loop has handled the services before `cursor` (`Looped`).
With it every step of the recursion is a step of `ActivationOrder` or a
stutter: `StartOne` is `Handle`, `CallReturns` is `Return`, exceptions are `Throw`.
`Chain`: each frame was entered for a dependency of the one below. A stack deeper
than the number of units holds a service twice (pigeonhole, with `OwnUnit`), and
the frames in between are the circle.

*Inspection.* `Watched`, `Witnessed` and `Filled` relate the half-filled report to
the states the unit had since the inspection began: what has been read so far
was true at some moment of it, and all of it of the only state if there was one.

*Journal reader.* A page is a set of entries put in order by their rank, so
lemmas say first that this is a bijection, and what the first entries of it leave
out (`AscendingOrder`, `TakeFacts`, `OldestFirst`, `NewestFirst`). `LogOK`: times
grow with the entries until the clock is set back. `PagesInv`: the entries received
go down, and of the journal of the first page nothing at or above the last is
missing. `FollowOK`: the continuation is the last entry delivered and its time;
without a failed seek that is the newest one delivered, and the page in hand is
beyond it.

*SYSMON.* `OwnDevices`: from the first look at the driver on, the path in hand
leads to an AMS device, to one that took its number (`rebound`), or nowhere. `HonestSnapshot` speaks of the end only;
`SnapshotInv` says of every place of the loops, while sysfs is still, which device
is in hand (`InHand`), that the readings so far are exactly those of the devices
before it and of its channels before the one in hand, with different ids (`SoFar`),
and what the locals hold of that channel (`Locals`), so that the value pushed is the one
`Truth` defines (`TruthFacts`). Ids differ because a device is bound once
(`SlotsOnce`), nodes differ and channels stay below 100. `SortedFacts`: sorting
keeps the readings, and different ids come out ascending; the place of a reading is
the number of those before it, a bijection. `Scanned` is about "ok": while sysfs is
still, every device the scan has passed can be read, and the one in hand as far as
it was looked at, so a scan that comes to its end has met nothing that ends it.

*Network files.* `ApplyInv` is `NetworkTypeOK` with `Validated` (the call in progress
passed `validateNetwork()`), `Phase`, and what each phase has achieved:
`PrefixWritten`, `AllWritten`, `AllLoaded`, `PrefixLinked`. `Routed` alone is not
inductive, because it speaks of the end of a call only, and networkd may be restarted
in the middle of it. `PreferredWins` follows from `Routed` and the metrics of
`renderNetwork()`.

*Storage.* `Recoverable` is not inductive: an archive in a temporary `/state` is
lost when reformat unmounts it. `Kept` leaves that copy out, and `InTmpfs`
says where it can be, so that at `Erase`, with all unmounted, the archive just
verified again is another one. `Older` says that the older layout has no state
partition, hence no journal and no reset that would format its only partition.
`Progress` says what `prepare()` has erased by where it is; `Erasure` needs it at
`Bootstrap`, which looks at nothing but `reset_prepared`. `InterruptedDisk` bounds
what a failure in the middle of a step does. `CopiesInv` follows a copy: where
`restore` is (`Phases`, `Restoring`), what it has placed (`Restored`), and that
without a cut every tree on the disk and in the archives is whole (`Uncut`).

*Only model-checked*, and why:

* `TransactionSettles`, `StorageFailureRecovers`, `ResetProgresses`, `ApplyEnds`,
  `StopEnds`, `FailureRestarts`, `CatchesUp`: liveness under fairness is outside
  of what the prover does.
* `ReaderGetsCall`, `EntryBounded`: decoding walks texts recursively, and what
  it returns for every text needs induction over them.
* `RulesExact`: the same for the scans of addresses and host names; masks use
  bit operations the prover does not know.
* `PlatformTypeOK` is the conjunction of three types, put together in `MCPlatform`
  beside the recursive operators; all three are proved, as parts of `SnapshotInv`,
  of `ApplyInv` and of the invariant of `Storage`.

## 5. Not modelled

* Platform queries (`discover()`, `status()`, `networkLinks()`, temperatures, the
  time zone catalogue) read the system and change nothing.
* The access policy is a stateless table; a refused request is a `ServeNone`
  step of `SystemManager`. The client library makes one call per method.
* `fwctl` makes single writes to the remoteproc files of the kernel, whose state
  machine, which decides everything of interest, is not in the repository.
* SELinux labelling, preboot (but for the shell it starts when `prepare()`
  fails) and the RAM root are linear boot stages without concurrency; what a
  crash leaves is decided by the tools they call.
* The JTAG loader is a linear script against hardware the repository does not
  describe; the production flasher is a linear script that runs once, attended.
* `mnc-artifact.py` is a sequential tool of the build host that hashes files.
* Recipes, classes, device trees, patches, product templates and `yocto-script`
  are build-time metadata.

Inside modelled parts: wire encoding (JSON over D-Bus), the wording of messages
and audit events, labels and units of sensor readings, character classes of
single names, and the commands of `mnc-storage` that only print are left out.
