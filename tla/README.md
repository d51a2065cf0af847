# TLA+ models of the gs201 device code

These modules model the parts of `device/google/gs201` that keep state, run
concurrently or survive failures: the USB HAL, the USB gadget HAL, the USB data
session monitor, the controls of the Type-C port, the reading of its status, and the
script that migrates the persist partition to ext4. TLC
checks them on small instances; TLAPS proves their type correctness, their safety
properties and that they implement four abstract specifications, for every value of
the constants. `PROJECT.json` lists the
runs, the mutants that show what each property can detect, the source lines every
definition stands for, the findings and the hazards.

Run everything from this directory:

    tlc -workers 2 -config UsbHal_safety.cfg MCUsbHal     # any run of PROJECT.json
    tlapm UsbHal_proofs.tla                               # any *_proofs module

## 1. Inventory

The repository is a device tree: mostly declarations (init triggers, overlays,
product makefiles, sysfs paths), around a handful of programs. Those with logic of
their own come first.

### USB HAL (`src/usb/usb/Usb.cpp`, `Usb.h`, `service.cpp`)

The `android.hardware.usb` service. *State*: `mCallback`, `mUsbDataEnabled`,
`mPartnerUp`, the static `destroyThread`, the thread handle `mPoll`, three mutexes
(`mLock`, `mRoleSwitchLock`, `mPartnerLock`) and a condition variable; the sysfs nodes
it writes belong to the state as well. *Actors*: one binder thread (`service.cpp:28`
asks for no more), the poll thread that `setCallback` creates and ends, the thread of
the data session monitor, and the kernel. *Operations*:

- `setCallback` registers the framework and creates the poll thread, or unregisters it
  and joins the thread after a signal;
- `switchRole` writes a data or power role, or has `switchMode` write `port_type` and
  wait for the partner to come back, with a timeout and a way back to `dual`;
- `queryPortStatus`, `updatePortStatus` and the poll thread read the ports' state and
  report it (`queryVersionHelper`, under `mLock`);
- the poll thread serves uevents (`uevent_event`): it signals `mPartnerCV`, reports, and
  sets ports without a partner back to `dual` if no role switch is under way;
- `enableUsbData`, `enableUsbDataWhileDocked`, `resetUsbPort` write several nodes in turn;
- `limitPowerTransfer`, contaminant detection and port mode extension (`UsbExt`) write
  nodes, with some state between them: `enabledPath`, the static variable of `strtok`, and a
  property that init acts on; the hub vendor command stores two words for libusbhost's thread;
- a port status is read file by file (roles, mode, data status, power brick, moisture, power
  limit, compliance warnings) while the kernel goes on changing the files.

*Hard*: the signal that can come before its wait, the timeout that races it, a join under a lock
the other thread needs, three threads that report, writes of which some fail, a restart that
forgets `mUsbDataEnabled`, a node (`PULLUP_PATH`) that another process writes too, a lookup that
keeps its place in a static variable and is made with `mLock` and without it, a property read
before the write it forbids, and a status put together from files of different moments. *Correct
when*: no signal is lost, a failed switch leaves its port dual, a switch that is done has seen a
partner arrive, the framework ends up with the newest state as if one thread reported it,
`SUCCESS` of a call is true, a status never mixes a partner with none.

### USB data session monitor (`src/usb/usb/UsbDataSessionMonitor.cpp`)

A thread of the USB HAL. *State*: `mDataRole`, `mUdcBind`, the start of the session, the
states read for three files, the descriptors in the epoll set. *Operations*: the handlers
of the role file, of a state file and of uevents (`bind@`, `unbind@`, `change@`), which end
a session, upload it and begin the next. *Hard*: epoll promises no order among the
files, and a handler reads what the kernel has by then, not what woke it. *Correct
when*: a session is reported once, with its own states only, and the monitor follows the
kernel's role, binding and host ports.

### USB gadget HAL (`src/usb/gadget/UsbGadget.cpp`, `service_gadget.cpp`)

A process of its own. *State*: `mCurrentUsbFunctions`, `mCurrentUsbFunctionsApplied`, the
gadget in configfs, the `MonitorFfs` thread of libpixelusb. *Operations*:
`setCurrentUsbFunctions` (move the controller's interrupt to a big core or back, tear down,
choose a product id, link, pull up or leave that to the monitor, wait with a timeout, limit
an accessory's current), `reset`,
`getCurrentUsbFunctions`, and the monitor's callback. *Interacts* with the USB HAL
through `PULLUP_PATH`, with userspace through FunctionFS descriptors and a property.
*Correct when*: what the callback hears, what `mCurrentUsbFunctionsApplied` says and what
the gadget shows agree.

### Migration of persist (`src/convert_to_ext4.sh`, `src/conf/init.gs201.rc`)

Runs on every early-init of a debuggable build. *State*: the file systems and contents
of persist and efs, which outlive the run; `PERSIST_FS` and `RETRIES`, which do not.
*Operations*: format efs, copy, compare, format persist, copy back, compare checksums,
erase efs, each of which can fail and be retried. *Hard*: a power loss at any point, a
command that fails half way, a later boot that goes by what it finds. *Correct when*: the
newest files are always whole on one of the partitions.

### Components without a module

Health HAL, pixelstats, power stats (tables and glue for libraries that are not in this
repository), `wait_for_strongbox` (one polling loop), the fingerprint test tool (one
call), the UFS firmware update (a guarded `dd`), dumpstate (prints files), the init
scripts (declarations; where a modelled component meets them they are part of its
module), overlays, configuration and firmware (data). The reason for each is in the
`components` of PROJECT.json. The USB HAL's overheat report keeps no state.

## 2. Modules

| Module | Models | Runs | Proofs |
|---|---|---|---|
| `UsbHal` (`MCUsbHal`) | threads, locks, role switches and reports of the USB HAL | `UsbHal_*` | `UsbHal_proofs` |
| `PortReports` | abstract: what the framework is promised of reports | (with `UsbHal`) | (with `UsbHal`) |
| `PortStatus` (`MCPortStatus`) | a port status, file by file | `PortStatus_queries` | `PortStatus_proofs` |
| `PortControls` | power limit, contaminant detection, port mode | `PortControls_calls` | `PortControls_proofs` |
| `UsbData` | data signalling, node write by node write | `UsbData_*` | `UsbData_proofs` |
| `UsbDataSessionMonitor` | the monitor thread and the kernel | `UsbDataSessionMonitor_*` | `UsbDataSessionMonitor_proofs` |
| `SessionLog` | abstract: what the stats service is told of sessions | (with the monitor) | (with the monitor) |
| `UsbGadget` (`MCUsbGadget`) | the gadget HAL and `MonitorFfs` | `UsbGadget_*` | `UsbGadget_proofs` |
| `GadgetView` | abstract: what the host and the framework see of the gadget | (with `UsbGadget`) | (with `UsbGadget`) |
| `PersistMigration` | the script, power losses, the system | `PersistMigration_*` | `PersistMigration_proofs` |
| `KeptFiles` | abstract: what a migration promises of the files it moves | (with the migration) | (with the migration) |

Variables and actions keep the names of the source where TLA+ allows it; an operation
with several steps has one action for each, and a `pc` that says where it is. A step
ends where a thread may block, or where what it does next can meet another actor.

**UsbHal.** `pc` has a place for each thread; `owner` is who holds which mutex.
`pthread_cond_timedwait` is three actions (release and sleep, be woken or time out, take the
mutex again), so that the partner's signal can fall between any two. A callback is registered or
not; a status is which ports have a partner, as that is what reports change with. `DestroySeen`
is the test of the loop; `PollFails` stands for the failures that end the poll thread (no
socket, no epoll descriptor, `epoll_wait` failing with something other than `EINTR`). A uevent
that finds the socket full is lost, as the kernel loses it. Variables of an observer
(`reported`, `refused`, `missed`, `skipped`, `arrived`) record what the properties need and no
guard reads. `Heuristics` says whether compliance warnings exist: this version has none
(`UsbDataSessionMonitor.cpp:227`), but the monitor thread is wired to report them, and the
safety runs check that third reporter. The writes of the data calls are in `UsbData`.

**PortReports.** The abstract specification of the reports: one reporter looks at the ports,
hands on what it has seen, and only then looks again; a callback is registered or given up
between two reports. It knows no threads, no locks and no uevents. `UsbHal` implements it
(`ReportsAsOne`, an `INSTANCE` with the ports' state, the last report, and what the thread that
is about to report has seen): three threads look like one that never goes back in time.

**PortStatus.** One query is one step per file, as `getPortStatusHelper` and the three query
functions read them; `connected` is what the directory said at the start. Between any two
steps the partner may come or go and roles may be swapped, and any read may fail.
`StatusOf` is written independently of the order of reading: the status of a port that stays
as it is. A read of the partner's files fails when the partner has gone, which is what keeps
a status consistent.

**PortControls.** `last` is `strtok`'s static variable, with what the text goes on with; a
lookup is two steps. `Lookup` is made with `mLock` by a query and without it by
`limitPowerTransfer` and `setPortSecurityState`. Each node is written in a step of its own and
may refuse. `Forbid` is the property and the script init runs for it, in two steps. `Restart`
is the death of the process at any point. `met`, `late`, `refused`, `told` and `reported` belong to
the observer.

**UsbData.** `node` is the value of each node, `pc` the node a call is at; every write may
fail. The poll thread is reduced to its two steps under `mLock`. `GadgetHalPulls` is what
`UsbGadget` does to `PULLUP_PATH`, `CableChanges` the controller that follows the cable,
`Restart` the death of the process, at any point, and init's restart.

**UsbDataSessionMonitor.** `states` has, for each state a handler
kept, the session it was read in, which is all the properties tell apart; the state itself
is left out.
`pending` is the epoll set's ready list, served in any order; `uevents` is the socket. At the
start any of no state files, the device's, the hosts' and all may be there.
`udc` is `"unbinding"` between the uevent and what it announces. `mDataRole` starts with any
value: the source does not initialize it.

**SessionLog.** Sessions follow each other; each is told of once at most, by entries of ports
of one kind, one entry per port, with nothing of another session in them; what was told
stays. It knows no files, no epoll set and no roles. `UsbDataSessionMonitor` implements it
(`TellsOfSessions`): a role change is `Begin`, which tells of the session that ends unless it
has been told of; an unbinding of a pulled down device is `Tell`, and the binding after it
`Begin` again; all the rest stutters.

**UsbGadget.** `resetGadget` and `resetMonitor` are the two halves of `tearDownGadget`: the
monitor thread is alive in between. `MoveIrq` and `Unvote` are the core of the controller's
interrupt and the accessory limit; either may fail, which `settled` remembers.
`waitForPullUp` is the end of the wait and `TellPullUp` the callback with its result: between
the two libpixelusb's lock is free again, and the monitor may pull the gadget down (`lost`). The product
table and the order in which functions
are linked are translated in full. `CanPullUp` is what the kernel demands of a gadget.
What belongs to libpixelusb is modelled by how it is used, and marked external in the
map.

**GadgetView.** The host sees a configuration (what is linked, and a product id) or none; it
never sees one turn into another without a disconnection between. Once the gadget has been
taken apart for a request, what is seen fits that request. A request is answered once, again
only if the answer did not get through. When it is answered with SUCCESS the host sees the
gadget, or has seen it for this request and has lost it since (`lost`). `UsbGadget` implements it
(`SeenAsAsked`), with what the USB HAL does to `PULLUP_PATH` as the others who meddle. `Fitting`,
what fits what, is the product table with the links of the *same* vendor functions; the code
reads them twice (`UsbGadget.cpp:417`), and a request that met a change between the two need not
fit (`mixed`).

**PersistMigration.** A partition is a file system and the version of persist's files it
holds whole. What a command leaves when it fails or the power goes is `TornFormat`,
`TornCopy`, `TornDd` and `TornErase`. `MountAll` formats what starts with zeros, as the fstabs
ask for. `SystemWrites` is the system that changes whatever files it finds in a mounted persist,
the newest, older ones or none. `faults` names three things the script does not survive (below).

**KeptFiles.** Files have a home, where they are changed, and a spare place; each holds one
version whole or none. A version gets from one to the other as it is, and the last whole one is
never given up. While nothing goes wrong, that one is the newest, and home never gets an older
one back. What is left of this depends on what went wrong: when home was changed while the spare
place was still to be copied there (`stale`), older files may replace newer ones, as `dd` then
does (`convert_to_ext4.sh:150`), but some version stays whole; after a place was damaged (`broken`)
no more is promised than that the step which damages it leaves a whole version somewhere.
`PersistMigration` implements it (`KeepsNewest`) with persist as the home and efs as the spare place.

`UsbHal`, `UsbData`, `PortControls` and `PortStatus` are views of one process. Each has its own
copy of `queryVersionHelper`, in the detail its properties need: which ports have a partner,
the data status, the power limit, every field. They share no variable but `mLock`, and no
binder call is in two of them.

## 3. What the runs check

*Bounds* are constants, so that a run says how far it went; the proofs hold for any.

| Run | Shows | Bounds, and why they are enough |
|---|---|---|
| `UsbHal_safety` | no lost partner signal; a poll thread exactly with a callback; a failed switch leaves its port dual; one that is done had a partner arrive; reports end current; a port without partner is dual; the reports of all threads are those of one (`PortReports`) | one port (what the device has), three calls (register, switch, unregister or a second switch), two waiting uevents (an old one and its successor) |
| `UsbHal_live` | a role switch ends; a state that stays reaches the framework, also when the port is quiet from then on | one port, two calls, one uevent, no compliance warnings (they would report a quiet port's state for the poll thread): the liveness of one switch or one report, which earlier ones do not change as every call starts from `idle` |
| `UsbData_calls` | the flag, the nodes and what the framework knows agree; `SUCCESS` is true; calls end | four calls or restarts: one to fail, one to diverge, one to repair, one to profit |
| `UsbDataSessionMonitor_sessions` | reported once; own states only; the monitor implements `SessionLog`; role, binding and hosts are followed; a role that stays is the monitor's | two changes of the kernel, in any order, from any state it may start in: a pulldown and a role change, a role away and back, a port that comes and goes; a uevent may wait since before the files were opened. A third costs eight times the states and shows nothing new for the properties that are proved for any number, as all the safety properties are |
| `UsbGadget_requests` | applied means up; shown as asked, and down if asked for none; one notice; neither limit nor core outlasts its request; SUCCESS means up, or lost since the wait; the gadget HAL implements `GadgetView`; requests end; descriptors that stay bring the gadget up | five kinds of request (none, pulled up at once, FunctionFS with another, accessory, to be enabled by a property), two vendor settings, three calls: one that leaves something behind, one that meets it, and what is then shown |
| `PersistMigration_boots` | files survive, the copy as long as it is needed, and no older ones come back, unless one of three faults happens; with and without faults the partitions implement `KeptFiles`; only a copy is erased; a run ends | three tries, four boots, two writes: a run that is cut short, one that fails, one that ends, and one that finds it done |
| `PortControls_calls` | a lookup is wrong only if it met one without the lock; answers are true; the reported limit is the node's; forbidden detection is written once more at most | two calls after the constructor's: one that leaves something behind and one that meets it; restarts and uevents are not bounded |
| `PortStatus_queries` | an undisturbed status is the port's; no disturbance mixes a partner with none | every combination of the role files with a few of the rest and the other way round; three disturbances in a query: a partner that leaves, one that comes back, and a swap between |

Every `*_claims*` run checks one statement of a comment or a message of the source and
ends with a counterexample: section 5.

`CHECK_DEADLOCK FALSE` is used where a bound stops the callers, the kernel or the boots and
the rest has nothing left to do.

### Fairness

- `UsbHal`: strong fairness of each thread, as a mutex that is free again and again is
  taken in the end although it is not free all the time; weak fairness of the delivery
  of a signal; strong fairness of the timeout, which spurious wakeups may interrupt.
  None of the callers, of the partner or of the warnings; and none of `PollFails`: a poll thread
  with nothing to serve may sleep in `epoll_wait` for ever, so `ReportConverges` speaks of a
  quiet port too.
- `UsbData`: strong fairness of the binder thread, which waits for `mLock`; weak fairness
  of the report the poll thread has begun. Uevents need not come.
- `UsbDataSessionMonitor`: weak fairness of each handler. epoll serves ready descriptors
  in turn, so a file that changes for ever keeps no other from being read.
- `UsbGadget`: weak fairness of a request, of a reset and of the monitor thread. The
  wait's timeout is a step of the request. None of userspace or the USB HAL.
- `PersistMigration`: weak fairness of the script; the power need not stay on.
- `PortControls` and `PortStatus` check safety only: their steps neither wait nor retry.

## 4. What is proved

Most theorems are of the form `Spec => []P`, `Spec => [][A]_vars` or, for a refinement, that `Spec`
implies the abstract specification under its mapping; they hold for every value of the
constants under the modules' assumptions: there is a port (the source writes element 0
of the port vector), bounds are natural numbers, requests and vendor settings are among
those the source knows. Each `*_proofs` module defines an inductive invariant, proves that
`Init` implies it, that every action preserves it, and that the properties follow.

- **UsbHal** (`Inv`). `LockInv` derives the owner of each mutex from the threads' places;
  `PartnerInv` says that between the reset of `mPartnerUp` and the sleep nobody can set it;
  `JoinInv` that a join is for a thread that exists; `ReportInv` that a status about to be
  reported, and the last one reported, is current unless a change is pending. The last is needed
  because `ReportIsCurrent` speaks of the end of a report only. `RestoreInv` says that a port
  that should go back to `dual` is always somebody's to restore: the switch's that wrote it, or
  that of the scan that a waiting uevent or the poll thread's place still leads to, unless it
  was skipped; and that a partner that ends a switch's wait leads to such a scan, for it may be
  another port's. `ArrivalInv` says that while a switch waits, a set `mPartnerUp`, or an arrival
  that is about to set it, was there to be seen when the wait began or came since. Proved:
  `TypeCorrect`, `NoSignalIsLost`, `PollThreadFollowsCallback`, `ScanAndSwitchExclude`,
  `FailedSwitchLeavesDual`, `DoneSwitchHadArrival`, `DisconnectedPortsAreDual`,
  `ReportsAreCurrent`, `Invariant`, and the refinement `ThreadsReportAsOne`. Its argument: the
  initial states map to an initial state of `PortReports`; at most one thread is between reading
  a status and reporting it, as both happen with `mLock` (part of `Inv`), so what it has seen is
  well defined; reading it maps to `Look`, reporting it to `HandOn`, the two ends of
  `setCallback` to `SetCallback`, a partner that comes or goes to `PartnerChanges`, and every
  other step to a stutter.
- **UsbData** (`IInv`). `Course` says which calls pass through which steps, `Progress` what
  the writes so far have done, `Told` what has been read and reported under `mLock`.
  Proved: `TypeCorrect`, `FlagFollowsNode`, `AnswersAreTrue`, `StatusIsReported`.
- **UsbDataSessionMonitor** (`IInv`). `Reporting`: a session that was reported before its end is
  that of a pulled down device, which nothing reports again. `Tagged`: what has been read of the
  ports in use is of this session. `UdcBind`: without a `change@` on its way the binding is
  right or in doubt. `HostsKnown`: the last waiting uevent of a host tells whether it is there
  now, whatever the ones before it tell, and with none waiting the epoll set does. Proved:
  `TypeCorrect`, `SessionsReportedOnce`, `UploadsAreOfTheirSession`, `RoleIsFollowed`,
  `UdcBindIsFollowed`, `HostsAreWatched`, and the refinement `MonitorKeepsSessionLog`. Its
  argument: by `Tagged`, what `reportUsbDataSessionMetrics` hands on (`UploadsOfRole`) is of the
  ports of `mDataRole` and of this session only, so adding it is `Add` (`ReportAdds`);
  `Reporting` says that a role change which ends a session already told of reports nothing
  (`RoleChangeBegins`), and that an unbinding reports only what was not told yet and a binding
  begins a session (`BindChangeTells`); every other step leaves the session and the uploads
  alone (`StepTells`). `EntriesBelongTogether` is then proved of the steps of `SessionLog`
  alone: over the whole log, however long, a port has one entry per session, and a session is of
  the device port or of host ports.
- **UsbGadget** (`IInv`). `Course`, `Watching` (the monitor stands still while the gadget is put
  together), `TornDown`, `NoneUnwatched`, `Shown`, `Applied`, `Told` and what is left of the
  interrupt's core and the limit carry what holds between requests through them. Proved:
  `TypeCorrect`, `AppliedIsUp`, `ShownAsAsked`, `OneNotice`, `LeftoversAreGone`, `SuccessIsUp`,
  and the refinement `GadgetIsSeenAsAsked`. Its argument: links and product change only while
  the gadget is down (`TornDown`, and `CanPullUpWhen` for what the kernel allows), so the host
  sees no change while connected (`WorkSeen`); once nothing is left to link, they are the
  functions on record, of the one reading of the vendor property made in this request unless two
  differed (`ConfigurationFits`, `PullUpConnects`); an answer is the first, or the one before
  was refused (`Told`), and SUCCESS has the gadget up or lost since the wait (`SuccessStep`,
  `WorkAnswers`); the teardown is `TakeApart` (`ResetTakesApart`), a call or a restart is `Ask`
  (`BeginningAsks`).
- **PersistMigration** (`IInv`). `NoLossWithoutFault` does not say which partition has the
  files, so not what the next command may overwrite. `Where` says it for each command, as long
  as no partition was damaged: only persist, in efs, or migrated. `Newest`, as long as nothing
  went wrong: persist has no files but the newest, nor has an efs that is to be copied there.
  `Checked`, always: what `diff` and the checksums compared is still equal when the command after
  them runs. Proved: `TypeCorrect`, `NewestFilesSurvive`, `OnlyACopyIsErased`, and the refinement
  `MigrationKeepsFiles`, which holds with faults and without. Its argument: a command copies
  whole contents or empties a partition (`FilesMove`); the partition it empties was not the only
  one with files unless one was damaged before (`StepKeepsSome`, by `Where` and `Checked`), nor the
  only one with the newest while nothing went wrong (`StepKeepsNewest`); and the system's write is
  `Change`, on newest files unless something went wrong before (`WriteIsChange`).
- **PortControls** (`Inv`). `LockInv` says who holds `mLock` where, and which call is at which
  place; `MetInv` that a lookup that has met no other finds `strtok`'s variable as it left
  it, which two lookups under the lock cannot break; `TodoInv` and `ToldInv` that a node of
  the call is still to be written, has its value, or is among the refused ones;
  `ForbiddenInv` that only a call past its test of the property has a detection write left;
  `ReportedInv` what is known of the limit. Proved: `TypeCorrect`, `LookupsUnderLockAreRight`,
  `CallersAreToldTheTruth`, `LimitIsReported`, `ForbiddenIsOff`.
- **PortStatus** (`IInv`). `Together` says place by place which of power role, data role and mode
  an undisturbed and a disturbed query may have filled in; `Filled` that a query nothing
  disturbs has filled in the port's fields so far, before a plain charger is made a
  partner by the last step. Proved: `TypeCorrect`, `RolesAreTogether` (any number of
  disturbances), `UndisturbedStatusIsPorts` (any port: the run has a selection).

**Bounded runs.** What liveness rests on besides fairness is proved: `StepsLeft` counts the
steps a run of the script (`RunsAreBounded`), a data call (`CallsAreBounded`) or a gadget
request (`RequestsAreBounded`) has left at most. It is never negative, every step of the run
takes something off it, whatever fails, and no step of another actor adds to it until the run
has ended. For the script the bound is ten steps a try and nine more, for any number of tries;
for a gadget request it is twelve; for a data call also that it finds `mLock` taken only while
the poll thread makes a report. That a step which can be taken is taken is fairness, and stays
with TLC.

Only model-checked: the liveness properties (`SwitchRoleEnds`, `ReportConverges`, `CallsEnd`,
`RoleConverges`, `RequestsEnd`, `FfsConverges`, `ScriptEnds`), as the prover has no rule for
fairness and ENABLED. Every safety property that a run checks is proved, and so
are the four refinements. The type invariants of `UsbHal`, `UsbData`, `UsbDataSessionMonitor`,
`UsbGadget` and `PersistMigration` are proved (`TypeCorrect`) and no longer run. Induction over data
and RECURSIVE operators are out of the prover's reach as well; the modules need neither.

## 5. Findings

Where a comment or a message and the code disagree; each has a run whose
counterexample is the scenario, and PROJECT.json quotes the text.

| Run | What happens |
|---|---|
| `UsbHal_claims_destroy` | SIGUSR1 arrives between the test of `destroyThread` and `epoll_wait`, and is not noticed: the counterexample TLC prints. The other half is independent of it: `setCallback(NULL)` holds `mLock` while it joins the poll thread, which may be about to take it. Either way the thread never ends. |
| `UsbDataSessionMonitor_claims_device` | A device state file that is absent at the start is never monitored. |
| `PersistMigration_claims_f2fs` | After mke2fs of persist fails half way, the next try formats efs, the only copy (fault `format`). |
| `PersistMigration_claims_new` | A power loss while persist is formatted leaves it of unknown type, its files in efs, and the script takes the device for a new one. If persist starts with zeros by then, `mount_all` formats it and the system starts with an empty one, until the next boot copies efs there; if not, every later boot stops the same way. |

Other limits of the code show as the exceptions the properties name, rather than as
runs of their own:

- `FlagIsDataNode` excepts `diverged`: `mUsbDataEnabled` is not the data status after a
  failed call or a restart (`Usb.cpp:173`, 565).
- `UdcBindIsCurrent` excepts `doubt`: the 50 ms delay need not be long enough for the
  unbinding (`UsbDataSessionMonitor.cpp:373`).
- `NoLossWithoutFault` excepts `erase` (the erasure of efs fails half way, and the next
  try copies what is left over persist) and `stale` (an efs left by an earlier boot is
  copied over files the system has changed since). Under `stale`, `KeepsNewest` promises some
  whole version and not the newest.
- `AppliedMeansUp` excepts `late`: the monitor thread of the request before may announce
  its pullup after the new request has cleared the flag (`UsbGadget.cpp:123`).
- `SuccessMeansUp` and `SeenAsAsked` except `lost`: the monitor may pull the gadget down after the
  wait has seen it up and before SUCCESS is told (`UsbGadget.cpp:479`, 480).
- `PresentedAsAsked` and `SeenAsAsked` except a request whose two readings of the vendor property
  differ (`read`, `mixed`; `UsbGadget.cpp:417`).
- `DoneMeansArrival` lets an arrival that was in the socket before the port was written, or one
  of another port, end a switch's wait, as `mPartnerUp` does (`Usb.cpp:1067`).
- `ReportIsCurrent` and `ReportConverges` except `missed`: a change that came while no socket was
  open, or found it full, is not reported (`Usb.cpp:1053`).
- `DisconnectedPortIsDual` excepts `skipped`: the poll thread gives up restoring a port
  when a role switch holds the lock, and nobody repeats it (`Usb.cpp:1081`).
- `LookupWrongOnlyIfMet` excepts `met`: `limitPowerTransfer` and `setPortSecurityState` look the
  bus up without `mLock`, and `strtok` is not reentrant (`Usb.cpp:261`).
- `ForbiddenStaysOff` excepts `late`: a call that has read the property before it is set
  writes the node after init's script (`Usb.cpp:988`).

The three faults are excluded from `NoLossWithoutFault` by name, so it says that nothing else
loses files.

## 6. Not modelled

- In `UsbHal`: everything of a port status but the connectedness of the ports, which is in
  `PortStatus`, `UsbData` (data status) and `PortControls` (power limit).
- The hub vendor command. Its state is two words that `handleShellCommand` stores and libusbhost's
  thread loads, without a lock (`Usb.cpp:505`): a hub may be sent the value of one command and the
  index of another, and what is left to say without that race restates the assignments.
- In `UsbHal`: reads of a query that fail (`Usb.cpp:850`-934), after which the framework is told ERROR
  with a status without the roles: its reports are those of queries that succeed. `PortStatus` has
  the failures.
- In `UsbDataSessionMonitor`: a failed read of the role file, which would count as NONE, and an
  `epoll_wait` that fails with something other than `EINTR`, which would end the thread.
- In `PortStatus`: a Type-C class directory that cannot be opened or has no port (`Usb.cpp:815`);
  the code then looks at the first of no port statuses.
- Failures of binder calls to the framework in `UsbHal` and `UsbData`: they are logged.
- Memory: the monitor's descriptors are leaked by `release()` at each unbind
  (`UsbDataSessionMonitor.cpp:89`); nothing in the models counts them. `PortControls` has the
  text `strtok` may go on with after it is freed, and then allows a wrong bus.
- Time: a timeout may happen at any moment of a wait, and need not before it is the only
  thing that can.
- In `UsbGadget`: the speed that `getUsbSpeed` reads and keeps for nobody, the node that
  `updateSdpEnumTimeout` only writes, and what the power supply makes of the accessory limit.
- In `PortStatus`: a device has one port, and the module has one; what a failed read leaves
  in a buffer is not looked at by the code.
- In `PersistMigration`: names and modes of files, mount points, and the log.
- The other programs of the repository hand values on between libraries that are not in it
  (health, pixelstats, power stats), print (dumpstate) or run once and in a line
  (firmware update, `wait_for_strongbox`, fingerprint test): they keep no state that two of
  their steps could disagree about.

## 7. Plan

1. Composition of `UsbData` and `UsbGadget` over `PULLUP_PATH`, with `GadgetHalPulls` and
   `UsbHalPulls` replaced by the other module's actions.
2. `UsbHal`'s role switch has no such bound as the calls and runs of section 4, as spurious
   wakeups may go on; a bound between two of them, and one for the monitor's uevents, remain.

`PortControls` and `PortStatus` have no abstract specification besides their properties:
`StatusOf` is the reference `PortStatus` is compared with, and `PortControls` is several operations
with a property for each.
