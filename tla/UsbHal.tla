------------------------------- MODULE UsbHal -------------------------------
(***************************************************************************)
(* The threads of the USB HAL service (usb/usb/Usb.cpp) and the three      *)
(* mutexes and one condition variable they meet at:                        *)
(*                                                                         *)
(*   binder   the only thread of the binder pool (service.cpp asks for no  *)
(*            more); it runs setCallback, switchRole and queryPortStatus   *)
(*            one after the other                                          *)
(*   poll     work(): reads kernel uevents; exists while a callback is     *)
(*            registered                                                   *)
(*   monitor  the thread of UsbDataSessionMonitor, which is wired to call  *)
(*            updatePortStatus whenever a compliance warning changes; the  *)
(*            heuristics that would find one are still to be written       *)
(*            (UsbDataSessionMonitor.cpp:227), so they are a constant here *)
(*                                                                         *)
(* The kernel side is the state of each Type-C port (a partner is attached *)
(* or not, and the port_type node) and the queue of uevents that the       *)
(* netlink socket of the poll thread holds.                                *)
(*                                                                         *)
(* A step ends where a thread may block, or where what it does next can    *)
(* meet a step of another thread.                                          *)
(***************************************************************************)
EXTENDS Naturals, Sequences

CONSTANTS
  Ports,        \* names under /sys/class/typec that are not "-partner"
  Heuristics,   \* does evaluateComplianceWarning have any?  Not in this version
  MaxRequests,  \* bound: binder calls served
  MaxUevents    \* bound: uevents waiting in the socket

\* queryVersionHelper writes element 0 of the port vector unconditionally.
ASSUME PortsAssumption == Ports # {}
ASSUME HeuristicsAssumption == Heuristics \in BOOLEAN
ASSUME BoundsAssumption == MaxRequests \in Nat /\ MaxUevents \in Nat

Threads == {"binder", "poll", "monitor"}
Locks == {"mLock", "mRoleSwitchLock", "mPartnerLock"}
Free == "free"

PortTypes == {"dual", "source", "sink"}

\* What convertRoletoString makes of a mode role: DFP, UFP, anything else.
\* The kernel refuses "none" as a port_type.
ModeNames == {"source", "sink", "none"}

\* A binder call: setCallback with or without a callback, switchRole of a port
\* to a mode or to a data or power role, queryPortStatus.
Call(op, cb, port, role) == [op |-> op, cb |-> cb, port |-> port, role |-> role]
SomePort == CHOOSE p \in Ports : TRUE
NoCall == Call("queryPortStatus", FALSE, SomePort, "none")
Calls ==
  {NoCall} \cup {Call("setCallback", cb, SomePort, "none") : cb \in BOOLEAN}
  \cup {Call("switchRole", FALSE, p, r) : p \in Ports, r \in ModeNames \cup {"other"}}

\* A uevent by what uevent_event does with it.  "add" and "remove" are those
\* of a "-partner" device; "change" matches a DEVTYPE, DRIVER or
\* POWER_SUPPLY_NAME test; "other" matches nothing, is an overheat event or is
\* discarded for its size.
Uevents == {"add", "remove", "change", "other"}

Connectedness == [Ports -> BOOLEAN]
NoSnapshot == [p \in Ports |-> FALSE]

VARIABLES
  pc,               \* per thread: where it is
  owner,            \* per mutex: the thread that holds it, or Free
  mCallback,        \* is mCallback non-NULL?
  mPartnerUp,
  partnerCV,        \* the binder thread on mPartnerCV: "none", "waiting",
                    \* "woken" or "timedout" (the last two: to take the mutex)
  destroyThread,
  sigusr1,          \* SIGUSR1 sent to the poll thread, handler not yet run
  call,             \* the call the binder thread serves
  roleSwitch,       \* local of switchRole
  todo, current,    \* ports the poll thread has yet to look at; the last one
  snapshot,         \* per thread: currentPortStatus, a port's connectedness
  requests          \* calls served so far

VARIABLES
  partner,          \* per port: does the "-partner" directory exist?
  portType,         \* per port: the port_type node
  socket,           \* is the poll thread's uevent socket open?
  uevents           \* what the socket holds

\* What an observer of the logs, the node writes and the callback sees.
VARIABLES
  arrived,          \* of the mode switch under way: has a partner arrived since
                    \* it cleared mPartnerUp, or was an earlier one to be served?
  reported,         \* the last notifyPortStatusChange of this callback, if any
  refused,          \* ports whose last port_type write failed
  missed,           \* a partner changed with no room for its uevent, or no
                    \* socket, and no query since
  skipped           \* a port may have to go back to "dual" with no uevent left
                    \* to do it: the poll thread found mRoleSwitchLock taken,
                    \* or the uevent was not kept

partnerVars == <<mPartnerUp, partnerCV>>
signalVars == <<destroyThread, sigusr1>>
scanVars == <<todo, current>>
socketVars == <<socket, uevents>>
nodeVars == <<portType, refused>>
reportVars == <<snapshot, reported>>
lossVars == <<missed, skipped>>
vars == <<pc, owner, mCallback, mPartnerUp, partnerCV, destroyThread, sigusr1, call,
          roleSwitch, todo, current, snapshot, requests, partner, portType, socket,
          uevents, arrived, reported, refused, missed, skipped>>

BinderPcs == {"idle", "setCallback", "join", "switchRole", "partnerLock", "write",
              "wait", "waiting", "drp", "notifyRole", "unlockRole",
              "queryPortStatus", "notify", "notifyQuery"}
PollPcs == {"none", "start", "loop", "epoll", "partnerAdded",
            "queryPortStatus", "notify", "trylock", "ports", "drp", "exited"}
AwaitingPcs == {"write", "wait", "waiting"}
MonitorPcs == {"idle", "queryPortStatus", "notify"}

Init ==
  /\ pc = [t \in Threads |-> IF t = "poll" THEN "none" ELSE "idle"]
  /\ owner = [l \in Locks |-> Free]
  /\ mCallback = FALSE
  /\ mPartnerUp = FALSE /\ partnerCV = "none"
  /\ destroyThread = FALSE /\ sigusr1 = FALSE
  /\ call = NoCall /\ roleSwitch = FALSE /\ requests = 0
  /\ todo = {} /\ current = SomePort
  /\ snapshot = [t \in Threads |-> NoSnapshot]
  /\ partner \in Connectedness
  /\ portType = [p \in Ports |-> "dual"]
  /\ socket = FALSE /\ uevents = <<>>
  /\ arrived = FALSE /\ reported = {} /\ refused = {}
  /\ missed = FALSE /\ skipped = FALSE

-----------------------------------------------------------------------------
(* Helpers *)

Goto(t, from, to) == pc[t] = from /\ pc' = [pc EXCEPT ![t] = to]
IsFree(l) == owner[l] = Free
Acquire(l, t) == IsFree(l) /\ owner' = [owner EXCEPT ![l] = t]
Release(l) == owner' = [owner EXCEPT ![l] = Free]

AnyPortType(p, v) ==
  /\ portType' = [portType EXCEPT ![p] = v]
  /\ UNCHANGED refused

\* stdio buffers the text, so a refusal by the kernel shows only in fclose,
\* whose result the code ignores; the node then keeps its value.
WritePortType(p, v) ==
  \/ /\ v \in PortTypes
     /\ portType' = [portType EXCEPT ![p] = v]
     /\ refused' = refused \ {p}
  \/ /\ UNCHANGED portType
     /\ refused' = refused \cup {p}

NoSwitchToDrp(p) == UNCHANGED nodeVars
switchToDrp(p) == WritePortType(p, "dual")

-----------------------------------------------------------------------------
(* queryVersionHelper, in the three threads *)

QueryUnchanged == UNCHANGED <<mCallback, partnerVars, signalVars, roleSwitch, arrived,
                    scanVars, requests, partner, socketVars, nodeVars, skipped>>

\* Take mLock and read sysfs.  A status that cannot be read to its end is
\* reported with ERROR, and with the ports found so far: see PortStatus.
QueryWithoutLock(t) == UNCHANGED owner
LockForQuery(t) == Acquire("mLock", t)

QueryRead(t) ==
  /\ Goto(t, "queryPortStatus", "notify")
  /\ LockForQuery(t)
  /\ snapshot' = [snapshot EXCEPT ![t] = partner]
  /\ missed' = FALSE
  /\ UNCHANGED <<call, reported>>
  /\ QueryUnchanged

AfterQuery(t) == CASE t = "binder" -> "notifyQuery"
                   [] t = "poll" -> "trylock"
                   [] t = "monitor" -> "idle"

\* notifyPortStatusChange, and release mLock.
QueryNotify(t) ==
  /\ Goto(t, "notify", AfterQuery(t))
  /\ Release("mLock")
  /\ reported' = IF mCallback THEN {snapshot[t]} ELSE reported
  /\ snapshot' = [snapshot EXCEPT ![t] = NoSnapshot]
  /\ UNCHANGED <<call, missed>>
  /\ QueryUnchanged

\* queryPortStatus: notifyQueryPortStatus, under mLock taken a second time.
NotifyQuery ==
  /\ Goto("binder", "notifyQuery", "idle")
  /\ IsFree("mLock")
  /\ UNCHANGED <<owner, call, reportVars, missed>>
  /\ QueryUnchanged

\* A compliance warning changes: the monitor thread calls updatePortStatus.
UpdatePortStatus ==
  /\ Heuristics
  /\ Goto("monitor", "idle", "queryPortStatus")
  /\ UNCHANGED <<owner, call, reportVars, missed>>
  /\ QueryUnchanged

-----------------------------------------------------------------------------
(* binder: the next call, and Usb::setCallback *)

Receive ==
  /\ requests < MaxRequests
  /\ requests' = requests + 1
  /\ call' \in Calls
  /\ Goto("binder", "idle", call'.op)
  /\ UNCHANGED <<owner, mCallback, partnerVars, signalVars, roleSwitch, arrived,
                 scanVars, partner, socketVars, nodeVars, reportVars, lossVars>>

SetCallbackUnchanged == UNCHANGED <<partnerVars, roleSwitch, arrived, scanVars,
                          snapshot, requests, partner, socketVars, nodeVars, lossVars>>

\* Both NULL, or a callback replaced by another one: the poll thread stays as
\* it is.  A new callback has been told nothing yet.
SetCallbackSame ==
  /\ Goto("binder", "setCallback", "idle")
  /\ IsFree("mLock")
  /\ mCallback = call.cb
  /\ call' = NoCall
  /\ reported' = {}
  /\ UNCHANGED <<owner, mCallback, signalVars>>
  /\ SetCallbackUnchanged

CreationFailsUnnoticed == mCallback' = TRUE
CreationFails == mCallback' = FALSE

SetCallbackRegister ==
  /\ pc["binder"] = "setCallback"
  /\ IsFree("mLock")
  /\ ~mCallback /\ call.cb
  /\ destroyThread' = FALSE
  /\ \/ /\ mCallback' = TRUE
        /\ pc' = [pc EXCEPT !["binder"] = "idle", !["poll"] = "start"]
     \/ /\ CreationFails
        /\ pc' = [pc EXCEPT !["binder"] = "idle"]
  /\ call' = NoCall
  /\ reported' = {}
  /\ UNCHANGED <<owner, sigusr1>>
  /\ SetCallbackUnchanged

\* Signal the poll thread, and wait for it with mLock held.
SetCallbackUnregister ==
  /\ Goto("binder", "setCallback", "join")
  /\ mCallback /\ ~call.cb
  /\ Acquire("mLock", "binder")
  /\ mCallback' = FALSE
  /\ reported' = {}
  /\ sigusr1' = (pc["poll"] # "exited")
  /\ UNCHANGED <<destroyThread, call>>
  /\ SetCallbackUnchanged

\* pthread_join returns, or pthread_kill had found the thread gone.
Joined ==
  /\ pc["binder"] = "join" /\ pc["poll"] = "exited"
  /\ pc' = [pc EXCEPT !["binder"] = "idle", !["poll"] = "none"]
  /\ Release("mLock")
  /\ sigusr1' = FALSE
  /\ call' = NoCall
  /\ UNCHANGED <<mCallback, destroyThread, reported>>
  /\ SetCallbackUnchanged

-----------------------------------------------------------------------------
(* binder: Usb::switchRole and switchMode *)

SwitchStep(from, to) ==
  /\ Goto("binder", from, to)
  /\ UNCHANGED <<mCallback, signalVars, scanVars, requests, partner, socketVars,
                 reportVars, lossVars>>

\* A data or power role: the node is written and read back.
SwitchRole ==
  /\ SwitchStep("switchRole", "notifyRole")
  /\ call.role = "other"
  /\ Acquire("mRoleSwitchLock", "binder")
  /\ roleSwitch' \in BOOLEAN
  /\ UNCHANGED <<partnerVars, call, arrived, nodeVars>>

\* A mode: the port_type node is opened, or cannot be.
SwitchMode ==
  /\ \E opened \in {"partnerLock", "drp"} : SwitchStep("switchRole", opened)
  /\ call.role \in ModeNames
  /\ Acquire("mRoleSwitchLock", "binder")
  /\ UNCHANGED <<partnerVars, call, roleSwitch, arrived, nodeVars>>

SkipPartnerLock == UNCHANGED owner
LockForPartner == Acquire("mPartnerLock", "binder")

\* A partner's arrival that the poll thread has not served.
ArrivalWaits == pc["poll"] = "partnerAdded" \/ \E i \in DOMAIN uevents : uevents[i] = "add"

UpAsItWas == mPartnerUp
NotUp == FALSE

LockPartner ==
  /\ SwitchStep("partnerLock", "write")
  /\ LockForPartner
  /\ mPartnerUp' = NotUp
  /\ arrived' = ArrivalWaits
  /\ UNCHANGED <<partnerCV, call, roleSwitch, nodeVars>>

\* fputs and fclose; no wait if fputs returns EOF.
WriteMode ==
  /\ \/ /\ SwitchStep("write", "wait")
        /\ WritePortType(call.port, call.role)
        /\ UNCHANGED owner
     \/ /\ SwitchStep("write", "drp")
        /\ UNCHANGED portType
        /\ refused' = refused \cup {call.port}
        /\ Release("mPartnerLock")
  /\ UNCHANGED <<partnerVars, call, roleSwitch, arrived>>

\* pthread_cond_timedwait: release mPartnerLock and sleep, in one step.
WaitPartner ==
  /\ SwitchStep("wait", "waiting")
  /\ Release("mPartnerLock")
  /\ partnerCV' = "waiting"
  /\ UNCHANGED <<mPartnerUp, call, roleSwitch, arrived, nodeVars>>

\* The sleep ends by itself: after PORT_TYPE_TIMEOUT, or spuriously.
SleepEnds(how) ==
  /\ partnerCV = "waiting"
  /\ partnerCV' = how
  /\ UNCHANGED <<pc, owner, mCallback, mPartnerUp, signalVars, call, roleSwitch, arrived,
                 scanVars, requests, partner, socketVars, nodeVars, reportVars, lossVars>>

WaitForever == FALSE /\ UNCHANGED vars
CvTimeout == SleepEnds("timedout")
CvSpurious == SleepEnds("woken")

\* The sleep has ended and mPartnerLock is taken again, and released unless
\* the wait goes on.
Awake(how, to) ==
  /\ SwitchStep("waiting", to)
  /\ IsFree("mPartnerLock")
  /\ partnerCV = how
  /\ partnerCV' = "none"
  /\ UNCHANGED <<mPartnerUp, call, arrived, nodeVars>>

ReturnAtOnce == "notifyRole"
AfterTimeout == "drp"

WaitTimedOut == Awake("timedout", AfterTimeout) /\ UNCHANGED <<owner, roleSwitch>>

WaitAgain ==
  /\ ~mPartnerUp
  /\ Awake("woken", "wait")
  /\ Acquire("mPartnerLock", "binder")
  /\ UNCHANGED roleSwitch

WaitSucceeded ==
  /\ mPartnerUp
  /\ Awake("woken", "notifyRole")
  /\ roleSwitch' = TRUE
  /\ UNCHANGED owner

SwitchBack ==
  /\ SwitchStep("drp", "notifyRole")
  /\ switchToDrp(call.port)
  /\ UNCHANGED <<owner, partnerVars, call, roleSwitch, arrived>>

\* notifyRoleSwitchStatus under mLock, which nests in mRoleSwitchLock.
NotifyRole ==
  /\ SwitchStep("notifyRole", "unlockRole")
  /\ IsFree("mLock")
  /\ UNCHANGED <<owner, partnerVars, call, roleSwitch, arrived, nodeVars>>

UnlockRole ==
  /\ SwitchStep("unlockRole", "idle")
  /\ Release("mRoleSwitchLock")
  /\ call' = NoCall /\ roleSwitch' = FALSE /\ arrived' = FALSE
  /\ UNCHANGED <<partnerVars, nodeVars>>

-----------------------------------------------------------------------------
(* poll: work and uevent_event *)

PollStep(from, to) ==
  /\ Goto("poll", from, to)
  /\ UNCHANGED <<mCallback, call, roleSwitch, arrived, requests, partner, reportVars>>

Alive == pc["poll"] \notin {"none", "exited"}

\* Leaving work(), by destroyThread or by an error: the socket and what it
\* still holds are gone.
Exit(from) ==
  /\ PollStep(from, "exited")
  /\ socket' = FALSE
  /\ uevents' = <<>>
  /\ missed' = (missed \/ uevents # <<>>)
  /\ skipped' = (skipped \/ uevents # <<>>)
  /\ UNCHANGED <<owner, partnerVars, signalVars, scanVars, nodeVars>>

Start ==
  /\ PollStep("start", "loop")
  /\ socket' = TRUE
  /\ UNCHANGED <<owner, partnerVars, signalVars, scanVars, uevents, nodeVars, lossVars>>

LoopOn ==
  /\ ~destroyThread
  /\ PollStep("loop", "epoll")
  /\ UNCHANGED <<owner, partnerVars, signalVars, scanVars, socketVars, nodeVars, lossVars>>

DestroySeen == destroyThread /\ Exit("loop")

\* The socket or epoll cannot be set up, or epoll_wait fails with something
\* other than EINTR.  It may happen, and need not: a thread whose socket is
\* empty sleeps in epoll_wait for ever.
PollFails == Exit("start") \/ Exit("epoll")

\* The handler runs in the poll thread at any point of it.  In epoll_wait it
\* makes the call fail with EINTR; just before the call it goes unnoticed.
sighandler ==
  /\ sigusr1 /\ Alive
  /\ sigusr1' = FALSE
  /\ destroyThread' = TRUE
  /\ PollStep("epoll", "loop") \/ PollStep(pc["poll"], pc["poll"])
  /\ UNCHANGED <<owner, partnerVars, scanVars, socketVars, nodeVars, lossVars>>

IgnoresRemove == [e \in Uevents |-> CASE e = "add" -> "partnerAdded"
                                      [] e = "change" -> "queryPortStatus"
                                      [] OTHER -> "loop"]
UeventAction == [e \in Uevents |-> CASE e = "add" -> "partnerAdded"
                                     [] e \in {"remove", "change"} -> "queryPortStatus"
                                     [] OTHER -> "loop"]

\* epoll_wait returns and the message is received.
ReceiveUevent ==
  /\ uevents # <<>>
  /\ PollStep("epoll", UeventAction[Head(uevents)])
  /\ uevents' = Tail(uevents)
  /\ UNCHANGED <<owner, partnerVars, signalVars, scanVars, socket, nodeVars, lossVars>>

\* mPartnerUp and pthread_cond_signal under mPartnerLock.  The message also
\* holds DEVTYPE=typec_partner, so the query follows.
PartnerAdded ==
  /\ PollStep("partnerAdded", "queryPortStatus")
  /\ IsFree("mPartnerLock")
  /\ mPartnerUp' = TRUE
  /\ partnerCV' = IF partnerCV = "waiting" THEN "woken" ELSE partnerCV
  /\ UNCHANGED <<owner, signalVars, scanVars, socketVars, nodeVars, lossVars>>

TrylockIgnored == TRUE
TrylockSucceeds == IsFree("mRoleSwitchLock")

\* "Role switch is not in progress": look at every port, or at none.
TrylockRole ==
  /\ \/ /\ TrylockSucceeds
        /\ PollStep("trylock", "ports")
        /\ owner' = [owner EXCEPT !["mRoleSwitchLock"] = "poll"]
        /\ todo' = Ports
        /\ skipped' = FALSE
     \/ /\ ~TrylockSucceeds
        /\ PollStep("trylock", "loop")
        /\ skipped' = TRUE
        /\ UNCHANGED <<owner, todo>>
  /\ UNCHANGED <<partnerVars, signalVars, current, socketVars, nodeVars, missed>>

\* opendir of the "-partner" directory of the next port.
LookAt(p) ==
  /\ p \in todo
  /\ todo' = todo \ {p}
  /\ current' = p
  /\ PollStep("ports", IF partner[p] THEN "ports" ELSE "drp")
  /\ UNCHANGED <<owner, partnerVars, signalVars, socketVars, nodeVars, lossVars>>

PortBackToDrp ==
  /\ PollStep("drp", "ports")
  /\ switchToDrp(current)
  /\ UNCHANGED <<owner, partnerVars, signalVars, scanVars, socketVars, lossVars>>

PollUnlockRole ==
  /\ todo = {}
  /\ PollStep("ports", "loop")
  /\ Release("mRoleSwitchLock")
  /\ UNCHANGED <<partnerVars, signalVars, scanVars, socketVars, nodeVars, lossVars>>

-----------------------------------------------------------------------------
(* The kernel *)

KernelUnchanged == UNCHANGED <<pc, owner, mCallback, partnerVars, signalVars, call,
                     roleSwitch, scanVars, reportVars, requests, socket, nodeVars>>

\* Nothing is kept for a socket that is not open, or that is full: the poll
\* thread then gets an error from one of its next receives, and ignores it.
Kept == socket /\ Len(uevents) < MaxUevents
Enqueue(e) == uevents' = IF Kept THEN Append(uevents, e) ELSE uevents

PartnerChanges(p) ==
  /\ partner' = [partner EXCEPT ![p] = ~@]
  /\ Enqueue(IF partner[p] THEN "remove" ELSE "add")
  /\ missed' = (missed \/ ~Kept)
  /\ skipped' = (skipped \/ (~Kept /\ partner[p]))
  /\ arrived' = (arrived \/ (pc["binder"] \in AwaitingPcs /\ Kept /\ ~partner[p]))
  /\ KernelUnchanged

OtherUevent ==
  /\ socket
  /\ \E e \in {"change", "other"} : Enqueue(e)
  /\ UNCHANGED <<partner, arrived, lossVars>>
  /\ KernelUnchanged

-----------------------------------------------------------------------------
Binder == \/ SetCallbackSame \/ SetCallbackRegister \/ SetCallbackUnregister \/ Joined
          \/ SwitchRole \/ SwitchMode \/ LockPartner \/ WriteMode \/ WaitPartner
          \/ WaitTimedOut \/ WaitAgain \/ WaitSucceeded \/ SwitchBack
          \/ NotifyRole \/ UnlockRole
          \/ QueryRead("binder") \/ QueryNotify("binder") \/ NotifyQuery

Monitor == QueryRead("monitor") \/ QueryNotify("monitor")

Poll == \/ Start \/ LoopOn \/ DestroySeen \/ ReceiveUevent \/ PartnerAdded
        \/ QueryRead("poll") \/ QueryNotify("poll") \/ TrylockRole
        \/ (\E p \in Ports : LookAt(p)) \/ PortBackToDrp \/ PollUnlockRole

Kernel == (\E p \in Ports : PartnerChanges(p)) \/ OtherUevent \/ CvSpurious

Next == \/ Receive \/ UpdatePortStatus \/ Kernel
        \/ Binder \/ Monitor \/ Poll \/ PollFails \/ sighandler \/ CvTimeout

Spec == Init /\ [][Next]_vars

\* Every thread that can run does, and a thread that waits for a mutex gets
\* it if the mutex is free again and again; a signal is delivered; a timed
\* wait that nothing else ends times out.  Nothing is assumed of the callers,
\* of the partner, of when a compliance warning changes, or of the failures
\* that end the poll thread.
Fairness == /\ SF_vars(Binder) /\ SF_vars(Monitor) /\ SF_vars(Poll)
            /\ WF_vars(sighandler) /\ SF_vars(CvTimeout)

FairSpec == Spec /\ Fairness

-----------------------------------------------------------------------------
(* Properties *)

\* Every variable has its type.
TypeOK ==
  /\ pc \in [Threads -> BinderPcs \cup PollPcs \cup MonitorPcs]
  /\ pc["binder"] \in BinderPcs /\ pc["poll"] \in PollPcs /\ pc["monitor"] \in MonitorPcs
  /\ owner \in [Locks -> Threads \cup {Free}]
  /\ mCallback \in BOOLEAN /\ mPartnerUp \in BOOLEAN
  /\ partnerCV \in {"none", "waiting", "woken", "timedout"}
  /\ destroyThread \in BOOLEAN /\ sigusr1 \in BOOLEAN
  /\ call \in Calls /\ roleSwitch \in BOOLEAN /\ requests \in 0..MaxRequests
  /\ todo \in SUBSET Ports /\ current \in Ports
  /\ snapshot \in [Threads -> Connectedness]
  /\ partner \in Connectedness
  /\ portType \in [Ports -> PortTypes]
  /\ socket \in BOOLEAN
  /\ uevents \in Seq(Uevents) /\ Len(uevents) <= MaxUevents
  /\ arrived \in BOOLEAN
  /\ reported \in SUBSET Connectedness
  /\ refused \in SUBSET Ports
  /\ missed \in BOOLEAN /\ skipped \in BOOLEAN

\* "Hold the lock here to prevent loosing connected signals": switchMode never
\* sleeps on mPartnerCV with the partner already known to be up (Usb.cpp:448).
NoLostPartnerSignal == partnerCV = "waiting" => ~mPartnerUp

\* Outside the join, a callback is registered exactly while there is a poll
\* thread to join: no second thread is ever created over mPoll, and no join
\* waits for a thread that was never created (Usb.cpp:1186-1208).
PollFollowsCallback ==
  pc["binder"] # "join" => (mCallback <=> pc["poll"] # "none")

SwitchingPcs == {"partnerLock", "write", "wait", "waiting", "drp", "notifyRole",
                 "unlockRole"}

\* The poll thread does not look at the ports, or write "dual" to one, while a
\* role switch is under way (Usb.cpp:1080).
ScanExcludesSwitch ==
  pc["poll"] \in {"ports", "drp"} => pc["binder"] \notin SwitchingPcs

\* A mode switch that is reported as failed has put its port back to "dual",
\* unless the kernel refused the last write (Usb.cpp:482-483).
FailedSwitchIsDual ==
  (pc["binder"] \in {"notifyRole", "unlockRole"} /\ call.role \in ModeNames /\ ~roleSwitch)
    => portType[call.port] = "dual" \/ call.port \in refused

\* A mode switch that is reported as done has a partner's arrival to show: one
\* since its port was written, or an earlier one that was not yet served; the
\* flag that another switch left set ends no wait.  The arrival may be of
\* another port, and the partner may have gone since (Usb.cpp:448-469, 1067).
DoneMeansArrival ==
  (pc["binder"] \in {"notifyRole", "unlockRole"} /\ call.role \in ModeNames /\ roleSwitch)
    => arrived

\* No uevent waits and none is between its arrival and its query.
UeventsServed ==
  uevents = <<>> /\ pc["poll"] \notin {"partnerAdded", "queryPortStatus", "notify"}

\* Once the uevents are served, the last status the callback was given is the
\* ports' state, whichever threads reported and in which order; the exception
\* is a change that came while no socket was open, or found it full.
ReportIsCurrent ==
  (UeventsServed /\ IsFree("mLock") /\ ~missed) => reported \subseteq {partner}

\* Once the uevents are served and no role switch is under way, a port with no
\* partner is "dual", unless a write was refused or the poll thread's last
\* look was given up for a role switch.
DisconnectedPortIsDual ==
  (UeventsServed /\ IsFree("mRoleSwitchLock") /\ pc["poll"] # "trylock" /\ ~skipped)
    => \A p \in Ports \ refused : partner[p] \/ portType[p] = "dual"

\* A role switch the binder thread has begun comes to its end.
SwitchRoleEnds == pc["binder"] = "switchRole" ~> pc["binder"] = "idle"

\* If the ports stay as they are, with a callback and a socket, the callback
\* ends up with their state, and nothing need happen any more for that.
ReportConverges ==
  (<>[](mCallback /\ socket /\ ~missed) /\ <>[][FALSE]_partner)
    => <>[](reported \subseteq {partner})

\* The three threads report the way one would that looks at the ports, hands
\* on what it has seen, and only then looks again: at most one of them is
\* between its reading of the ports and its callback (Usb.cpp:951).
Sampled == {snapshot[t] : t \in {u \in Threads : pc[u] = "notify"}}
OneReporter == INSTANCE PortReports WITH sampled <- Sampled
ReportsAsOne == OneReporter!Spec

(* What a comment of the source says, which does not hold *)

\* Usb.cpp:65 "Set by the signal handler to destroy the thread": once it is
\* set, the poll thread ends.
DestroyEndsThread == destroyThread ~> ~Alive

=============================================================================
