------------------------- MODULE UsbDataSessionMonitor -------------------------
(***************************************************************************)
(* The monitor thread of usb/usb/UsbDataSessionMonitor.cpp.  It waits on   *)
(* one epoll descriptor for the data role file, for the state files of the *)
(* device port and of the two host ports, and for uevents, and uploads     *)
(* what it saw of a data session when the session ends.  The kernel        *)
(* changes the files and binds and unbinds the drivers meanwhile, so what  *)
(* a handler reads may be newer than what it is called for; epoll promises *)
(* no order among descriptors.                                             *)
(*                                                                         *)
(* Compliance warnings are left out: evaluateComplianceWarning has no      *)
(* heuristic yet, so mWarningSet is always empty.                          *)
(***************************************************************************)
EXTENDS Integers, Sequences

CONSTANTS
  MaxChanges  \* bound: changes in the kernel

ASSUME MaxChangesAssumption == MaxChanges \in Nat

Hosts == {"host1", "host2"}
Files == Hosts \cup {"device"}
Roles == {"HOST", "DEVICE", "NONE"}

\* mDataRole is not initialized: any role, or no role at all.
Garbage == "garbage"

Uevents == [kind : {"bind", "unbind", "change"}, dev : Files]
Uevent(kind, dev) == [kind |-> kind, dev |-> dev]

VARIABLES
  mDataRole, mUdcBind,
  session,      \* mDataSessionStart: the number of times it has been set
  states,       \* per file: its states vector, of each state the session it
                \* was read in
  registered    \* files in the epoll set (their fd is not -1)

VARIABLES
  role,         \* the data role file
  udc,          \* "bound", "unbinding" (change@ sent, not yet carried out), "unbound"
  present,      \* state files that exist
  pending,      \* files changed since they were last read
  uevents,      \* in the socket
  changes

\* What an observer sees.
VARIABLES
  uploads,      \* what was uploaded
  reported,     \* was reportUsbDataSessionMetrics called in this session?
  twice,        \* was it called when it had been, in any session?
  doubt         \* mUdcBind may be wrong: the bind state was read too early or
                \* not at all

ownVars == <<mDataRole, mUdcBind, session, states, registered>>
kernelVars == <<role, udc, present, changes>>
uploadVars == <<uploads, reported, twice>>
vars == <<ownVars, kernelVars, pending, uevents, uploadVars, doubt>>

\* The two host ports come and go with their controller.  A file that was never
\* read counts as changed.  The socket is open before the files are, so a change
\* that came before them may still wait in it.  What configfs says of a gadget
\* that is not bound may be a lone newline, which is not empty().
Init ==
  /\ role \in Roles /\ udc \in {"bound", "unbound"}
  /\ present \in {{}, {"device"}, Hosts, Files}
  /\ mDataRole \in Roles \cup {Garbage}
  /\ mUdcBind \in {udc = "bound", TRUE}
  /\ session = 0 /\ changes = 0
  /\ states = [f \in Files |-> <<>>]
  /\ registered = present
  /\ pending = present \cup {"role"}
  /\ uevents \in {<<>>} \cup {<<Uevent("bind", h)>> : h \in present \cap Hosts}
                         \cup {<<Uevent("unbind", h)>> : h \in Hosts \ present}
  /\ uploads = {} /\ reported = FALSE /\ twice = FALSE
  /\ doubt = (mUdcBind # (udc = "bound"))

-----------------------------------------------------------------------------
(* Metrics *)

Upload(port) == [port |-> port, session |-> session, states |-> states[port]]

\* Host ports with more than the first state; host1 for all if there is none.
UpdatedHosts == {h \in Hosts : Len(states[h]) > 1}
UploadsUnasked == {Upload(f) : f \in {f \in Files : Len(states[f]) > 1}}
Uploads == CASE mDataRole = "DEVICE" -> {Upload("device")}
             [] mDataRole = "HOST" ->
                  {Upload(h) : h \in IF UpdatedHosts = {} THEN {"host1"} ELSE UpdatedHosts}
             [] OTHER -> {}

\* The stats service may be missing: then the session is lost.
reportUsbDataSessionMetrics ==
  /\ uploads' \in {uploads, uploads \cup Uploads}
  /\ twice' = (twice \/ reported)

NothingCleared(files) == UNCHANGED states
clearDeviceStateEvents(files) ==
  states' = [f \in Files |-> IF f \in files THEN <<>> ELSE states[f]]

-----------------------------------------------------------------------------
(* Handlers *)

\* What read returns: a valid state, or something else, which is dropped.
ValidStates(f) == {session : x \in present \cap {f}}

handleDeviceStateEvent(f) ==
  /\ f \in pending
  /\ pending' = pending \ {f}
  /\ states' \in {states} \cup {[states EXCEPT ![f] = Append(@, s)] : s \in ValidStates(f)}
  /\ UNCHANGED <<mDataRole, mUdcBind, session, registered, kernelVars, uevents, uploadVars, doubt>>

FilesOf(r) == CASE r = "DEVICE" -> {"device"} [] r = "HOST" -> Hosts [] OTHER -> {}

EndedAnyDevice == mDataRole \in {"HOST", "DEVICE"}
SessionEnds == mDataRole = "HOST" \/ (mDataRole = "DEVICE" /\ mUdcBind)

\* Whatever is neither "host" nor "device" is NONE.  The file stays open, and
\* reading it does not fail here; a failed read would count as NONE.
NoneIgnored == IF role = "NONE" THEN mDataRole ELSE role
newDataRole == role

NewSession ==
  /\ IF SessionEnds THEN reportUsbDataSessionMetrics ELSE UNCHANGED <<uploads, twice>>
  /\ mDataRole' = newDataRole
  /\ reported' = FALSE
  /\ session' = session + 1
  /\ clearDeviceStateEvents(FilesOf(newDataRole))

handleDataRoleEvent ==
  /\ "role" \in pending
  /\ pending' = pending \ {"role"}
  /\ \/ newDataRole # mDataRole /\ NewSession
     \/ newDataRole = mDataRole /\ UNCHANGED <<mDataRole, session, states, uploadVars>>
  /\ UNCHANGED <<mUdcBind, registered, kernelVars, uevents, doubt>>

NextUevent(kinds, devs) ==
  /\ uevents # <<>>
  /\ Head(uevents).kind \in kinds /\ Head(uevents).dev \in devs
  /\ uevents' = Tail(uevents)

\* bind@ of a host port: addEpollFile, which does nothing when the file cannot be
\* opened (the port has gone again).
AddEpollFile ==
  /\ NextUevent({"bind"}, Hosts)
  /\ LET opened == {Head(uevents).dev} \cap present
     IN registered' = registered \cup opened /\ pending' = pending \cup opened
  /\ UNCHANGED <<mDataRole, mUdcBind, session, states, kernelVars, uploadVars, doubt>>

UnbindIgnored(h) == UNCHANGED registered
Unregister(h) == registered' = registered \ {h}

\* unbind@ of a host port: removeEpollFile.
RemoveEpollFile ==
  /\ NextUevent({"unbind"}, Hosts)
  /\ Unregister(Head(uevents).dev)
  /\ pending' = pending \ {Head(uevents).dev}
  /\ UNCHANGED <<mDataRole, mUdcBind, session, states, kernelVars, uploadVars, doubt>>

\* bind@ and unbind@ of the udc are "TODO".
IgnoreUdcBind ==
  /\ NextUevent({"bind", "unbind"}, {"device"})
  /\ UNCHANGED <<ownVars, kernelVars, pending, uploadVars, doubt>>

\* Gadget soft pulldown: the session ends.
PullDown ==
  /\ reportUsbDataSessionMetrics
  /\ reported' = TRUE
  /\ UNCHANGED <<session, states>>

\* Gadget soft pullup: a new session.
PullUp ==
  /\ clearDeviceStateEvents({"device"})
  /\ session' = session + 1
  /\ reported' = FALSE
  /\ UNCHANGED <<uploads, twice>>

SetInDeviceRole(bound) == mUdcBind' = IF mDataRole = "DEVICE" THEN bound ELSE mUdcBind
SetUdcBind(bound) == mUdcBind' = bound

\* change@ of the udc: after a delay, read whether a driver is bound to it.
updateUdcBindStatus ==
  /\ NextUevent({"change"}, {"device"})
  /\ LET bound == udc # "unbound"
     IN \/ /\ bound # mUdcBind
           /\ SetUdcBind(bound)
           /\ CASE mDataRole = "DEVICE" /\ ~bound -> PullDown
                [] mDataRole = "DEVICE" /\ bound -> PullUp
                [] OTHER -> UNCHANGED <<session, states, uploadVars>>
        \/ /\ bound = mUdcBind
           /\ UNCHANGED <<mUdcBind, session, states, uploadVars>>
  /\ doubt' = (udc = "unbinding")
  /\ UNCHANGED <<mDataRole, registered, kernelVars, pending>>

\* The function file of the udc cannot be read.
BindStatusUnknown ==
  /\ NextUevent({"change"}, {"device"})
  /\ doubt' = TRUE
  /\ UNCHANGED <<ownVars, kernelVars, pending, uploadVars>>

handleUevent == \/ AddEpollFile \/ RemoveEpollFile \/ IgnoreUdcBind
                \/ updateUdcBindStatus \/ BindStatusUnknown

-----------------------------------------------------------------------------
(* The kernel *)

Change ==
  /\ changes < MaxChanges
  /\ changes' = changes + 1
  /\ UNCHANGED <<ownVars, uploadVars, doubt>>

RoleChanges ==
  /\ Change
  /\ role' \in Roles \ {role}
  /\ pending' = pending \cup {"role"}
  /\ UNCHANGED <<udc, present, uevents>>

StateChanges(f) ==
  /\ Change
  /\ f \in present
  /\ pending' = pending \cup ({f} \cap registered)
  /\ UNCHANGED <<role, udc, present, uevents>>

\* The port's device appears, or goes: the descriptor then reports an error.
PortAppears(f) ==
  /\ Change
  /\ f \notin present
  /\ present' = present \cup {f}
  /\ uevents' = Append(uevents, Uevent("bind", f))
  /\ UNCHANGED <<role, udc, pending>>

PortGoes(f) ==
  /\ Change
  /\ f \in present
  /\ present' = present \ {f}
  /\ uevents' = Append(uevents, Uevent("unbind", f))
  /\ pending' = pending \cup ({f} \cap registered)
  /\ UNCHANGED <<role, udc>>

GadgetBinds ==
  /\ Change
  /\ udc = "unbound" /\ udc' = "bound"
  /\ uevents' = Append(uevents, Uevent("change", "device"))
  /\ UNCHANGED <<role, present, pending>>

\* The uevent comes before the driver is unbound.
GadgetUnbinds ==
  /\ Change
  /\ udc = "bound" /\ udc' = "unbinding"
  /\ uevents' = Append(uevents, Uevent("change", "device"))
  /\ UNCHANGED <<role, present, pending>>

GadgetUnbound ==
  /\ udc = "unbinding" /\ udc' = "unbound"
  /\ UNCHANGED <<ownVars, role, present, changes, pending, uevents, uploadVars, doubt>>

-----------------------------------------------------------------------------
Kernel == \/ RoleChanges \/ GadgetBinds \/ GadgetUnbinds \/ GadgetUnbound
          \/ \E f \in Files : StateChanges(f) \/ PortAppears(f) \/ PortGoes(f)

\* epoll_wait fails with EINTR only here, and is called again; any other failure
\* would end the thread.
monitorThread ==
  handleUevent \/ handleDataRoleEvent \/ \E f \in Files : handleDeviceStateEvent(f)

Next == monitorThread \/ Kernel

Spec == Init /\ [][Next]_vars

\* The monitor thread runs while there is something to handle.  A port that
\* changes for ever does not keep it from the others: epoll goes round them.
FairSpec == Spec /\ WF_vars(handleUevent) /\ WF_vars(handleDataRoleEvent)
                 /\ \A f \in Files : WF_vars(handleDeviceStateEvent(f))

-----------------------------------------------------------------------------
(* Properties *)

\* Every variable has its type.
TypeOK ==
  /\ mDataRole \in Roles \cup {Garbage} /\ mUdcBind \in BOOLEAN
  /\ session \in Nat /\ changes \in 0..MaxChanges
  /\ states \in [Files -> Seq(Nat)]
  /\ registered \in SUBSET Files /\ present \in SUBSET Files
  /\ role \in Roles /\ udc \in {"bound", "unbinding", "unbound"}
  /\ pending \in SUBSET (Files \cup {"role"})
  /\ uevents \in Seq(Uevents)
  /\ uploads \subseteq [port : Files, session : Nat, states : Seq(Nat)]
  /\ reported \in BOOLEAN /\ twice \in BOOLEAN /\ doubt \in BOOLEAN

\* A session that ends both by a soft pulldown and by a role change is reported
\* once (lines 282, 326).
ReportedOnce == ~twice

\* An upload holds nothing that was read in an earlier session (lines 291-296,
\* 331).
OwnStatesOnly ==
  \A u \in uploads : \A i \in DOMAIN u.states : u.states[i] = u.session

\* Together these make what SessionLog promises the stats service: a session is
\* told of at one time, of the device port or of host ports, a port once, and an
\* entry is of its session alone (lines 157-201, 282-333).
Log == INSTANCE SessionLog
         WITH Kinds <- {{"device"}, Hosts}, told <- reported, log <- uploads
TellsOfSessions == Log!Spec

\* When nothing is left to handle, mDataRole is the port's data role, whatever
\* it was before the first event (lines 262-298).
RoleFollowsFile == "role" \notin pending => mDataRole = role

\* When the uevents are handled, the host files that exist are in the epoll set
\* and no others, however late a uevent was handled (lines 356-364).
HostsWatched == uevents = <<>> => registered \cap Hosts = present \cap Hosts

\* When the uevents are handled, mUdcBind is right, unless the bind state was
\* read too early or could not be read (lines 300-338).
UdcBindIsCurrent == (uevents = <<>> /\ ~doubt) => mUdcBind = (udc # "unbound")

\* A role the port stays in is the role the monitor ends up with.
RoleConverges == \A r \in Roles : <>[](role = r) => <>[](mDataRole = r)

(* What the source's comments say, which does not hold *)

\* Lines 124-126 "the file will be monitored later when its presence is
\* detected by uevent".
DeviceMonitoredLater ==
  (uevents = <<>> /\ "device" \in present) => "device" \in registered

=============================================================================
