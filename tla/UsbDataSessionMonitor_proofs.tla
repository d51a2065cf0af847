--------------------- MODULE UsbDataSessionMonitor_proofs ---------------------
(***************************************************************************)
(* Safety properties of UsbDataSessionMonitor, for every number of changes *)
(* in the kernel.  Each is one conjunct of IInv, and they are              *)
(* independent of each other but for the types.                            *)
(***************************************************************************)
EXTENDS UsbDataSessionMonitor, TLAPS

\* A session that was reported before its end is that of a device that is
\* pulled down, which neither a pulldown nor a role change reports again.
Reporting == ~twice /\ (reported => mDataRole = "DEVICE" /\ ~mUdcBind)

\* What has been read of the ports in use is of this session.
Tagged ==
  \A f \in FilesOf(mDataRole) : \A i \in DOMAIN states[f] : states[f][i] = session

\* No change@ is on its way.
NoChange == \A i \in 1..Len(uevents) : uevents[i].kind # "change"

\* Without one, mUdcBind is right or known to be doubtful, and stays so while
\* the driver goes.
UdcBind ==
  NoChange => /\ ~doubt => mUdcBind = (udc # "unbound")
              /\ udc = "unbinding" => doubt

\* No uevent of h waits in the queue q.
NothingOf(h, q) == \A i \in 1..Len(q) : q[i].dev # h

\* The i-th uevent is the last of h that waits in q.
LastOf(h, i, q) ==
  /\ i \in 1..Len(q) /\ q[i].dev = h
  /\ \A j \in 1..Len(q) : j > i => q[j].dev # h

\* The last uevent of a host that waits tells whether the host is there now,
\* whatever the ones before it tell; if none waits, the epoll set does.
HostsKnown ==
  \A h \in Hosts :
    /\ NothingOf(h, uevents) => (h \in registered <=> h \in present)
    /\ \A i \in 1..Len(uevents) :
         LastOf(h, i, uevents) => uevents[i].kind = IF h \in present THEN "bind" ELSE "unbind"

IInv == /\ TypeOK /\ Reporting /\ Tagged /\ OwnStatesOnly /\ RoleFollowsFile
        /\ UdcBind /\ HostsKnown

-----------------------------------------------------------------------------
(* Types *)

\* The initial state has the types.
LEMMA TypeInit == Init => TypeOK
<1> SUFFICES ASSUME Init PROVE TypeOK
  OBVIOUS
<1>1. states \in [Files -> Seq(Nat)] /\ uevents \in Seq(Uevents)
  <2>1. \A k \in {"bind", "unbind"} : \A h \in Hosts : Uevent(k, h) \in Uevents
    BY DEF Uevent, Uevents, Files
  <2>2. \A e \in Uevents : <<e>> \in Seq(Uevents)
    OBVIOUS
  <2>3. <<>> \in Seq(Uevents) /\ <<>> \in Seq(Nat)
    OBVIOUS
  <2> QED BY <2>1, <2>2, <2>3 DEF Init
<1>2. /\ registered \in SUBSET Files /\ present \in SUBSET Files
      /\ pending \in SUBSET (Files \cup {"role"})
  BY DEF Init, Files
<1>3. changes \in 0..MaxChanges
  BY MaxChangesAssumption DEF Init
<1>4. mUdcBind \in BOOLEAN /\ reported \in BOOLEAN /\ twice \in BOOLEAN /\ doubt \in BOOLEAN
  BY DEF Init
<1> QED BY <1>1, <1>2, <1>3, <1>4 DEF Init, TypeOK

\* What is uploaded has its type.
LEMMA TypeReport ==
  ASSUME TypeOK, reportUsbDataSessionMetrics
  PROVE  /\ uploads' \subseteq [port : Files, session : Nat, states : Seq(Nat)]
         /\ twice' \in BOOLEAN
<1>1. \A f \in Files : Upload(f) \in [port : Files, session : Nat, states : Seq(Nat)]
  BY DEF Upload, TypeOK
<1>2. Uploads \subseteq [port : Files, session : Nat, states : Seq(Nat)]
  <2>1. CASE mDataRole = "DEVICE"
    BY <2>1, <1>1 DEF Uploads, Files
  <2>2. CASE mDataRole = "HOST"
    <3>1. \A h \in Hosts : Upload(h) \in [port : Files, session : Nat, states : Seq(Nat)]
      BY <1>1 DEF Files
    <3>2. UpdatedHosts \subseteq Hosts /\ "host1" \in Hosts
      BY DEF UpdatedHosts, Hosts
    <3>3. Uploads = {Upload(h) : h \in IF UpdatedHosts = {} THEN {"host1"} ELSE UpdatedHosts}
      BY <2>2 DEF Uploads
    <3> QED BY <3>1, <3>2, <3>3
  <2>3. CASE mDataRole \notin {"DEVICE", "HOST"}
    BY <2>3 DEF Uploads
  <2> QED BY <2>1, <2>2, <2>3
<1>3. twice' \in BOOLEAN
  BY DEF reportUsbDataSessionMetrics, TypeOK
<1> QED BY <1>2, <1>3 DEF reportUsbDataSessionMetrics, TypeOK

\* Clearing vectors keeps their type.
LEMMA TypeClear ==
  ASSUME TypeOK
  PROVE  \A files : [f \in Files |-> IF f \in files THEN <<>> ELSE states[f]]
                      \in [Files -> Seq(Nat)]
<1> SUFFICES ASSUME NEW files, NEW f \in Files
             PROVE  (IF f \in files THEN <<>> ELSE states[f]) \in Seq(Nat)
  OBVIOUS
<1>1. <<>> \in Seq(Nat) /\ states[f] \in Seq(Nat)
  BY DEF TypeOK
<1> QED BY <1>1

\* Taking a uevent off the queue keeps its type.
LEMMA TypeUevent ==
  ASSUME TypeOK, NEW kinds, NEW devs, NextUevent(kinds, devs)
  PROVE  uevents' \in Seq(Uevents)
BY DEF NextUevent, TypeOK

\* What a change of the bind state does, by the data role.
LEMMA UdcSteps ==
  ASSUME mUdcBind \in BOOLEAN, updateUdcBindStatus
  PROVE  \/ mDataRole = "DEVICE" /\ mUdcBind /\ ~mUdcBind' /\ PullDown
         \/ mDataRole = "DEVICE" /\ ~mUdcBind /\ mUdcBind' /\ PullUp
         \/ /\ mDataRole # "DEVICE" \/ mUdcBind' = mUdcBind
            /\ UNCHANGED <<session, states, uploadVars>>
<1> DEFINE bound == udc # "unbound"
<1>1. CASE bound = mUdcBind
  <2>1. mUdcBind' = mUdcBind /\ UNCHANGED <<session, states, uploadVars>>
    BY <1>1 DEF updateUdcBindStatus
  <2> QED BY <2>1
<1>2. CASE bound # mUdcBind /\ mDataRole = "DEVICE" /\ ~bound
  <2>1. PullDown
    BY <1>2 DEF updateUdcBindStatus
  <2>2. mUdcBind /\ ~mUdcBind'
    BY <1>2 DEF updateUdcBindStatus, SetUdcBind
  <2> QED BY <1>2, <2>1, <2>2
<1>3. CASE bound # mUdcBind /\ mDataRole = "DEVICE" /\ bound
  <2>1. PullUp
    BY <1>3 DEF updateUdcBindStatus
  <2>2. ~mUdcBind /\ mUdcBind'
    BY <1>3 DEF updateUdcBindStatus, SetUdcBind
  <2> QED BY <1>3, <2>1, <2>2
<1>4. CASE bound # mUdcBind /\ mDataRole # "DEVICE"
  <2>1. UNCHANGED <<session, states, uploadVars>>
    BY <1>4 DEF updateUdcBindStatus
  <2> QED BY <1>4, <2>1
<1> QED BY <1>1, <1>2, <1>3, <1>4

\* What a data role event does.
LEMMA RoleSteps ==
  ASSUME handleDataRoleEvent
  PROVE  /\ mDataRole' = role /\ role' = role
         /\ \/ NewSession
            \/ mDataRole' = mDataRole /\ UNCHANGED <<session, states, uploadVars>>
BY DEF handleDataRoleEvent, NewSession, newDataRole, kernelVars

\* A handler keeps the types.
LEMMA TypeMonitor == ASSUME TypeOK, monitorThread PROVE TypeOK'
<1>1. CASE AddEpollFile
  <2>1. uevents' \in Seq(Uevents)
    BY <1>1, TypeUevent DEF AddEpollFile
  <2>2. /\ registered' \in SUBSET Files
        /\ pending' \in SUBSET (Files \cup {"role"})
    BY <1>1 DEF AddEpollFile, NextUevent, TypeOK, Files
  <2> QED BY <1>1, <2>1, <2>2 DEF AddEpollFile, TypeOK, kernelVars, uploadVars
<1>2. CASE RemoveEpollFile
  <2>1. uevents' \in Seq(Uevents)
    BY <1>2, TypeUevent DEF RemoveEpollFile
  <2>2. registered' \in SUBSET Files /\ pending' \in SUBSET (Files \cup {"role"})
    BY <1>2 DEF RemoveEpollFile, Unregister, TypeOK
  <2> QED BY <1>2, <2>1, <2>2 DEF RemoveEpollFile, TypeOK, kernelVars, uploadVars
<1>3. CASE IgnoreUdcBind
  <2>1. uevents' \in Seq(Uevents)
    BY <1>3, TypeUevent DEF IgnoreUdcBind
  <2> QED BY <1>3, <2>1 DEF IgnoreUdcBind, TypeOK, ownVars, kernelVars, uploadVars
<1>4. CASE BindStatusUnknown
  <2>1. uevents' \in Seq(Uevents)
    BY <1>4, TypeUevent DEF BindStatusUnknown
  <2> QED BY <1>4, <2>1 DEF BindStatusUnknown, TypeOK, ownVars, kernelVars, uploadVars
<1>5. CASE updateUdcBindStatus
  <2>1. uevents' \in Seq(Uevents)
    BY <1>5, TypeUevent DEF updateUdcBindStatus
  <2>2. mUdcBind' \in BOOLEAN /\ doubt' \in BOOLEAN
    BY <1>5 DEF updateUdcBindStatus, SetUdcBind, TypeOK
  <2>3. /\ session' \in Nat /\ states' \in [Files -> Seq(Nat)]
        /\ uploads' \subseteq [port : Files, session : Nat, states : Seq(Nat)]
        /\ reported' \in BOOLEAN /\ twice' \in BOOLEAN
    <3>1. CASE PullDown
      BY <3>1, TypeReport DEF PullDown, TypeOK
    <3>2. CASE PullUp
      <4>1. states' \in [Files -> Seq(Nat)]
        BY <3>2, TypeClear DEF PullUp, clearDeviceStateEvents
      <4>2. session' \in Nat /\ reported' \in BOOLEAN
        <5>1. session' = session + 1 /\ reported' = FALSE
          BY <3>2 DEF PullUp
        <5>2. session \in Nat
          BY DEF TypeOK
        <5>3. session' \in Nat
          BY <5>1, <5>2
        <5>4. reported' \in BOOLEAN
          BY <5>1
        <5> QED BY <5>3, <5>4
      <4> QED BY <3>2, <4>1, <4>2 DEF PullUp, TypeOK
    <3>3. CASE UNCHANGED <<session, states, uploadVars>>
      BY <3>3 DEF TypeOK, uploadVars
    <3> QED BY <1>5, UdcSteps, <3>1, <3>2, <3>3 DEF TypeOK
  <2> QED BY <1>5, <2>1, <2>2, <2>3 DEF updateUdcBindStatus, TypeOK, kernelVars
<1>6. CASE handleDataRoleEvent
  <2>1. mDataRole' \in Roles
    BY <1>6, RoleSteps DEF TypeOK
  <2>2. /\ session' \in Nat /\ states' \in [Files -> Seq(Nat)]
        /\ uploads' \subseteq [port : Files, session : Nat, states : Seq(Nat)]
        /\ reported' \in BOOLEAN /\ twice' \in BOOLEAN
    <3>1. CASE NewSession
      <4>1. states' \in [Files -> Seq(Nat)]
        BY <3>1, TypeClear DEF NewSession, clearDeviceStateEvents
      <4>2. session' \in Nat /\ reported' \in BOOLEAN
        <5>1. session' = session + 1 /\ reported' = FALSE
          BY <3>1 DEF NewSession
        <5>2. session \in Nat
          BY DEF TypeOK
        <5>3. session' \in Nat
          BY <5>1, <5>2
        <5>4. reported' \in BOOLEAN
          BY <5>1
        <5> QED BY <5>3, <5>4
      <4>3. CASE SessionEnds
        <5>1. reportUsbDataSessionMetrics
          BY <3>1, <4>3 DEF NewSession
        <5> QED BY <4>1, <4>2, <5>1, TypeReport
      <4>4. CASE ~SessionEnds
        <5>1. uploads' = uploads /\ twice' = twice
          BY <3>1, <4>4 DEF NewSession
        <5> QED BY <4>1, <4>2, <5>1 DEF TypeOK
      <4> QED BY <4>3, <4>4
    <3>2. CASE UNCHANGED <<session, states, uploadVars>>
      BY <3>2 DEF TypeOK, uploadVars
    <3> QED BY <1>6, RoleSteps, <3>1, <3>2
  <2> QED BY <1>6, <2>1, <2>2 DEF handleDataRoleEvent, TypeOK, kernelVars
<1>7. ASSUME NEW f \in Files, handleDeviceStateEvent(f) PROVE TypeOK'
  <2>1. states' \in [Files -> Seq(Nat)]
    <3>1. ValidStates(f) \subseteq Nat
      BY DEF ValidStates, TypeOK
    <3>2. \A s \in Nat : [states EXCEPT ![f] = Append(@, s)] \in [Files -> Seq(Nat)]
      BY DEF TypeOK
    <3> QED BY <1>7, <3>1, <3>2 DEF handleDeviceStateEvent, TypeOK
  <2> QED BY <1>7, <2>1 DEF handleDeviceStateEvent, TypeOK, kernelVars, uploadVars
<1> QED BY <1>1, <1>2, <1>3, <1>4, <1>5, <1>6, <1>7 DEF monitorThread, handleUevent

\* What the kernel does keeps the types.
LEMMA TypeKernel == ASSUME TypeOK, Kernel PROVE TypeOK'
<1> USE DEF Change, ownVars, uploadVars
<1>1. Change => changes' \in 0..MaxChanges
  BY MaxChangesAssumption DEF TypeOK
<1>2. \A k \in {"bind", "unbind", "change"} : \A f \in Files :
        Append(uevents, Uevent(k, f)) \in Seq(Uevents)
  <2>1. \A k \in {"bind", "unbind", "change"} : \A f \in Files : Uevent(k, f) \in Uevents
    BY DEF Uevent, Uevents
  <2> QED BY <2>1 DEF TypeOK
<1>3. CASE RoleChanges
  BY <1>1, <1>3 DEF RoleChanges, TypeOK
<1>4. CASE GadgetBinds
  BY <1>1, <1>2, <1>4 DEF GadgetBinds, TypeOK, Files
<1>5. CASE GadgetUnbinds
  BY <1>1, <1>2, <1>5 DEF GadgetUnbinds, TypeOK, Files
<1>6. CASE GadgetUnbound
  BY <1>6 DEF GadgetUnbound, TypeOK
<1>7. ASSUME NEW f \in Files, StateChanges(f) PROVE TypeOK'
  BY <1>1, <1>7 DEF StateChanges, TypeOK
<1>8. ASSUME NEW f \in Files, PortAppears(f) PROVE TypeOK'
  BY <1>1, <1>2, <1>8 DEF PortAppears, TypeOK
<1>9. ASSUME NEW f \in Files, PortGoes(f) PROVE TypeOK'
  BY <1>1, <1>2, <1>9 DEF PortGoes, TypeOK
<1> QED BY <1>3, <1>4, <1>5, <1>6, <1>7, <1>8, <1>9 DEF Kernel

\* Neither does a stuttering step harm them.
LEMMA TypeStutter == ASSUME TypeOK, UNCHANGED vars PROVE TypeOK'
BY DEF TypeOK, vars, ownVars, kernelVars, uploadVars

\* Every variable has its type, whatever the kernel does to the files.
THEOREM TypeCorrect == Spec => []TypeOK
<1>1. TypeOK /\ [Next]_vars => TypeOK'
  BY TypeMonitor, TypeKernel, TypeStutter DEF Next
<1> QED BY TypeInit, <1>1, PTL DEF Spec

-----------------------------------------------------------------------------
(* Reports *)

\* A step of anyone but the role and bind handlers leaves the session alone.
LEMMA SessionUntouched ==
  ASSUME Next, ~handleDataRoleEvent, ~updateUdcBindStatus
  PROVE  UNCHANGED <<mDataRole, mUdcBind, session, uploadVars>>
<1>1. CASE Kernel
  BY <1>1 DEF Kernel, RoleChanges, GadgetBinds, GadgetUnbinds, GadgetUnbound, StateChanges,
              PortAppears, PortGoes, Change, ownVars
<1>2. CASE monitorThread
  BY <1>2 DEF monitorThread, handleUevent, AddEpollFile, RemoveEpollFile, IgnoreUdcBind,
              BindStatusUnknown, handleDeviceStateEvent, ownVars
<1> QED BY <1>1, <1>2 DEF Next

\* A pulldown and a role change never both report the same session.
LEMMA ReportingInductive == TypeOK /\ Reporting /\ [Next]_vars => Reporting'
<1> SUFFICES ASSUME TypeOK, Reporting, [Next]_vars PROVE Reporting'
  OBVIOUS
<1>1. CASE handleDataRoleEvent
  <2>1. mUdcBind' = mUdcBind
    BY <1>1 DEF handleDataRoleEvent
  <2>2. CASE NewSession
    <3>1. SessionEnds => ~reported
      BY DEF SessionEnds, Reporting
    <3>2. CASE SessionEnds
      BY <2>2, <3>1, <3>2 DEF NewSession, reportUsbDataSessionMetrics, Reporting
    <3>3. CASE ~SessionEnds
      BY <2>2, <3>3 DEF NewSession, Reporting
    <3> QED BY <3>2, <3>3
  <2>3. CASE mDataRole' = mDataRole /\ UNCHANGED <<session, states, uploadVars>>
    BY <2>1, <2>3 DEF Reporting, uploadVars
  <2> QED BY <1>1, <2>2, <2>3, RoleSteps
<1>2. CASE updateUdcBindStatus
  <2>1. mDataRole' = mDataRole
    BY <1>2 DEF updateUdcBindStatus
  <2>2. CASE mDataRole = "DEVICE" /\ mUdcBind /\ ~mUdcBind' /\ PullDown
    BY <2>1, <2>2 DEF PullDown, reportUsbDataSessionMetrics, Reporting
  <2>3. CASE PullUp
    BY <2>3 DEF PullUp, Reporting
  <2>4. CASE /\ mDataRole # "DEVICE" \/ mUdcBind' = mUdcBind
             /\ UNCHANGED <<session, states, uploadVars>>
    BY <2>1, <2>4 DEF Reporting, uploadVars
  <2> QED BY <1>2, <2>2, <2>3, <2>4, UdcSteps DEF TypeOK
<1>3. CASE Next /\ ~handleDataRoleEvent /\ ~updateUdcBindStatus
  BY <1>3, SessionUntouched DEF Reporting, uploadVars
<1>4. CASE UNCHANGED vars
  BY <1>4 DEF vars, ownVars, uploadVars, Reporting
<1> QED BY <1>1, <1>2, <1>3, <1>4

\* What is uploaded comes from files of the role.
LEMMA UploadsOfRole == \A u \in Uploads : \E f \in FilesOf(mDataRole) : u = Upload(f)
<1>1. CASE mDataRole = "DEVICE"
  BY <1>1 DEF Uploads, FilesOf
<1>2. CASE mDataRole = "HOST"
  <2>1. UpdatedHosts \subseteq Hosts /\ "host1" \in Hosts
    BY DEF UpdatedHosts, Hosts
  <2>2. Uploads = {Upload(h) : h \in IF UpdatedHosts = {} THEN {"host1"} ELSE UpdatedHosts}
    BY <1>2 DEF Uploads
  <2>3. FilesOf(mDataRole) = Hosts
    BY <1>2 DEF FilesOf
  <2> QED BY <2>1, <2>2, <2>3
<1>3. CASE mDataRole \notin {"DEVICE", "HOST"}
  BY <1>3 DEF Uploads
<1> QED BY <1>1, <1>2, <1>3

\* These are tagged.
LEMMA UploadsTagged ==
  ASSUME TypeOK, Tagged, OwnStatesOnly, reportUsbDataSessionMetrics
  PROVE  OwnStatesOnly'
<1>1. \A u \in Uploads : \A i \in DOMAIN u.states : u.states[i] = u.session
  <2>1. \A f \in FilesOf(mDataRole) : \A i \in DOMAIN Upload(f).states :
          Upload(f).states[i] = Upload(f).session
    BY DEF Tagged, Upload
  <2> QED BY <2>1, UploadsOfRole
<1>2. uploads' \subseteq uploads \cup Uploads
  BY DEF reportUsbDataSessionMetrics
<1> QED BY <1>1, <1>2 DEF OwnStatesOnly

\* Every role change and every pullup clears what its session is to read.
LEMMA TaggedInductive ==
  TypeOK /\ Tagged /\ OwnStatesOnly /\ [Next]_vars => (Tagged /\ OwnStatesOnly)'
<1> SUFFICES ASSUME TypeOK, Tagged, OwnStatesOnly, [Next]_vars PROVE (Tagged /\ OwnStatesOnly)'
  OBVIOUS
<1>1. FilesOf(mDataRole) \subseteq Files /\ FilesOf(mDataRole)' \subseteq Files
  BY DEF FilesOf, Files
<1>2. CASE UNCHANGED <<mDataRole, session, states, uploadVars>>
  BY <1>2 DEF Tagged, OwnStatesOnly, FilesOf, uploadVars
<1>3. CASE handleDataRoleEvent
  <2>1. CASE NewSession
    <3>1. OwnStatesOnly'
      <4>1. CASE SessionEnds
        BY <2>1, <4>1, UploadsTagged DEF NewSession
      <4>2. CASE ~SessionEnds
        BY <2>1, <4>2 DEF NewSession, OwnStatesOnly
      <4> QED BY <4>1, <4>2
    <3>2. FilesOf(mDataRole)' = FilesOf(newDataRole)
      BY <2>1 DEF NewSession, FilesOf
    <3>3. \A f \in FilesOf(newDataRole) : states'[f] = <<>>
      BY <1>1, <2>1, <3>2 DEF NewSession, clearDeviceStateEvents
    <3>4. Tagged'
      BY <3>2, <3>3 DEF Tagged
    <3> QED BY <3>1, <3>4
  <2>2. CASE mDataRole' = mDataRole /\ UNCHANGED <<session, states, uploadVars>>
    BY <1>2, <2>2
  <2> QED BY <1>3, <2>1, <2>2, RoleSteps
<1>4. CASE updateUdcBindStatus
  <2>1. mDataRole' = mDataRole
    BY <1>4 DEF updateUdcBindStatus
  <2>2. CASE PullDown
    BY <2>1, <2>2, UploadsTagged DEF PullDown, Tagged, FilesOf
  <2>3. CASE mDataRole = "DEVICE" /\ PullUp
    <3>1. FilesOf(mDataRole)' = {"device"}
      BY <2>1, <2>3 DEF FilesOf
    <3>2. states'["device"] = <<>>
      BY <2>3 DEF PullUp, clearDeviceStateEvents, Files
    <3>3. Tagged'
      BY <3>1, <3>2 DEF Tagged
    <3>4. OwnStatesOnly'
      BY <2>3 DEF PullUp, OwnStatesOnly
    <3> QED BY <3>3, <3>4
  <2>4. CASE UNCHANGED <<session, states, uploadVars>>
    BY <1>2, <2>1, <2>4
  <2> QED BY <1>4, <2>2, <2>3, <2>4, UdcSteps DEF TypeOK
<1>5. ASSUME NEW f \in Files, handleDeviceStateEvent(f) PROVE (Tagged /\ OwnStatesOnly)'
  <2>1. UNCHANGED <<mDataRole, session, uploads>>
    BY <1>5 DEF handleDeviceStateEvent, uploadVars
  <2>2. OwnStatesOnly'
    BY <2>1 DEF OwnStatesOnly
  <2>3. CASE states' = states
    BY <2>1, <2>2, <2>3 DEF Tagged, FilesOf
  <2>4. ASSUME NEW s \in ValidStates(f), states' = [states EXCEPT ![f] = Append(@, s)]
        PROVE  Tagged'
    <3>1. s = session
      BY DEF ValidStates
    <3>2. \A g \in Files : states[g] \in Seq(Nat)
      BY DEF TypeOK
    <3>3. \A g \in FilesOf(mDataRole) : \A i \in DOMAIN states'[g] :
            states'[g][i] = session
      <4> SUFFICES ASSUME NEW g \in FilesOf(mDataRole), NEW i \in DOMAIN states'[g]
                   PROVE  states'[g][i] = session
        OBVIOUS
      <4>1. CASE g # f
        BY <1>1, <2>4, <4>1 DEF Tagged, TypeOK
      <4>2. CASE g = f
        <5>1. states'[g] = Append(states[g], s)
          BY <2>4, <4>2 DEF TypeOK
        <5>2. CASE i \in DOMAIN states[g]
          <6>1. states'[g][i] = states[g][i]
            BY <1>1, <3>2, <5>1, <5>2
          <6> QED BY <5>2, <6>1 DEF Tagged
        <5>3. CASE i \notin DOMAIN states[g]
          <6>1. states'[g][i] = s
            BY <1>1, <3>2, <5>1, <5>3
          <6> QED BY <3>1, <6>1
        <5> QED BY <5>2, <5>3
      <4> QED BY <4>1, <4>2
    <3> QED BY <2>1, <3>3 DEF Tagged, FilesOf
  <2> QED BY <1>5, <2>2, <2>3, <2>4 DEF handleDeviceStateEvent
<1>6. CASE AddEpollFile \/ RemoveEpollFile
  BY <1>2, <1>6 DEF AddEpollFile, RemoveEpollFile
<1>7. CASE IgnoreUdcBind \/ BindStatusUnknown \/ UNCHANGED vars
  BY <1>2, <1>7 DEF IgnoreUdcBind, BindStatusUnknown, vars, ownVars
<1>8. CASE Kernel
  BY <1>2, <1>8 DEF Kernel, RoleChanges, GadgetBinds, GadgetUnbinds, GadgetUnbound,
                    StateChanges, PortAppears, PortGoes, Change, ownVars
<1> QED BY <1>3, <1>4, <1>5, <1>6, <1>7, <1>8 DEF Next, monitorThread, handleUevent

-----------------------------------------------------------------------------
(* What the monitor knows of the port *)

\* Reading the role is what ends the role event.
LEMMA RoleInductive == TypeOK /\ RoleFollowsFile /\ [Next]_vars => RoleFollowsFile'
<1> SUFFICES ASSUME TypeOK, RoleFollowsFile, [Next]_vars PROVE RoleFollowsFile'
  OBVIOUS
<1>1. CASE handleDataRoleEvent
  BY <1>1, RoleSteps DEF RoleFollowsFile
<1>2. CASE RoleChanges
  BY <1>2 DEF RoleChanges, RoleFollowsFile
<1>3. ASSUME UNCHANGED <<mDataRole, role>>, "role" \in pending => "role" \in pending'
      PROVE  RoleFollowsFile'
  BY <1>3 DEF RoleFollowsFile
<1>4. \A f \in Files : f # "role"
  BY DEF Files, Hosts
<1>5. CASE \E f \in Files : handleDeviceStateEvent(f)
  BY <1>3, <1>4, <1>5 DEF handleDeviceStateEvent, kernelVars
<1>6. CASE AddEpollFile
  BY <1>3, <1>6 DEF AddEpollFile, kernelVars
<1>7. CASE RemoveEpollFile
  <2>1. Head(uevents).dev # "role"
    BY <1>7 DEF RemoveEpollFile, NextUevent, Hosts
  <2> QED BY <1>3, <1>7, <2>1 DEF RemoveEpollFile, kernelVars
<1>8. CASE IgnoreUdcBind \/ BindStatusUnknown \/ UNCHANGED vars
  BY <1>3, <1>8 DEF IgnoreUdcBind, BindStatusUnknown, vars, ownVars, kernelVars
<1>9. CASE updateUdcBindStatus
  BY <1>3, <1>9 DEF updateUdcBindStatus, kernelVars
<1>10. CASE GadgetBinds \/ GadgetUnbinds \/ GadgetUnbound
  BY <1>3, <1>10 DEF GadgetBinds, GadgetUnbinds, GadgetUnbound, Change, ownVars
<1>11. ASSUME NEW f \in Files, StateChanges(f) \/ PortAppears(f) \/ PortGoes(f)
       PROVE  RoleFollowsFile'
  BY <1>3, <1>11 DEF StateChanges, PortAppears, PortGoes, Change, ownVars
<1> QED BY <1>1, <1>2, <1>5, <1>6, <1>7, <1>8, <1>9, <1>10, <1>11
        DEF Next, monitorThread, handleUevent, Kernel

\* Taking another event than a change@ off the queue leaves no change@ behind
\* only if none was there.
LEMMA OtherUevent ==
  ASSUME TypeOK, NEW kinds, NEW devs, NextUevent(kinds, devs), "change" \notin kinds, NoChange'
  PROVE  NoChange
<1>1. uevents \in Seq(Uevents) /\ uevents # <<>> /\ uevents' = Tail(uevents)
  BY DEF NextUevent, TypeOK
<1>2. uevents[1].kind # "change"
  BY <1>1 DEF NextUevent
<1>3. Len(uevents') = Len(uevents) - 1 /\ Len(uevents) \in Nat
  BY <1>1
<1>4. \A i \in 1..Len(uevents') : uevents'[i] = uevents[i + 1]
  BY <1>1
<1> SUFFICES ASSUME NEW i \in 1..Len(uevents), i # 1 PROVE uevents[i].kind # "change"
  BY <1>2 DEF NoChange
<1>5. i - 1 \in 1..Len(uevents') /\ (i - 1) + 1 = i
  BY <1>3
<1> QED BY <1>4, <1>5 DEF NoChange

\* A sent change@ is there to be handled; without one nothing new is to come.
LEMMA SentUevent ==
  ASSUME TypeOK, NEW k \in {"bind", "unbind", "change"}, NEW f \in Files,
         uevents' = Append(uevents, Uevent(k, f)), NoChange'
  PROVE  k # "change" /\ NoChange
<1>1. uevents \in Seq(Uevents) /\ Len(uevents) \in Nat
  BY DEF TypeOK
<1>2. Len(uevents') = Len(uevents) + 1 /\ uevents'[Len(uevents) + 1] = Uevent(k, f)
  BY <1>1
<1>3. \A i \in 1..Len(uevents) : uevents'[i] = uevents[i] /\ i \in 1..Len(uevents')
  BY <1>1, <1>2
<1>4. Len(uevents) + 1 \in 1..Len(uevents')
  BY <1>1, <1>2
<1>5. k # "change"
  BY <1>2, <1>4 DEF NoChange, Uevent
<1> QED BY <1>3, <1>5 DEF NoChange

\* Each change of the bind state sends a change@, before or after it.
LEMMA UdcBindInductive == TypeOK /\ UdcBind /\ [Next]_vars => UdcBind'
<1> SUFFICES ASSUME TypeOK, UdcBind, [Next]_vars, NoChange'
             PROVE  (~doubt' => mUdcBind' = (udc' # "unbound"))
                    /\ (udc' = "unbinding" => doubt')
  BY DEF UdcBind
<1>1. ASSUME NoChange, UNCHANGED <<mUdcBind, udc, doubt>>
      PROVE  (~doubt' => mUdcBind' = (udc' # "unbound")) /\ (udc' = "unbinding" => doubt')
  BY <1>1 DEF UdcBind
<1>2. CASE updateUdcBindStatus
  <2>1. udc' = udc /\ doubt' = (udc = "unbinding")
    BY <1>2 DEF updateUdcBindStatus, kernelVars
  <2>2. mUdcBind' = (udc # "unbound")
    BY <1>2 DEF updateUdcBindStatus, SetUdcBind
  <2> QED BY <2>1, <2>2
<1>3. CASE BindStatusUnknown
  BY <1>3 DEF BindStatusUnknown
<1>4. CASE AddEpollFile
  <2>1. NoChange
    BY <1>4, OtherUevent DEF AddEpollFile
  <2> QED BY <1>1, <1>4, <2>1 DEF AddEpollFile, kernelVars
<1>5. CASE RemoveEpollFile
  <2>1. NoChange
    BY <1>5, OtherUevent DEF RemoveEpollFile
  <2> QED BY <1>1, <1>5, <2>1 DEF RemoveEpollFile, kernelVars
<1>6. CASE IgnoreUdcBind
  <2>1. NoChange
    BY <1>6, OtherUevent DEF IgnoreUdcBind
  <2> QED BY <1>1, <1>6, <2>1 DEF IgnoreUdcBind, ownVars, kernelVars
<1>7. CASE \/ handleDataRoleEvent \/ RoleChanges \/ UNCHANGED vars
           \/ \E f \in Files : handleDeviceStateEvent(f) \/ StateChanges(f)
  <2>1. UNCHANGED <<mUdcBind, udc, doubt, uevents>>
    BY <1>7 DEF handleDataRoleEvent, RoleChanges, handleDeviceStateEvent, StateChanges, Change,
                vars, ownVars, kernelVars
  <2>2. NoChange
    BY <2>1 DEF NoChange
  <2> QED BY <1>1, <2>1, <2>2
<1>8. ASSUME NEW f \in Files, PortAppears(f) \/ PortGoes(f)
      PROVE  (~doubt' => mUdcBind' = (udc' # "unbound")) /\ (udc' = "unbinding" => doubt')
  <2>1. NoChange
    BY <1>8, SentUevent DEF PortAppears, PortGoes
  <2> QED BY <1>1, <1>8, <2>1 DEF PortAppears, PortGoes, Change, ownVars
<1>9. CASE GadgetBinds \/ GadgetUnbinds
  <2>1. "device" \in Files
    BY DEF Files
  <2>2. FALSE
    BY <1>9, <2>1, SentUevent DEF GadgetBinds, GadgetUnbinds
  <2> QED BY <2>2
<1>10. CASE GadgetUnbound
  <2>1. NoChange
    BY <1>10 DEF GadgetUnbound, NoChange
  <2>2. doubt
    BY <1>10, <2>1 DEF GadgetUnbound, UdcBind
  <2> QED BY <1>10, <2>2 DEF GadgetUnbound
<1> QED BY <1>2, <1>3, <1>4, <1>5, <1>6, <1>7, <1>8, <1>9, <1>10
        DEF Next, monitorThread, handleUevent, Kernel

\* Taking a uevent off the queue leaves the last one of h where it is, unless
\* it is the one taken.
LEMMA TakenUevent ==
  ASSUME TypeOK, NEW kinds, NEW devs, NextUevent(kinds, devs), NEW h
  PROVE  /\ \A i \in 1..Len(uevents') :
              /\ i + 1 \in 1..Len(uevents) /\ uevents'[i] = uevents[i + 1]
              /\ LastOf(h, i, uevents') => LastOf(h, i + 1, uevents)
         /\ NothingOf(h, uevents') => NothingOf(h, uevents) \/ LastOf(h, 1, uevents)
<1>1. uevents \in Seq(Uevents) /\ uevents # <<>> /\ uevents' = Tail(uevents)
  BY DEF NextUevent, TypeOK
<1>2. Len(uevents') = Len(uevents) - 1 /\ Len(uevents) \in Nat /\ Len(uevents) > 0
  BY <1>1
<1>3. \A i \in 1..Len(uevents') : i + 1 \in 1..Len(uevents) /\ uevents'[i] = uevents[i + 1]
  BY <1>1, <1>2
<1>4. \A j \in 1..Len(uevents) : j > 1 => j - 1 \in 1..Len(uevents') /\ uevents'[j - 1] = uevents[j]
  BY <1>2, <1>3
<1>5. ASSUME NEW i \in 1..Len(uevents'), LastOf(h, i, uevents') PROVE LastOf(h, i + 1, uevents)
  <2>1. \A j \in 1..Len(uevents') : j > i => uevents'[j].dev # h
    BY <1>5 DEF LastOf
  <2>2. ASSUME NEW j \in 1..Len(uevents), j > i + 1 PROVE uevents[j].dev # h
    <3>1. j - 1 \in 1..Len(uevents') /\ j - 1 > i /\ uevents'[j - 1] = uevents[j]
      BY <1>2, <1>4, <2>2
    <3> QED BY <2>1, <3>1
  <2>3. uevents[i + 1].dev = h
    BY <1>3, <1>5 DEF LastOf
  <2> QED BY <1>3, <2>2, <2>3 DEF LastOf
<1>6. ASSUME NothingOf(h, uevents') PROVE NothingOf(h, uevents) \/ LastOf(h, 1, uevents)
  <2>1. \A j \in 1..Len(uevents) : j > 1 => uevents[j].dev # h
    BY <1>4, <1>6 DEF NothingOf
  <2>2. 1 \in 1..Len(uevents)
    BY <1>2
  <2>3. CASE uevents[1].dev = h
    BY <2>1, <2>2, <2>3 DEF LastOf
  <2>4. CASE uevents[1].dev # h
    <3>1. \A j \in 1..Len(uevents) : j = 1 \/ j > 1
      BY <1>2
    <3> QED BY <2>1, <2>4, <3>1 DEF NothingOf
  <2> QED BY <2>3, <2>4
<1> QED BY <1>3, <1>5, <1>6

\* What a sent uevent does to the queue.
LEMMA SentAtEnd ==
  ASSUME TypeOK, NEW k, NEW f,
         Uevent(k, f) \in Uevents, uevents' = Append(uevents, Uevent(k, f))
  PROVE  \E n \in 1..Len(uevents') :
           /\ uevents'[n].dev = f /\ uevents'[n].kind = k
           /\ \A i \in 1..Len(uevents') : i = n \/ i \in 1..Len(uevents)
           /\ \A i \in 1..Len(uevents) :
                uevents'[i] = uevents[i] /\ i \in 1..Len(uevents') /\ n > i
<1>1. uevents \in Seq(Uevents) /\ Len(uevents) \in Nat
  BY DEF TypeOK
<1> DEFINE n == Len(uevents) + 1
<1>2. Len(uevents') = n /\ uevents'[n] = Uevent(k, f) /\ n \in 1..Len(uevents')
  BY <1>1
<1>3. \A i \in 1..Len(uevents) : uevents'[i] = uevents[i] /\ i \in 1..Len(uevents') /\ n > i
  BY <1>1, <1>2
<1>4. \A i \in 1..Len(uevents') : i = n \/ i \in 1..Len(uevents)
  BY <1>1, <1>2
<1>5. uevents'[n].dev = f /\ uevents'[n].kind = k
  BY <1>2 DEF Uevent
<1> QED BY <1>2, <1>3, <1>4, <1>5

\* A sent uevent is the last one of its host.
LEMMA SentOfHost ==
  ASSUME TypeOK, NEW k, NEW f,
         Uevent(k, f) \in Uevents, uevents' = Append(uevents, Uevent(k, f))
  PROVE  /\ ~NothingOf(f, uevents')
         /\ \A i \in 1..Len(uevents') : LastOf(f, i, uevents') => uevents'[i].kind = k
<1>1. PICK n \in 1..Len(uevents') :
        /\ uevents'[n].dev = f /\ uevents'[n].kind = k
        /\ \A i \in 1..Len(uevents') : i = n \/ i \in 1..Len(uevents)
        /\ \A i \in 1..Len(uevents) :
             uevents'[i] = uevents[i] /\ i \in 1..Len(uevents') /\ n > i
  BY SentAtEnd
<1>2. ~NothingOf(f, uevents')
  BY <1>1 DEF NothingOf
<1>3. ASSUME NEW i \in 1..Len(uevents'), LastOf(f, i, uevents') PROVE uevents'[i].kind = k
  <2>1. ~(n > i)
    BY <1>1, <1>3 DEF LastOf
  <2> QED BY <1>1, <2>1
<1> QED BY <1>2, <1>3

\* It leaves those of the others as they are.
LEMMA SentOfOther ==
  ASSUME TypeOK, NEW k, NEW f, NEW h, h # f,
         Uevent(k, f) \in Uevents, uevents' = Append(uevents, Uevent(k, f))
  PROVE  /\ NothingOf(h, uevents') => NothingOf(h, uevents)
         /\ \A i \in 1..Len(uevents') :
              LastOf(h, i, uevents') => LastOf(h, i, uevents) /\ uevents'[i] = uevents[i]
<1>1. PICK n \in 1..Len(uevents') :
        /\ uevents'[n].dev = f /\ uevents'[n].kind = k
        /\ \A i \in 1..Len(uevents') : i = n \/ i \in 1..Len(uevents)
        /\ \A i \in 1..Len(uevents) :
             uevents'[i] = uevents[i] /\ i \in 1..Len(uevents') /\ n > i
  BY SentAtEnd
<1>2. NothingOf(h, uevents') => NothingOf(h, uevents)
  BY <1>1 DEF NothingOf
<1>3. ASSUME NEW i \in 1..Len(uevents'), LastOf(h, i, uevents')
      PROVE  LastOf(h, i, uevents) /\ uevents'[i] = uevents[i]
  <2>1. i # n
    BY <1>1, <1>3 DEF LastOf
  <2>2. i \in 1..Len(uevents) /\ uevents'[i] = uevents[i]
    BY <1>1, <2>1
  <2>3. uevents[i].dev = h /\ \A j \in 1..Len(uevents) : j > i => uevents[j].dev # h
    BY <1>1, <1>3, <2>2 DEF LastOf
  <2> QED BY <2>2, <2>3 DEF LastOf
<1> QED BY <1>2, <1>3

\* Each coming and going of a host sends a uevent, and the last one of a host
\* leaves its file in or out of the epoll set as the host is there or not.
LEMMA HostsInductive == TypeOK /\ HostsKnown /\ [Next]_vars => HostsKnown'
<1> SUFFICES ASSUME TypeOK, HostsKnown, [Next]_vars, NEW h \in Hosts
             PROVE  /\ NothingOf(h, uevents') => (h \in registered' <=> h \in present')
                    /\ \A i \in 1..Len(uevents') :
                         LastOf(h, i, uevents') =>
                           uevents'[i].kind = IF h \in present' THEN "bind" ELSE "unbind"
  BY DEF HostsKnown
<1> DEFINE Goal == /\ NothingOf(h, uevents') => (h \in registered' <=> h \in present')
                   /\ \A i \in 1..Len(uevents') :
                        LastOf(h, i, uevents') =>
                          uevents'[i].kind = IF h \in present' THEN "bind" ELSE "unbind"
<1>1. h \in Files /\ h # "device"
  BY DEF Hosts, Files
<1>2. ASSUME UNCHANGED <<registered, present, uevents>> PROVE Goal
  BY <1>2 DEF HostsKnown, NothingOf, LastOf
<1>3. ASSUME h \in present' <=> h \in present, registered' = registered,
              NothingOf(h, uevents') => NothingOf(h, uevents),
              \A i \in 1..Len(uevents') :
                LastOf(h, i, uevents') => LastOf(h, i, uevents) /\ uevents'[i] = uevents[i]
       PROVE  Goal
  <2>1. ASSUME NEW i \in 1..Len(uevents'), LastOf(h, i, uevents')
        PROVE  uevents'[i].kind = IF h \in present' THEN "bind" ELSE "unbind"
    <3>1. LastOf(h, i, uevents) /\ uevents'[i] = uevents[i]
      BY <1>3, <2>1
    <3>2. i \in 1..Len(uevents)
      BY <3>1 DEF LastOf
    <3>3. uevents[i].kind = IF h \in present THEN "bind" ELSE "unbind"
      BY <3>1, <3>2 DEF HostsKnown
    <3> QED BY <1>3, <3>1, <3>3
  <2>2. NothingOf(h, uevents') => (h \in registered' <=> h \in present')
    BY <1>3 DEF HostsKnown
  <2> QED BY <2>1, <2>2
<1>4. ASSUME NEW kinds, NEW devs, NextUevent(kinds, devs), present' = present,
             NothingOf(h, uevents) => (h \in registered' <=> h \in registered),
             LastOf(h, 1, uevents) => (h \in registered' <=> h \in present)
      PROVE  Goal
  <2>1. \A i \in 1..Len(uevents') :
          LastOf(h, i, uevents') => uevents'[i].kind = IF h \in present' THEN "bind" ELSE "unbind"
    BY <1>4, TakenUevent DEF HostsKnown
  <2>2. NothingOf(h, uevents') => (h \in registered' <=> h \in present')
    BY <1>4, TakenUevent DEF HostsKnown
  <2> QED BY <2>1, <2>2
<1>5. ASSUME NEW kinds, NEW devs, NextUevent(kinds, devs)
      PROVE  /\ uevents[1].kind \in kinds /\ uevents[1].dev \in devs
             /\ 1 \in 1..Len(uevents)
  BY <1>5 DEF NextUevent, TypeOK
<1>6. CASE AddEpollFile
  <2>1. NextUevent({"bind"}, Hosts) /\ present' = present
    BY <1>6 DEF AddEpollFile, kernelVars
  <2>2. registered' = registered \cup ({uevents[1].dev} \cap present)
    BY <1>6, <2>1 DEF AddEpollFile, NextUevent, TypeOK
  <2>3. 1 \in 1..Len(uevents) /\ uevents[1].kind = "bind"
    BY <1>5, <2>1
  <2>4. NothingOf(h, uevents) => uevents[1].dev # h
    BY <2>3 DEF NothingOf
  <2>5. LastOf(h, 1, uevents) => uevents[1].dev = h /\ h \in present
    BY <2>3 DEF LastOf, HostsKnown
  <2> QED BY <1>4, <2>1, <2>2, <2>4, <2>5
<1>7. CASE RemoveEpollFile
  <2>1. NextUevent({"unbind"}, Hosts) /\ present' = present
    BY <1>7 DEF RemoveEpollFile, kernelVars
  <2>2. registered' = registered \ {uevents[1].dev}
    BY <1>7, <2>1 DEF RemoveEpollFile, Unregister, NextUevent, TypeOK
  <2>3. 1 \in 1..Len(uevents) /\ uevents[1].kind = "unbind"
    BY <1>5, <2>1
  <2>4. NothingOf(h, uevents) => uevents[1].dev # h
    BY <2>3 DEF NothingOf
  <2>5. LastOf(h, 1, uevents) => uevents[1].dev = h /\ h \notin present
    BY <2>3 DEF LastOf, HostsKnown
  <2> QED BY <1>4, <2>1, <2>2, <2>4, <2>5
<1>8. CASE IgnoreUdcBind \/ updateUdcBindStatus \/ BindStatusUnknown
  <2>1. PICK kinds : NextUevent(kinds, {"device"})
    BY <1>8 DEF IgnoreUdcBind, updateUdcBindStatus, BindStatusUnknown
  <2>2. present' = present /\ registered' = registered
    BY <1>8 DEF IgnoreUdcBind, updateUdcBindStatus, BindStatusUnknown, ownVars, kernelVars
  <2>3. ~LastOf(h, 1, uevents)
    BY <1>1, <1>5, <2>1 DEF LastOf
  <2> QED BY <1>4, <2>1, <2>2, <2>3
<1>9. CASE \/ handleDataRoleEvent \/ RoleChanges \/ GadgetUnbound \/ UNCHANGED vars
           \/ \E f \in Files : handleDeviceStateEvent(f) \/ StateChanges(f)
  BY <1>2, <1>9 DEF handleDataRoleEvent, RoleChanges, GadgetUnbound, handleDeviceStateEvent,
                    StateChanges, Change, vars, ownVars, kernelVars
<1>10. CASE GadgetBinds \/ GadgetUnbinds
  <2>1. /\ uevents' = Append(uevents, Uevent("change", "device"))
        /\ UNCHANGED <<registered, present>>
    BY <1>10 DEF GadgetBinds, GadgetUnbinds, Change, ownVars
  <2>2. Uevent("change", "device") \in Uevents
    BY DEF Uevent, Uevents, Files
  <2>3. /\ NothingOf(h, uevents') => NothingOf(h, uevents)
        /\ \A i \in 1..Len(uevents') :
             LastOf(h, i, uevents') => LastOf(h, i, uevents) /\ uevents'[i] = uevents[i]
    BY ONLY TypeOK, <1>1, <2>1, <2>2, SentOfOther
  <2>4. h \in present' <=> h \in present
    BY <2>1
  <2>5. registered' = registered
    BY <2>1
  <2>6. Goal
    BY ONLY <1>3, <2>3, <2>4, <2>5
  <2> QED BY <2>6
<1>11. ASSUME NEW f \in Files, PortAppears(f) \/ PortGoes(f) PROVE Goal
  <2>1. PICK k \in {"bind", "unbind"} :
          /\ uevents' = Append(uevents, Uevent(k, f))
          /\ present' = IF k = "bind" THEN present \cup {f} ELSE present \ {f}
    BY <1>11 DEF PortAppears, PortGoes
  <2>2. registered' = registered
    BY <1>11 DEF PortAppears, PortGoes, Change, ownVars
  <2>3. Uevent(k, f) \in Uevents
    BY DEF Uevent, Uevents
  <2>4. CASE h = f
    BY <2>1, <2>3, <2>4, SentOfHost
  <2>5. CASE h # f
    <3>1. /\ NothingOf(h, uevents') => NothingOf(h, uevents)
          /\ \A i \in 1..Len(uevents') :
               LastOf(h, i, uevents') => LastOf(h, i, uevents) /\ uevents'[i] = uevents[i]
      BY ONLY TypeOK, <2>1, <2>3, <2>5, SentOfOther
    <3>2. h \in present' <=> h \in present
      BY <2>1, <2>5
    <3>3. Goal
      BY ONLY <1>3, <2>2, <3>1, <3>2
    <3> QED BY <3>3
  <2> QED BY <2>4, <2>5
<1> QED BY <1>6, <1>7, <1>8, <1>9, <1>10, <1>11
        DEF Next, monitorThread, handleUevent, Kernel

-----------------------------------------------------------------------------
(* The theorems *)

\* The invariant holds in the initial state.
LEMMA InitInv == Init => IInv
<1> SUFFICES ASSUME Init PROVE IInv
  OBVIOUS
<1>1. TypeOK
  BY TypeInit
<1>2. Reporting /\ OwnStatesOnly /\ RoleFollowsFile
  BY DEF Init, Reporting, OwnStatesOnly, RoleFollowsFile
<1>3. Tagged
  <2>1. \A f \in Files : states[f] = <<>>
    BY DEF Init
  <2>2. FilesOf(mDataRole) \subseteq Files
    BY DEF FilesOf, Files
  <2> QED BY <2>1, <2>2 DEF Tagged
<1>4. UdcBind
  BY DEF Init, UdcBind
<1>5. HostsKnown
  <2>1. registered = present
    BY DEF Init
  <2>2. \A h \in Hosts : \A i \in 1..Len(uevents) :
          uevents[i].dev = h => uevents[i].kind = IF h \in present THEN "bind" ELSE "unbind"
    BY DEF Init, Uevent
  <2> QED BY <2>1, <2>2 DEF HostsKnown, LastOf
<1> QED BY <1>1, <1>2, <1>3, <1>4, <1>5 DEF IInv

\* The invariant holds whatever the port does.
THEOREM Invariant == Spec => []IInv
<1>1. IInv /\ [Next]_vars => IInv'
  <2>1. TypeOK /\ [Next]_vars => TypeOK'
    BY TypeMonitor, TypeKernel, TypeStutter DEF Next
  <2> QED BY <2>1, ReportingInductive, TaggedInductive, RoleInductive, UdcBindInductive,
             HostsInductive DEF IInv
<1> QED BY InitInv, <1>1, PTL DEF Spec

\* A session is reported once, by the pulldown or by the role change that
\* ends it.
THEOREM SessionsReportedOnce == Spec => []ReportedOnce
<1>1. IInv => ReportedOnce
  BY DEF IInv, Reporting, ReportedOnce
<1> QED BY Invariant, <1>1, PTL

\* No upload holds what was read in an earlier session.
THEOREM UploadsAreOfTheirSession == Spec => []OwnStatesOnly
<1>1. IInv => OwnStatesOnly
  BY DEF IInv
<1> QED BY Invariant, <1>1, PTL

\* The role events that are handled leave mDataRole with the port's role.
THEOREM RoleIsFollowed == Spec => []RoleFollowsFile
<1>1. IInv => RoleFollowsFile
  BY DEF IInv
<1> QED BY Invariant, <1>1, PTL

\* The uevents that are handled leave mUdcBind right, but for the two doubts.
THEOREM UdcBindIsFollowed == Spec => []UdcBindIsCurrent
<1>1. IInv => UdcBindIsCurrent
  <2>1. uevents = <<>> => NoChange
    BY DEF NoChange
  <2> QED BY <2>1 DEF IInv, UdcBind, UdcBindIsCurrent
<1> QED BY Invariant, <1>1, PTL

\* The uevents that are handled leave the host files that exist in the epoll
\* set, and no others, however often the hosts came and went meanwhile.
THEOREM HostsAreWatched == Spec => []HostsWatched
<1>1. IInv => HostsWatched
  BY DEF IInv, HostsKnown, HostsWatched, NothingOf
<1> QED BY Invariant, <1>1, PTL

-----------------------------------------------------------------------------
(* SessionLog is implemented *)

\* A report adds entries as SessionLog wants them.
LEMMA ReportAdds ==
  ASSUME Tagged, reportUsbDataSessionMetrics
  PROVE  Log!Add
<1>1. uploads \subseteq uploads' /\ uploads' \ uploads \subseteq Uploads
  BY DEF reportUsbDataSessionMetrics
<1>2. \A u \in Uploads : \E f \in FilesOf(mDataRole) : u = Upload(f)
  BY UploadsOfRole
<1>3. PICK ports \in {{"device"}, Hosts} : FilesOf(mDataRole) \subseteq ports
  BY DEF FilesOf
<1>4. \A f \in FilesOf(mDataRole) :
        /\ Upload(f).port = f
        /\ Upload(f) = Log!Entry(f, Upload(f).states)
        /\ \A i \in DOMAIN Upload(f).states : Upload(f).states[i] = session
  BY DEF Upload, Log!Entry, Tagged
<1>5. ASSUME NEW e \in uploads' \ uploads
      PROVE  /\ e.port \in ports
             /\ e = Log!Entry(e.port, e.states)
             /\ \A i \in DOMAIN e.states : e.states[i] = session
             /\ \A d \in uploads' \ uploads : d.port = e.port => d = e
  <2>1. PICK f \in FilesOf(mDataRole) : e = Upload(f)
    BY <1>1, <1>2
  <2>2. ASSUME NEW d \in uploads' \ uploads, d.port = e.port PROVE d = e
    <3>1. PICK g \in FilesOf(mDataRole) : d = Upload(g)
      BY <1>1, <1>2
    <3> QED BY <1>4, <2>1, <2>2, <3>1
  <2> QED BY <1>3, <1>4, <2>1, <2>2
<1> QED BY <1>1, <1>5 DEF Log!Add

\* A change of role begins a session, and tells of the one that ends unless a
\* pulldown has.
LEMMA RoleChangeBegins ==
  ASSUME Reporting, Tagged, NewSession
  PROVE  Log!Begin
<1>1. session' = session + 1 /\ reported' = FALSE
  BY DEF NewSession
<1>2. CASE SessionEnds
  <2>1. reportUsbDataSessionMetrics /\ ~reported
    BY <1>2 DEF NewSession, SessionEnds, Reporting
  <2> QED BY <1>1, <2>1, ReportAdds DEF Log!Begin
<1>3. CASE ~SessionEnds
  <2>1. uploads' = uploads
    BY <1>3 DEF NewSession
  <2> QED BY <1>1, <2>1 DEF Log!Begin
<1> QED BY <1>2, <1>3

\* A change of the bind state tells of a session or begins one, in device role.
LEMMA BindChangeTells ==
  ASSUME TypeOK, Reporting, Tagged, updateUdcBindStatus
  PROVE  [Log!Next]_(Log!vars)
<1>1. CASE mDataRole = "DEVICE" /\ mUdcBind /\ PullDown
  <2>1. ~reported
    BY <1>1 DEF Reporting
  <2> QED BY <1>1, <2>1, ReportAdds DEF PullDown, Log!Next, Log!Tell
<1>2. CASE PullUp
  BY <1>2 DEF PullUp, Log!Next, Log!Begin
<1>3. CASE UNCHANGED <<session, states, uploadVars>>
  BY <1>3 DEF uploadVars, Log!vars
<1> QED BY <1>1, <1>2, <1>3, UdcSteps DEF TypeOK

LEMMA StepTells == IInv /\ [Next]_vars => [Log!Next]_(Log!vars)
<1> SUFFICES ASSUME IInv, [Next]_vars PROVE [Log!Next]_(Log!vars)
  OBVIOUS
<1>1. CASE handleDataRoleEvent
  <2>1. CASE NewSession
    BY <2>1, RoleChangeBegins DEF IInv, Log!Next
  <2>2. CASE UNCHANGED <<session, states, uploadVars>>
    BY <2>2 DEF uploadVars, Log!vars
  <2> QED BY <1>1, <2>1, <2>2, RoleSteps
<1>2. CASE updateUdcBindStatus
  BY <1>2, BindChangeTells DEF IInv
<1>3. CASE Next /\ ~handleDataRoleEvent /\ ~updateUdcBindStatus
  BY <1>3, SessionUntouched DEF uploadVars, Log!vars
<1>4. CASE UNCHANGED vars
  BY <1>4 DEF vars, ownVars, uploadVars, Log!vars
<1> QED BY <1>1, <1>2, <1>3, <1>4

\* The monitor tells the stats service of sessions as SessionLog promises, in
\* whatever order pulldowns, pullups and role changes end and begin them
\* (UsbDataSessionMonitor.cpp:262-338).
THEOREM MonitorKeepsSessionLog == Spec => TellsOfSessions
<1>1. Init => Log!Init
  BY DEF Init, Log!Init
<1> QED BY <1>1, StepTells, Invariant, PTL DEF Spec, TellsOfSessions, Log!Spec

\* No entry is of a session to come, nor of the current one before it is told
\* of; the entries of one session belong together.
Entries ==
  /\ \A u \in uploads : u.session <= session /\ (~reported => u.session < session)
  /\ \A u, v \in uploads : u.session = v.session =>
       /\ u.port = v.port => u = v
       /\ \E ports \in {{"device"}, Hosts} : {u.port, v.port} \subseteq ports

\* This is so whatever implements SessionLog.
LEMMA EntriesStep == TypeOK /\ Entries /\ [Log!Next]_(Log!vars) => Entries'
<1> SUFFICES ASSUME TypeOK, Entries, [Log!Next]_(Log!vars) PROVE Entries'
  OBVIOUS
<1>1. session \in Nat /\ \A u \in uploads : u.session \in Nat
  BY DEF TypeOK
<1>2. CASE Log!Add /\ ~reported /\ session' \in {session, session + 1}
           /\ (~reported' => session' = session + 1)
  <2>1. \A u \in uploads : u.session < session
    BY <1>2 DEF Entries
  <2>2. PICK ports \in {{"device"}, Hosts} : \A e \in uploads' \ uploads :
          /\ e.port \in ports /\ e = Log!Entry(e.port, e.states)
          /\ \A d \in uploads' \ uploads : d.port = e.port => d = e
    BY <1>2 DEF Log!Add
  <2>3. \A e \in uploads' \ uploads : e.session = session /\ e.port \in ports
    BY <2>2 DEF Log!Entry
  <2>4. \A u \in uploads' : u.session <= session' /\ (~reported' => u.session < session')
    BY <1>1, <1>2, <2>1, <2>3
  <2>5. ASSUME NEW u \in uploads', NEW v \in uploads', u.session = v.session
        PROVE  /\ u.port = v.port => u = v
               /\ \E p \in {{"device"}, Hosts} : {u.port, v.port} \subseteq p
    <3>1. CASE u \in uploads /\ v \in uploads
      BY <2>5, <3>1 DEF Entries
    <3>2. CASE u \notin uploads /\ v \notin uploads
      BY <2>2, <3>2
    <3>3. ~(u \in uploads /\ v \notin uploads) /\ ~(u \notin uploads /\ v \in uploads)
      BY <1>1, <2>1, <2>3, <2>5
    <3> QED BY <3>1, <3>2, <3>3
  <2> QED BY <2>4, <2>5 DEF Entries
<1>3. CASE uploads' = uploads /\ session' = session + 1
  BY <1>1, <1>3 DEF Entries
<1>4. CASE UNCHANGED Log!vars
  BY <1>4 DEF Entries, Log!vars
<1> QED BY <1>2, <1>3, <1>4 DEF Log!Next, Log!Tell, Log!Begin

\* Of no session is there an entry twice for a port, or one of the device port
\* beside one of a host port (UsbDataSessionMonitor.cpp:157-201).
THEOREM EntriesBelongTogether == Spec => []Entries
<1>1. Init => Entries
  BY DEF Init, Entries
<1>2. IInv /\ Entries /\ [Next]_vars => Entries'
  BY StepTells, EntriesStep DEF IInv
<1> QED BY <1>1, <1>2, Invariant, PTL DEF Spec
=============================================================================
