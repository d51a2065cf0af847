---------------------------- MODULE UsbHal_proofs ----------------------------
(***************************************************************************)
(* What holds of UsbHal for any set of ports, any number of calls and any  *)
(* number of waiting uevents.  Inv is inductive; the properties of UsbHal  *)
(* that are proved are conjuncts or consequences of it.                    *)
(***************************************************************************)
EXTENDS UsbHal, TLAPS

\* Who holds a mutex follows from where the threads are.
LockInv ==
  /\ owner["mLock"] = "binder" <=> pc["binder"] \in {"join", "notify"}
  /\ owner["mLock"] = "poll" <=> pc["poll"] = "notify"
  /\ owner["mLock"] = "monitor" <=> pc["monitor"] = "notify"
  /\ owner["mRoleSwitchLock"] = "binder" <=> pc["binder"] \in SwitchingPcs
  /\ owner["mRoleSwitchLock"] = "poll" <=> pc["poll"] \in {"ports", "drp"}
  /\ owner["mRoleSwitchLock"] # "monitor"
  /\ owner["mPartnerLock"] = "binder" <=> pc["binder"] \in {"write", "wait"}
  /\ owner["mPartnerLock"] \in {"binder", Free}

\* From the reset of mPartnerUp to the sleep nobody can set it.
PartnerInv ==
  /\ partnerCV # "none" <=> pc["binder"] = "waiting"
  /\ pc["binder"] \in {"write", "wait"} => ~mPartnerUp

\* The join is for a thread that was created.
JoinInv == pc["binder"] = "join" => ~mCallback /\ pc["poll"] # "none"

\* A partner's change that a query of the poll thread is still to follow, or
\* that no query will follow.
ChangePending ==
  \/ \E i \in 1..Len(uevents) : uevents[i] \in {"add", "remove"}
  \/ pc["poll"] \in {"partnerAdded", "queryPortStatus"}
  \/ missed

\* A status about to be reported, and the last one reported, is the ports'
\* state unless a change is pending.
ReportInv ==
  /\ ~mCallback => reported = {}
  /\ \A t \in Threads : pc[t] = "notify" => snapshot[t] = partner \/ ChangePending
  /\ \/ reported \subseteq {partner}
     \/ ChangePending
     \/ \E t \in Threads : pc[t] = "notify"

\* The poll thread is to look at every port after the uevents that are left, or
\* it is known that it may not have when it should.
ScanComing ==
  \/ \E i \in 1..Len(uevents) : uevents[i] # "other"
  \/ pc["poll"] \in {"partnerAdded", "queryPortStatus", "notify", "trylock"}
  \/ skipped

\* It is looking at the ports and has yet to come to p, or to write it.
ScanMeets(p) ==
  \/ pc["poll"] \in {"ports", "drp"} /\ p \in todo
  \/ pc["poll"] = "drp" /\ current = p

\* switchMode has written p, and may yet have to write it back.
SwitchHas(p) == pc["binder"] \in {"wait", "waiting", "drp"} /\ call.port = p

\* A port without a partner that is not "dual" is still somebody's to restore.
\* The partner that ends switchMode's wait may be another port's, or be gone
\* again; then the scan that follows its uevent is still to come, as the lock
\* that the switch holds makes the poll thread give it up.
RestoreInv ==
  /\ pc["binder"] = "waiting" /\ mPartnerUp =>
       skipped \/ pc["poll"] \in {"queryPortStatus", "notify", "trylock"}
  /\ \A p \in Ports \ refused :
       partner[p] \/ portType[p] = "dual" \/ ScanComing \/ ScanMeets(p) \/ SwitchHas(p)

\* While switchMode waits, a flag that is set, or is about to be, has an arrival
\* behind it; and it has not yet said that it is done.
ArrivalInv ==
  /\ pc["binder"] \in AwaitingPcs => (mPartnerUp \/ ArrivalWaits => arrived)
  /\ roleSwitch => pc["binder"] \in {"notifyRole", "unlockRole"}
  /\ DoneMeansArrival

Inv == /\ TypeOK /\ LockInv /\ PartnerInv /\ JoinInv
       /\ NoLostPartnerSignal /\ PollFollowsCallback /\ FailedSwitchIsDual
       /\ ArrivalInv
       /\ ReportInv /\ RestoreInv

-----------------------------------------------------------------------------
(* Type correctness *)

\* There is a port, so CHOOSE names one.
LEMMA SomePortInPorts == SomePort \in Ports
BY PortsAssumption DEF SomePort

\* NoCall and every call the framework makes are records of Calls.
LEMMA NoCallInCalls == NoCall \in Calls
BY DEF Calls

\* A call names a port, and its op is where the binder thread goes.
LEMMA CallsHavePorts ==
  ASSUME NEW c \in Calls
  PROVE  /\ c.port \in Ports
         /\ c.op \in {"setCallback", "switchRole", "queryPortStatus"}
         /\ c.role \in ModeNames \cup {"other"}
BY SomePortInPorts DEF Calls, Call, NoCall, ModeNames

\* The initial state has the types.
LEMMA TypeInit == Init => TypeOK
<1> SUFFICES ASSUME Init PROVE TypeOK
  OBVIOUS
<1> USE DEF Init
<1>1. /\ pc \in [Threads -> BinderPcs \cup PollPcs \cup MonitorPcs]
      /\ pc["binder"] \in BinderPcs /\ pc["poll"] \in PollPcs /\ pc["monitor"] \in MonitorPcs
      /\ owner \in [Locks -> Threads \cup {Free}]
  BY DEF Threads, Locks, BinderPcs, PollPcs, MonitorPcs
<1>2. snapshot \in [Threads -> Connectedness] /\ portType \in [Ports -> PortTypes]
  BY DEF Connectedness, NoSnapshot, PortTypes
<1>3. uevents \in Seq(Uevents) /\ Len(uevents) <= MaxUevents /\ requests \in 0..MaxRequests
  BY BoundsAssumption
<1> QED
  BY <1>1, <1>2, <1>3, SomePortInPorts, NoCallInCalls DEF TypeOK

\* The socket keeps a sequence of uevents within its bound.
LEMMA EnqueueType ==
  ASSUME NEW e \in Uevents, Enqueue(e), uevents \in Seq(Uevents), Len(uevents) <= MaxUevents
  PROVE  uevents' \in Seq(Uevents) /\ Len(uevents') <= MaxUevents
BY BoundsAssumption DEF Enqueue, Kept

\* queryVersionHelper up to its callback keeps the types, in any thread.
LEMMA TypeQueryRead ==
  ASSUME TypeOK, NEW t \in Threads, QueryRead(t)
  PROVE  TypeOK'
<1> USE DEF TypeOK, Threads, Locks, Goto, IsFree, Acquire, Release, BinderPcs, PollPcs,
            MonitorPcs, Connectedness, PortTypes, partnerVars, signalVars, scanVars,
            socketVars, nodeVars, reportVars, lossVars
<1>1. pc' \in [Threads -> BinderPcs \cup PollPcs \cup MonitorPcs]
  BY DEF QueryRead, AfterQuery
<1>2. pc'["binder"] \in BinderPcs /\ pc'["poll"] \in PollPcs /\ pc'["monitor"] \in MonitorPcs
  BY DEF QueryRead, AfterQuery
<1>3. owner' \in [Locks -> Threads \cup {Free}]
  BY DEF QueryRead, LockForQuery
<1>4. snapshot' \in [Threads -> Connectedness] /\ reported' \in SUBSET Connectedness
  BY DEF QueryRead
<1>5. call' = call /\ missed' \in BOOLEAN /\ QueryUnchanged
  BY DEF QueryRead
<1> QED
  BY <1>1, <1>2, <1>3, <1>4, <1>5 DEF QueryUnchanged

\* The rest of queryVersionHelper keeps the types, in any thread.
LEMMA TypeQueryNotify ==
  ASSUME TypeOK, NEW t \in Threads, QueryNotify(t)
  PROVE  TypeOK'
<1> USE DEF TypeOK, Threads, Locks, Goto, IsFree, Acquire, Release, BinderPcs, PollPcs,
            MonitorPcs, Connectedness, PortTypes, partnerVars, signalVars, scanVars,
            socketVars, nodeVars, reportVars, lossVars
<1>1. pc' \in [Threads -> BinderPcs \cup PollPcs \cup MonitorPcs]
  BY DEF QueryNotify, AfterQuery
<1>2. pc'["binder"] \in BinderPcs /\ pc'["poll"] \in PollPcs /\ pc'["monitor"] \in MonitorPcs
  BY DEF QueryNotify, AfterQuery
<1>3. owner' \in [Locks -> Threads \cup {Free}]
  BY DEF QueryNotify
<1>4. NoSnapshot \in Connectedness
  BY DEF NoSnapshot
<1>5. snapshot' \in [Threads -> Connectedness] /\ reported' \in SUBSET Connectedness
  BY <1>4 DEF QueryNotify
<1> QED
  BY <1>1, <1>2, <1>3, <1>5 DEF QueryNotify, QueryUnchanged

\* What the binder thread may do to its place and to the mutexes.
LEMMA TypeGoto ==
  ASSUME TypeOK, NEW from, NEW to \in BinderPcs, Goto("binder", from, to)
  PROVE  /\ pc' \in [Threads -> BinderPcs \cup PollPcs \cup MonitorPcs]
         /\ pc'["binder"] \in BinderPcs
         /\ pc'["poll"] \in PollPcs /\ pc'["monitor"] \in MonitorPcs
BY DEF TypeOK, Goto, Threads

LEMMA TypeOwner ==
  ASSUME TypeOK, NEW l \in Locks,
         Acquire(l, "binder") \/ Release(l) \/ UNCHANGED owner
  PROVE  owner' \in [Locks -> Threads \cup {Free}]
BY DEF TypeOK, Acquire, Release, Threads

\* A step of a role switch keeps the types if what it changes has them.
LEMMA TypeSwitch ==
  ASSUME TypeOK, NEW from, NEW to \in BinderPcs, SwitchStep(from, to),
         NEW l \in Locks, Acquire(l, "binder") \/ Release(l) \/ UNCHANGED owner,
         mPartnerUp' \in BOOLEAN, partnerCV' \in {"none", "waiting", "woken", "timedout"},
         call' \in Calls, roleSwitch' \in BOOLEAN, arrived' \in BOOLEAN,
         portType' \in [Ports -> PortTypes], refused' \in SUBSET Ports
  PROVE  TypeOK'
<1>1. Goto("binder", from, to)
  BY DEF SwitchStep
<1>2. UNCHANGED <<mCallback, destroyThread, sigusr1, todo, current, requests, partner,
                  socket, uevents, snapshot, reported, missed, skipped>>
  BY DEF SwitchStep, signalVars, scanVars, socketVars, reportVars, lossVars
<1>3. owner' \in [Locks -> Threads \cup {Free}]
  BY TypeOwner
<1> QED BY <1>1, <1>2, <1>3, TypeGoto DEF TypeOK

\* Every step of a role switch keeps the types.
LEMMA TypeSwitchSteps ==
  ASSUME TypeOK,
         SwitchRole \/ SwitchMode \/ LockPartner \/ WriteMode \/ WaitPartner
           \/ WaitTimedOut \/ WaitAgain \/ WaitSucceeded \/ SwitchBack \/ NotifyRole
           \/ UnlockRole
  PROVE  TypeOK'
<1>t. /\ mPartnerUp \in BOOLEAN /\ partnerCV \in {"none", "waiting", "woken", "timedout"}
      /\ call \in Calls /\ roleSwitch \in BOOLEAN /\ arrived \in BOOLEAN
      /\ portType \in [Ports -> PortTypes] /\ refused \in SUBSET Ports
  BY DEF TypeOK
<1>l. /\ {"mRoleSwitchLock", "mPartnerLock"} \subseteq Locks
      /\ {"partnerLock", "drp", "write", "wait", "waiting", "notifyRole", "unlockRole",
           "idle"} \subseteq BinderPcs
  BY DEF Locks, BinderPcs
<1>1. CASE SwitchRole
  <2>1. SwitchStep("switchRole", "notifyRole") /\ Acquire("mRoleSwitchLock", "binder")
    BY <1>1 DEF SwitchRole
  <2> QED BY <1>t, <1>l, <1>1, <2>1, TypeSwitch DEF SwitchRole, partnerVars, nodeVars
<1>2. CASE SwitchMode
  <2>1. PICK opened \in {"partnerLock", "drp"} : SwitchStep("switchRole", opened)
    BY <1>2 DEF SwitchMode
  <2>2. Acquire("mRoleSwitchLock", "binder")
    BY <1>2 DEF SwitchMode
  <2> QED BY <1>t, <1>l, <1>2, <2>1, <2>2, TypeSwitch DEF SwitchMode, partnerVars, nodeVars
<1>3. CASE LockPartner
  <2>1. SwitchStep("partnerLock", "write") /\ Acquire("mPartnerLock", "binder")
    BY <1>3 DEF LockPartner, NotUp, LockForPartner
  <2>2. arrived' \in BOOLEAN
    BY <1>3 DEF LockPartner, ArrivalWaits
  <2> QED BY <1>t, <1>l, <1>3, <2>1, <2>2, TypeSwitch DEF LockPartner, NotUp, partnerVars, nodeVars
<1>4. CASE WriteMode
  <2>1. PICK to \in {"wait", "drp"} : SwitchStep("write", to)
    BY <1>4 DEF WriteMode
  <2>2. Release("mPartnerLock") \/ UNCHANGED owner
    BY ONLY <1>4 DEF WriteMode
  <2>3. portType' \in [Ports -> PortTypes] /\ refused' \in SUBSET Ports
    BY <1>4, <1>t, CallsHavePorts DEF WriteMode, WritePortType, PortTypes, ModeNames, nodeVars
  <2>4. UNCHANGED <<partnerVars, call, roleSwitch, arrived>>
    BY ONLY <1>4 DEF WriteMode
  <2> QED BY <1>t, <1>l, <2>1, <2>2, <2>3, <2>4, TypeSwitch DEF partnerVars
<1>5. CASE WaitPartner
  <2>1. SwitchStep("wait", "waiting") /\ Release("mPartnerLock")
    BY <1>5 DEF WaitPartner
  <2> QED BY <1>t, <1>l, <1>5, <2>1, TypeSwitch DEF WaitPartner, partnerVars, nodeVars
<1>6. CASE WaitTimedOut
  <2>1. SwitchStep("waiting", "drp") /\ UNCHANGED owner
    BY <1>6 DEF WaitTimedOut, Awake, AfterTimeout
  <2> QED BY <1>t, <1>l, <1>6, <2>1, TypeSwitch DEF WaitTimedOut, Awake, partnerVars, nodeVars
<1>7. CASE WaitAgain
  <2>1. SwitchStep("waiting", "wait") /\ Acquire("mPartnerLock", "binder")
    BY <1>7 DEF WaitAgain, Awake
  <2> QED BY <1>t, <1>l, <1>7, <2>1, TypeSwitch DEF WaitAgain, Awake, partnerVars, nodeVars
<1>8. CASE WaitSucceeded
  <2>1. SwitchStep("waiting", "notifyRole") /\ UNCHANGED owner
    BY <1>8 DEF WaitSucceeded, Awake
  <2> QED BY <1>t, <1>l, <1>8, <2>1, TypeSwitch DEF WaitSucceeded, Awake, partnerVars, nodeVars
<1>9. CASE SwitchBack
  <2>1. SwitchStep("drp", "notifyRole") /\ UNCHANGED owner
    BY <1>9 DEF SwitchBack
  <2>2. portType' \in [Ports -> PortTypes] /\ refused' \in SUBSET Ports
    BY <1>9, <1>t, CallsHavePorts DEF SwitchBack, switchToDrp, WritePortType, PortTypes, nodeVars
  <2> QED BY <1>t, <1>l, <1>9, <2>1, <2>2, TypeSwitch DEF SwitchBack, partnerVars, nodeVars
<1>10. CASE NotifyRole
  <2>1. SwitchStep("notifyRole", "unlockRole") /\ UNCHANGED owner
    BY <1>10 DEF NotifyRole
  <2> QED BY <1>t, <1>l, <1>10, <2>1, TypeSwitch DEF NotifyRole, partnerVars, nodeVars
<1>11. CASE UnlockRole
  <2>1. SwitchStep("unlockRole", "idle") /\ Release("mRoleSwitchLock")
    BY <1>11 DEF UnlockRole
  <2> QED BY <1>t, <1>l, <1>11, <2>1, NoCallInCalls, TypeSwitch
      DEF UnlockRole, partnerVars, nodeVars
<1> QED
  BY <1>1, <1>2, <1>3, <1>4, <1>5, <1>6, <1>7, <1>8, <1>9, <1>10, <1>11

\* The binder thread keeps the types.
LEMMA TypeBinder == TypeOK /\ Binder => TypeOK'
<1> SUFFICES ASSUME TypeOK, Binder PROVE TypeOK'
  OBVIOUS
<1> USE DEF TypeOK, Threads, Locks, Goto, IsFree, Acquire, Release, BinderPcs, PollPcs,
            MonitorPcs, Connectedness, PortTypes, partnerVars, signalVars, scanVars,
            socketVars, nodeVars, reportVars, lossVars
<1>1. CASE SetCallbackSame
  BY <1>1, NoCallInCalls, CallsHavePorts DEF SetCallbackSame, SetCallbackUnchanged
<1>2. CASE SetCallbackRegister
  <2>1. pc' \in [Threads -> BinderPcs \cup PollPcs \cup MonitorPcs]
    BY <1>2 DEF SetCallbackRegister
  <2>2. pc'["binder"] = "idle" /\ pc'["poll"] \in PollPcs /\ pc'["monitor"] = pc["monitor"]
    BY <1>2 DEF SetCallbackRegister
  <2>3. mCallback' \in BOOLEAN
    BY <1>2 DEF SetCallbackRegister, CreationFails
  <2>4. destroyThread' \in BOOLEAN /\ call' \in Calls /\ reported' \in SUBSET Connectedness
    BY <1>2, NoCallInCalls DEF SetCallbackRegister
  <2>5. UNCHANGED <<owner, sigusr1, partnerVars, roleSwitch, arrived, scanVars,
                    snapshot, requests, partner, socketVars, nodeVars, lossVars>>
    BY ONLY <1>2 DEF SetCallbackRegister, SetCallbackUnchanged
  <2> QED BY <2>1, <2>2, <2>3, <2>4, <2>5
<1>3. CASE SetCallbackUnregister
  <2>1. Goto("binder", "setCallback", "join") /\ Acquire("mLock", "binder")
    BY ONLY <1>3 DEF SetCallbackUnregister
  <2>2. owner' \in [Locks -> Threads \cup {Free}]
    BY <2>1, TypeOwner
  <2>3. /\ pc' \in [Threads -> BinderPcs \cup PollPcs \cup MonitorPcs]
        /\ pc'["binder"] \in BinderPcs
        /\ pc'["poll"] \in PollPcs /\ pc'["monitor"] \in MonitorPcs
    BY <2>1, TypeGoto
  <2>4. sigusr1' \in BOOLEAN /\ mCallback' \in BOOLEAN /\ reported' \in SUBSET Connectedness
    BY <1>3 DEF SetCallbackUnregister
  <2>5. UNCHANGED <<destroyThread, call, partnerVars, roleSwitch, arrived, scanVars,
                    snapshot, requests, partner, socketVars, nodeVars, lossVars>>
    BY ONLY <1>3 DEF SetCallbackUnregister, SetCallbackUnchanged
  <2> QED BY <2>2, <2>3, <2>4, <2>5
<1>4. CASE Joined
  <2>1. pc' = [pc EXCEPT !["binder"] = "idle", !["poll"] = "none"]
    BY ONLY <1>4 DEF Joined
  <2>2. /\ pc' \in [Threads -> BinderPcs \cup PollPcs \cup MonitorPcs]
        /\ pc'["binder"] \in BinderPcs
        /\ pc'["poll"] \in PollPcs /\ pc'["monitor"] \in MonitorPcs
    BY <2>1
  <2>3. owner' \in [Locks -> Threads \cup {Free}]
    BY <1>4, TypeOwner DEF Joined
  <2>4. sigusr1' \in BOOLEAN /\ call' \in Calls
    BY <1>4, NoCallInCalls DEF Joined
  <2>5. UNCHANGED <<mCallback, destroyThread, reported, partnerVars, roleSwitch, arrived,
                    scanVars, snapshot, requests, partner, socketVars, nodeVars, lossVars>>
    BY ONLY <1>4 DEF Joined, SetCallbackUnchanged
  <2> QED BY <2>2, <2>3, <2>4, <2>5
<1>5. CASE SwitchRole \/ SwitchMode \/ LockPartner \/ WriteMode \/ WaitPartner
             \/ WaitTimedOut \/ WaitAgain \/ WaitSucceeded \/ SwitchBack \/ NotifyRole
             \/ UnlockRole
  BY <1>5, TypeSwitchSteps
<1>6. CASE QueryRead("binder")
  BY <1>6, TypeQueryRead DEF Threads
<1>7. CASE QueryNotify("binder")
  BY <1>7, TypeQueryNotify DEF Threads
<1>8. CASE NotifyQuery
  BY <1>8, NoCallInCalls, CallsHavePorts DEF NotifyQuery, QueryUnchanged
<1> QED
  BY <1>1, <1>2, <1>3, <1>4, <1>5, <1>6, <1>7, <1>8 DEF Binder

\* The poll thread keeps the types.
LEMMA TypePoll == TypeOK /\ (Poll \/ PollFails) => TypeOK'
<1> SUFFICES ASSUME TypeOK, Poll \/ PollFails PROVE TypeOK'
  OBVIOUS
<1> USE DEF TypeOK, Threads, Locks, Goto, IsFree, Acquire, Release, BinderPcs, PollPcs,
            MonitorPcs, Connectedness, PortTypes, partnerVars, signalVars, scanVars,
            socketVars, nodeVars, reportVars, lossVars
<1>1. CASE Start
  BY <1>1, NoCallInCalls, CallsHavePorts DEF Start, PollStep
<1>2. CASE LoopOn
  BY <1>2, NoCallInCalls, CallsHavePorts DEF LoopOn, PollStep
<1>3. CASE DestroySeen \/ PollFails
  <2>1. PICK from \in {"start", "loop", "epoll"} : Exit(from)
    BY <1>3 DEF DestroySeen, PollFails
  <2>2. uevents' \in Seq(Uevents) /\ Len(uevents') <= MaxUevents
    BY <2>1, BoundsAssumption DEF Exit
  <2>3. missed' \in BOOLEAN /\ skipped' \in BOOLEAN
    BY <2>1 DEF Exit
  <2> QED
    BY <2>1, <2>2, <2>3 DEF Exit, PollStep
<1>4. CASE ReceiveUevent
  <2>1. Head(uevents) \in Uevents /\ uevents' \in Seq(Uevents) /\ Len(uevents') <= MaxUevents
    BY <1>4, BoundsAssumption DEF ReceiveUevent
  <2>2. UeventAction[Head(uevents)] \in PollPcs
    BY <2>1 DEF UeventAction, Uevents
  <2>3. pc' = [pc EXCEPT !["poll"] = UeventAction[Head(uevents)]]
    BY <1>4 DEF ReceiveUevent, PollStep
  <2> QED
    BY <1>4, <2>1, <2>2, <2>3 DEF ReceiveUevent, PollStep
<1>5. CASE PartnerAdded
  BY <1>5, NoCallInCalls, CallsHavePorts DEF PartnerAdded, PollStep
<1>6. CASE QueryRead("poll")
  BY <1>6, TypeQueryRead DEF Threads
<1>7. CASE QueryNotify("poll")
  BY <1>7, TypeQueryNotify DEF Threads
<1>8. CASE TrylockRole
  <2>1. pc' \in [Threads -> BinderPcs \cup PollPcs \cup MonitorPcs]
    BY <1>8 DEF TrylockRole, PollStep
  <2>2. pc'["poll"] \in PollPcs /\ pc'["binder"] = pc["binder"] /\ pc'["monitor"] = pc["monitor"]
    BY <1>8 DEF TrylockRole, PollStep
  <2>3. owner' \in [Locks -> Threads \cup {Free}]
    BY <1>8 DEF TrylockRole
  <2>4. todo' \in SUBSET Ports /\ skipped' \in BOOLEAN
    BY <1>8 DEF TrylockRole
  <2>5. /\ UNCHANGED <<mCallback, call, roleSwitch, arrived, requests, partner, reportVars>>
        /\ UNCHANGED <<partnerVars, signalVars, current, socketVars, nodeVars, missed>>
    BY <1>8 DEF TrylockRole, PollStep
  <2> QED
    BY <2>1, <2>2, <2>3, <2>4, <2>5
<1>9. CASE \E p \in Ports : LookAt(p)
  BY <1>9, NoCallInCalls, CallsHavePorts DEF LookAt, PollStep
<1>10. CASE PortBackToDrp
  BY <1>10, NoCallInCalls, CallsHavePorts DEF PortBackToDrp, switchToDrp, WritePortType, PollStep
<1>11. CASE PollUnlockRole
  BY <1>11, NoCallInCalls, CallsHavePorts DEF PollUnlockRole, PollStep
<1> QED
  BY <1>1, <1>2, <1>3, <1>4, <1>5, <1>6, <1>7, <1>8, <1>9, <1>10, <1>11 DEF Poll

\* The framework, the monitor thread, the kernel and the signal keep the types.
LEMMA TypeOthers ==
  TypeOK /\ (Receive \/ UpdatePortStatus \/ Kernel \/ CvTimeout \/ sighandler \/ Monitor
             \/ UNCHANGED vars) => TypeOK'
<1> SUFFICES ASSUME TypeOK, Receive \/ UpdatePortStatus \/ Kernel \/ CvTimeout \/ sighandler
                            \/ Monitor \/ UNCHANGED vars
             PROVE  TypeOK'
  OBVIOUS
<1> USE DEF TypeOK, Threads, Locks, Goto, IsFree, Acquire, Release, BinderPcs, PollPcs,
            MonitorPcs, Connectedness, PortTypes, partnerVars, signalVars, scanVars,
            socketVars, nodeVars, reportVars, lossVars
<1>1. CASE Receive
  <2>1. /\ pc' \in [Threads -> BinderPcs \cup PollPcs \cup MonitorPcs]
        /\ pc'["binder"] \in BinderPcs /\ pc'["poll"] = pc["poll"] /\ pc'["monitor"] = pc["monitor"]
    BY <1>1, CallsHavePorts DEF Receive
  <2>2. requests' \in 0..MaxRequests
    BY <1>1, BoundsAssumption DEF Receive
  <2> QED
    BY <1>1, <2>1, <2>2 DEF Receive
<1>2. CASE UpdatePortStatus
  BY <1>2, NoCallInCalls, CallsHavePorts DEF UpdatePortStatus, QueryUnchanged
<1>3. CASE \E p \in Ports : PartnerChanges(p)
  <2>1. PICK p \in Ports : PartnerChanges(p)
    BY <1>3
  <2>2. uevents' \in Seq(Uevents) /\ Len(uevents') <= MaxUevents
    <3>1. (IF partner[p] THEN "remove" ELSE "add") \in Uevents
      BY DEF Uevents
    <3> QED
      BY <2>1, <3>1, EnqueueType DEF PartnerChanges
  <2>3. partner' \in Connectedness
    BY <2>1 DEF PartnerChanges
  <2>4. missed' \in BOOLEAN /\ skipped' \in BOOLEAN /\ arrived' \in BOOLEAN
    BY <2>1 DEF PartnerChanges
  <2> QED
    BY <2>1, <2>2, <2>3, <2>4 DEF PartnerChanges, KernelUnchanged
<1>4. CASE OtherUevent
  <2>1. uevents' \in Seq(Uevents) /\ Len(uevents') <= MaxUevents
    BY <1>4, EnqueueType DEF OtherUevent, Uevents
  <2> QED
    BY <1>4, <2>1 DEF OtherUevent, KernelUnchanged
<1>5. CASE CvSpurious
  BY <1>5, NoCallInCalls, CallsHavePorts DEF CvSpurious, SleepEnds
<1>6. CASE CvTimeout
  BY <1>6, NoCallInCalls, CallsHavePorts DEF CvTimeout, SleepEnds
<1>7. CASE sighandler
  <2>1. pc' = pc \/ pc' = [pc EXCEPT !["poll"] = "loop"]
    BY <1>7 DEF sighandler, PollStep
  <2>2. UNCHANGED <<mCallback, call, roleSwitch, arrived, requests, partner, reportVars>>
    BY <1>7 DEF sighandler, PollStep
  <2>3. /\ pc' \in [Threads -> BinderPcs \cup PollPcs \cup MonitorPcs]
        /\ pc'["binder"] \in BinderPcs /\ pc'["poll"] \in PollPcs
        /\ pc'["monitor"] \in MonitorPcs
    BY <2>1
  <2> QED
    BY <1>7, <2>2, <2>3 DEF sighandler
<1>8. CASE QueryRead("monitor")
  BY <1>8, TypeQueryRead DEF Threads
<1>9. CASE QueryNotify("monitor")
  BY <1>9, TypeQueryNotify DEF Threads
<1>10. CASE UNCHANGED vars
  BY <1>10, NoCallInCalls, CallsHavePorts DEF vars
<1> QED
  BY <1>1, <1>2, <1>3, <1>4, <1>5, <1>6, <1>7, <1>8, <1>9, <1>10 DEF Kernel, Monitor

\* Every step keeps the types.
LEMMA TypeStep == TypeOK /\ [Next]_vars => TypeOK'
BY TypeBinder, TypePoll, TypeOthers DEF Next

\* Type correctness of the threads, the mutexes and the kernel's side.
THEOREM TypeCorrect == Spec => []TypeOK
BY TypeInit, TypeStep, PTL DEF Spec

-----------------------------------------------------------------------------
(* Mutexes, the partner's signal and the life of the poll thread *)

Control == LockInv /\ PartnerInv /\ NoLostPartnerSignal /\ JoinInv /\ PollFollowsCallback

\* The initial state satisfies the control invariant.
LEMMA ControlInit == Init => Control
BY DEF Init, Control, LockInv, PartnerInv, NoLostPartnerSignal, JoinInv, PollFollowsCallback,
       Threads, Locks, Free, SwitchingPcs

\* The binder thread keeps the control invariant.
LEMMA ControlBinder == TypeOK /\ Control /\ Binder => Control'
<1> SUFFICES ASSUME TypeOK, Control, Binder PROVE Control'
  OBVIOUS
<1> USE DEF Control, LockInv, PartnerInv, NoLostPartnerSignal, JoinInv, PollFollowsCallback,
            SwitchingPcs, Threads, Locks, Free, Goto, IsFree, Acquire, Release, BinderPcs,
            PollPcs, MonitorPcs, partnerVars, signalVars, reportVars
<1>t. /\ pc \in [Threads -> BinderPcs \cup PollPcs \cup MonitorPcs]
      /\ pc["binder"] \in BinderPcs /\ pc["poll"] \in PollPcs /\ pc["monitor"] \in MonitorPcs
      /\ owner \in [Locks -> Threads \cup {Free}]
      /\ partnerCV \in {"none", "waiting", "woken", "timedout"}
      /\ mCallback \in BOOLEAN /\ mPartnerUp \in BOOLEAN
  BY DEF TypeOK
<1>1. CASE SetCallbackSame
  BY <1>1, <1>t DEF SetCallbackSame, SetCallbackUnchanged
<1>2. CASE SetCallbackRegister
  BY <1>2, <1>t DEF SetCallbackRegister, CreationFails, SetCallbackUnchanged
<1>3. CASE SetCallbackUnregister
  BY <1>3, <1>t DEF SetCallbackUnregister, SetCallbackUnchanged
<1>4. CASE Joined
  BY <1>4, <1>t DEF Joined, SetCallbackUnchanged
<1>5. CASE SwitchRole
  BY <1>5, <1>t DEF SwitchRole, SwitchStep
<1>6. CASE SwitchMode
  BY <1>6, <1>t DEF SwitchMode, SwitchStep
<1>7. CASE LockPartner
  BY <1>7, <1>t DEF LockPartner, NotUp, LockForPartner, SwitchStep
<1>8. CASE WriteMode
  BY <1>8, <1>t DEF WriteMode, WritePortType, SwitchStep
<1>9. CASE WaitPartner
  BY <1>9, <1>t DEF WaitPartner, SwitchStep
<1>10. CASE WaitTimedOut
  BY <1>10, <1>t DEF WaitTimedOut, Awake, AfterTimeout, SwitchStep
<1>11. CASE WaitAgain
  BY <1>11, <1>t DEF WaitAgain, Awake, SwitchStep
<1>12. CASE WaitSucceeded
  BY <1>12, <1>t DEF WaitSucceeded, Awake, SwitchStep
<1>13. CASE SwitchBack
  BY <1>13, <1>t DEF SwitchBack, switchToDrp, WritePortType, SwitchStep
<1>14. CASE NotifyRole
  BY <1>14, <1>t DEF NotifyRole, SwitchStep
<1>15. CASE UnlockRole
  BY <1>15, <1>t DEF UnlockRole, SwitchStep
<1>16. CASE QueryRead("binder")
  BY <1>16, <1>t DEF QueryRead, LockForQuery, QueryUnchanged
<1>17. CASE QueryNotify("binder")
  BY <1>17, <1>t DEF QueryNotify, AfterQuery, QueryUnchanged
<1>18. CASE NotifyQuery
  BY <1>18, <1>t DEF NotifyQuery, QueryUnchanged
<1> QED
  BY <1>1, <1>2, <1>3, <1>4, <1>5, <1>6, <1>7, <1>8, <1>9, <1>10, <1>11, <1>12, <1>13, <1>14,
     <1>15, <1>16, <1>17, <1>18 DEF Binder

\* The poll thread keeps the control invariant.
LEMMA ControlPoll == TypeOK /\ Control /\ (Poll \/ PollFails) => Control'
<1> SUFFICES ASSUME TypeOK, Control, Poll \/ PollFails PROVE Control'
  OBVIOUS
<1> USE DEF Control, LockInv, PartnerInv, NoLostPartnerSignal, JoinInv, PollFollowsCallback,
            SwitchingPcs, Threads, Locks, Free, Goto, IsFree, Acquire, Release, BinderPcs,
            PollPcs, MonitorPcs, partnerVars, signalVars, reportVars
<1>t. /\ pc \in [Threads -> BinderPcs \cup PollPcs \cup MonitorPcs]
      /\ pc["binder"] \in BinderPcs /\ pc["poll"] \in PollPcs /\ pc["monitor"] \in MonitorPcs
      /\ owner \in [Locks -> Threads \cup {Free}]
      /\ partnerCV \in {"none", "waiting", "woken", "timedout"}
      /\ mCallback \in BOOLEAN /\ mPartnerUp \in BOOLEAN
  BY DEF TypeOK
<1>1. CASE Start
  BY <1>1, <1>t DEF Start, PollStep
<1>2. CASE LoopOn
  BY <1>2, <1>t DEF LoopOn, PollStep
<1>3. CASE DestroySeen \/ PollFails
  BY <1>3, <1>t DEF DestroySeen, PollFails, Exit, PollStep
<1>4. CASE ReceiveUevent
  <2>1. Head(uevents) \in Uevents
    BY <1>4 DEF ReceiveUevent, TypeOK
  <2>2. UeventAction[Head(uevents)] \in {"partnerAdded", "queryPortStatus", "loop"}
    BY <2>1 DEF UeventAction, Uevents
  <2> QED
    BY <1>4, <1>t, <2>2 DEF ReceiveUevent, PollStep
<1>5. CASE PartnerAdded
  BY <1>5, <1>t DEF PartnerAdded, PollStep
<1>6. CASE QueryRead("poll")
  BY <1>6, <1>t DEF QueryRead, LockForQuery, QueryUnchanged
<1>7. CASE QueryNotify("poll")
  BY <1>7, <1>t DEF QueryNotify, AfterQuery, QueryUnchanged
<1>8. CASE TrylockRole
  BY <1>8, <1>t DEF TrylockRole, TrylockSucceeds, PollStep
<1>9. CASE \E p \in Ports : LookAt(p)
  BY <1>9, <1>t DEF LookAt, PollStep
<1>10. CASE PortBackToDrp
  BY <1>10, <1>t DEF PortBackToDrp, switchToDrp, WritePortType, PollStep
<1>11. CASE PollUnlockRole
  BY <1>11, <1>t DEF PollUnlockRole, PollStep
<1> QED
  BY <1>1, <1>2, <1>3, <1>4, <1>5, <1>6, <1>7, <1>8, <1>9, <1>10, <1>11 DEF Poll

\* So do the framework, the monitor thread, the kernel and the signal.
LEMMA ControlOthers ==
  TypeOK /\ Control
    /\ (Receive \/ UpdatePortStatus \/ Kernel \/ CvTimeout \/ sighandler \/ Monitor
        \/ UNCHANGED vars) => Control'
<1> SUFFICES ASSUME TypeOK, Control,
                    Receive \/ UpdatePortStatus \/ Kernel \/ CvTimeout \/ sighandler
                      \/ Monitor \/ UNCHANGED vars
             PROVE  Control'
  OBVIOUS
<1> USE DEF Control, LockInv, PartnerInv, NoLostPartnerSignal, JoinInv, PollFollowsCallback,
            SwitchingPcs, Threads, Locks, Free, Goto, IsFree, Acquire, Release, BinderPcs,
            PollPcs, MonitorPcs, partnerVars, signalVars, reportVars
<1>t. /\ pc \in [Threads -> BinderPcs \cup PollPcs \cup MonitorPcs]
      /\ pc["binder"] \in BinderPcs /\ pc["poll"] \in PollPcs /\ pc["monitor"] \in MonitorPcs
      /\ owner \in [Locks -> Threads \cup {Free}]
      /\ partnerCV \in {"none", "waiting", "woken", "timedout"}
      /\ mCallback \in BOOLEAN /\ mPartnerUp \in BOOLEAN
  BY DEF TypeOK
<1>1. CASE Receive
  BY <1>1, <1>t, CallsHavePorts DEF Receive
<1>2. CASE UpdatePortStatus
  BY <1>2, <1>t DEF UpdatePortStatus, QueryUnchanged
<1>3. CASE \E p \in Ports : PartnerChanges(p)
  BY <1>3, <1>t DEF PartnerChanges, Enqueue, Kept, KernelUnchanged, Uevents
<1>4. CASE OtherUevent
  BY <1>4, <1>t DEF OtherUevent, Enqueue, Kept, KernelUnchanged, Uevents
<1>5. CASE CvSpurious
  BY <1>5, <1>t DEF CvSpurious, SleepEnds
<1>6. CASE CvTimeout
  BY <1>6, <1>t DEF CvTimeout, SleepEnds
<1>7. CASE sighandler
  BY <1>7, <1>t DEF sighandler, Alive, PollStep
<1>8. CASE QueryRead("monitor")
  BY <1>8, <1>t DEF QueryRead, LockForQuery, QueryUnchanged
<1>9. CASE QueryNotify("monitor")
  BY <1>9, <1>t DEF QueryNotify, AfterQuery, QueryUnchanged
<1>10. CASE UNCHANGED vars
  BY <1>10, <1>t DEF vars
<1> QED
  BY <1>1, <1>2, <1>3, <1>4, <1>5, <1>6, <1>7, <1>8, <1>9, <1>10 DEF Kernel, Monitor

\* Every step keeps the control invariant.
LEMMA ControlStep == TypeOK /\ Control /\ [Next]_vars => Control'
BY ControlBinder, ControlPoll, ControlOthers DEF Next

\* The mutexes, the condition variable and the join are used as Control says.
LEMMA ControlCorrect == Spec => []Control
BY ControlInit, ControlStep, TypeCorrect, PTL DEF Spec

\* switchMode never sleeps through a partner's signal (Usb.cpp:448).
THEOREM NoSignalIsLost == Spec => []NoLostPartnerSignal
BY ControlCorrect, PTL DEF Control

\* A callback is registered exactly while there is a poll thread (Usb.cpp:1186).
THEOREM PollThreadFollowsCallback == Spec => []PollFollowsCallback
BY ControlCorrect, PTL DEF Control

\* No port is looked at while a role switch is under way (Usb.cpp:1080).
THEOREM ScanAndSwitchExclude == Spec => []ScanExcludesSwitch
<1>1. Control => ScanExcludesSwitch
  BY DEF Control, LockInv, ScanExcludesSwitch
<1> QED
  BY <1>1, ControlCorrect, PTL

-----------------------------------------------------------------------------
(* A failed mode switch leaves its port "dual" *)

\* A failed mode switch leaves "dual": the steps of the binder thread.
LEMMA DualBinder ==
  TypeOK /\ Control /\ FailedSwitchIsDual /\ Binder => FailedSwitchIsDual'
<1> SUFFICES ASSUME TypeOK, Control, FailedSwitchIsDual, Binder
             PROVE  FailedSwitchIsDual'
  OBVIOUS
<1> USE DEF FailedSwitchIsDual, ModeNames, Threads, Goto, nodeVars
<1>t. /\ pc \in [Threads -> BinderPcs \cup PollPcs \cup MonitorPcs]
      /\ call.port \in Ports /\ portType \in [Ports -> PortTypes]
  BY CallsHavePorts DEF TypeOK
<1>1. CASE SetCallbackSame
  BY <1>1, <1>t DEF SetCallbackSame, SetCallbackUnchanged
<1>2. CASE SetCallbackRegister
  BY <1>2, <1>t DEF SetCallbackRegister, CreationFails, SetCallbackUnchanged
<1>3. CASE SetCallbackUnregister
  BY <1>3, <1>t DEF SetCallbackUnregister, SetCallbackUnchanged
<1>4. CASE Joined
  BY <1>4, <1>t DEF Joined, SetCallbackUnchanged
<1>5. CASE SwitchRole
  BY <1>5, <1>t DEF SwitchRole, SwitchStep
<1>6. CASE SwitchMode
  BY <1>6, <1>t DEF SwitchMode, SwitchStep
<1>7. CASE LockPartner
  BY <1>7, <1>t DEF LockPartner, NotUp, LockForPartner, SwitchStep
<1>8. CASE WriteMode
  BY <1>8, <1>t DEF WriteMode, WritePortType, SwitchStep
<1>9. CASE WaitPartner
  BY <1>9, <1>t DEF WaitPartner, SwitchStep
<1>10. CASE WaitTimedOut
  BY <1>10, <1>t DEF WaitTimedOut, Awake, AfterTimeout, SwitchStep
<1>11. CASE WaitAgain
  BY <1>11, <1>t DEF WaitAgain, Awake, SwitchStep
<1>12. CASE WaitSucceeded
  BY <1>12, <1>t DEF WaitSucceeded, Awake, SwitchStep
<1>13. CASE SwitchBack
  BY <1>13, <1>t DEF SwitchBack, switchToDrp, WritePortType, SwitchStep
<1>14. CASE NotifyRole
  BY <1>14, <1>t DEF NotifyRole, SwitchStep
<1>15. CASE UnlockRole
  BY <1>15, <1>t DEF UnlockRole, SwitchStep
<1>16. CASE QueryRead("binder")
  BY <1>16, <1>t DEF QueryRead, LockForQuery, QueryUnchanged
<1>17. CASE QueryNotify("binder")
  BY <1>17, <1>t DEF QueryNotify, AfterQuery, QueryUnchanged
<1>18. CASE NotifyQuery
  BY <1>18, <1>t DEF NotifyQuery, QueryUnchanged
<1> QED
  BY <1>1, <1>2, <1>3, <1>4, <1>5, <1>6, <1>7, <1>8, <1>9, <1>10, <1>11, <1>12, <1>13, <1>14,
     <1>15, <1>16, <1>17, <1>18 DEF Binder

\* The poll thread writes nothing but "dual".
LEMMA DualPoll ==
  TypeOK /\ Control /\ FailedSwitchIsDual /\ (Poll \/ PollFails) => FailedSwitchIsDual'
<1> SUFFICES ASSUME TypeOK, Control, FailedSwitchIsDual, Poll \/ PollFails
             PROVE  FailedSwitchIsDual'
  OBVIOUS
<1> USE DEF FailedSwitchIsDual, ModeNames, Threads, Goto, nodeVars
<1>t. /\ pc \in [Threads -> BinderPcs \cup PollPcs \cup MonitorPcs]
      /\ call.port \in Ports /\ portType \in [Ports -> PortTypes]
  BY CallsHavePorts DEF TypeOK
<1>1. CASE Start
  BY <1>1, <1>t DEF Start, PollStep
<1>2. CASE LoopOn
  BY <1>2, <1>t DEF LoopOn, PollStep
<1>3. CASE DestroySeen \/ PollFails
  BY <1>3, <1>t DEF DestroySeen, PollFails, Exit, PollStep
<1>4. CASE ReceiveUevent
  BY <1>4, <1>t DEF ReceiveUevent, UeventAction, Uevents, PollStep
<1>5. CASE PartnerAdded
  BY <1>5, <1>t DEF PartnerAdded, PollStep
<1>6. CASE QueryRead("poll")
  BY <1>6, <1>t DEF QueryRead, LockForQuery, QueryUnchanged
<1>7. CASE QueryNotify("poll")
  BY <1>7, <1>t DEF QueryNotify, AfterQuery, QueryUnchanged
<1>8. CASE TrylockRole
  BY <1>8, <1>t DEF TrylockRole, TrylockSucceeds, PollStep
<1>9. CASE \E p \in Ports : LookAt(p)
  BY <1>9, <1>t DEF LookAt, PollStep
<1>10. CASE PortBackToDrp
  BY <1>10, <1>t DEF PortBackToDrp, switchToDrp, WritePortType, PollStep, Control, LockInv,
     SwitchingPcs
<1>11. CASE PollUnlockRole
  BY <1>11, <1>t DEF PollUnlockRole, PollStep
<1> QED
  BY <1>1, <1>2, <1>3, <1>4, <1>5, <1>6, <1>7, <1>8, <1>9, <1>10, <1>11 DEF Poll

\* Nobody else writes port_type.
LEMMA DualOthers ==
  TypeOK /\ Control /\ FailedSwitchIsDual
    /\ (Receive \/ UpdatePortStatus \/ Kernel \/ CvTimeout \/ sighandler \/ Monitor
        \/ UNCHANGED vars) => FailedSwitchIsDual'
<1> SUFFICES ASSUME TypeOK, Control, FailedSwitchIsDual,
                    Receive \/ UpdatePortStatus \/ Kernel \/ CvTimeout \/ sighandler
                      \/ Monitor \/ UNCHANGED vars
             PROVE  FailedSwitchIsDual'
  OBVIOUS
<1> USE DEF FailedSwitchIsDual, ModeNames, Threads, Goto, nodeVars
<1>t. /\ pc \in [Threads -> BinderPcs \cup PollPcs \cup MonitorPcs]
      /\ call.port \in Ports /\ portType \in [Ports -> PortTypes]
  BY CallsHavePorts DEF TypeOK
<1>1. CASE Receive
  BY <1>1, <1>t, CallsHavePorts DEF Receive
<1>2. CASE UpdatePortStatus
  BY <1>2, <1>t DEF UpdatePortStatus, QueryUnchanged
<1>3. CASE \E p \in Ports : PartnerChanges(p)
  BY <1>3, <1>t DEF PartnerChanges, Enqueue, Kept, KernelUnchanged, Uevents
<1>4. CASE OtherUevent
  BY <1>4, <1>t DEF OtherUevent, Enqueue, Kept, KernelUnchanged, Uevents
<1>5. CASE CvSpurious
  BY <1>5, <1>t DEF CvSpurious, SleepEnds
<1>6. CASE CvTimeout
  BY <1>6, <1>t DEF CvTimeout, SleepEnds
<1>7. CASE sighandler
  BY <1>7, <1>t DEF sighandler, Alive, PollStep
<1>8. CASE QueryRead("monitor")
  BY <1>8, <1>t DEF QueryRead, LockForQuery, QueryUnchanged
<1>9. CASE QueryNotify("monitor")
  BY <1>9, <1>t DEF QueryNotify, AfterQuery, QueryUnchanged
<1>10. CASE UNCHANGED vars
  BY <1>10, <1>t DEF vars
<1> QED
  BY <1>1, <1>2, <1>3, <1>4, <1>5, <1>6, <1>7, <1>8, <1>9, <1>10 DEF Kernel, Monitor

\* A mode switch reported as failed has put its port back to "dual"
\* (Usb.cpp:482-483).
THEOREM FailedSwitchLeavesDual == Spec => []FailedSwitchIsDual
<1>1. Init => FailedSwitchIsDual
  BY DEF Init, FailedSwitchIsDual, Threads
<1>2. TypeOK /\ Control /\ FailedSwitchIsDual /\ [Next]_vars => FailedSwitchIsDual'
  BY DualBinder, DualPoll, DualOthers DEF Next
<1> QED
  BY <1>1, <1>2, TypeCorrect, ControlCorrect, PTL DEF Spec

-----------------------------------------------------------------------------
(* A mode switch that is done has an arrival to show *)

\* A step that sets no flag, queues no arrival and leaves the binder thread.
LEMMA ArrivalUntouched ==
  ASSUME ArrivalInv, pc'["binder"] = pc["binder"], UNCHANGED <<roleSwitch, arrived, call>>,
         mPartnerUp' \/ ArrivalWaits' => mPartnerUp \/ ArrivalWaits
  PROVE  ArrivalInv'
BY DEF ArrivalInv, DoneMeansArrival

\* A step that leaves the socket and the poll thread queues no arrival.
LEMMA ArrivalsStay ==
  ASSUME UNCHANGED uevents, pc'["poll"] = pc["poll"]
  PROVE  ArrivalWaits' = ArrivalWaits
BY DEF ArrivalWaits

\* The binder thread clears the flag before it waits for it.
LEMMA ArrivalBinder == TypeOK /\ ArrivalInv /\ Binder => ArrivalInv'
<1> SUFFICES ASSUME TypeOK, ArrivalInv, Binder PROVE ArrivalInv'
  OBVIOUS
<1> USE DEF ArrivalInv, DoneMeansArrival, AwaitingPcs, ModeNames, Threads, Goto, partnerVars,
            socketVars
<1>t. pc \in [Threads -> BinderPcs \cup PollPcs \cup MonitorPcs]
  BY DEF TypeOK
<1>1. CASE SetCallbackSame
  BY <1>1, <1>t DEF SetCallbackSame, SetCallbackUnchanged
<1>2. CASE SetCallbackRegister
  BY <1>2, <1>t DEF SetCallbackRegister, CreationFails, SetCallbackUnchanged
<1>3. CASE SetCallbackUnregister
  BY <1>3, <1>t DEF SetCallbackUnregister, SetCallbackUnchanged
<1>4. CASE Joined
  BY <1>4, <1>t DEF Joined, SetCallbackUnchanged
<1>5. CASE SwitchRole
  BY <1>5, <1>t DEF SwitchRole, SwitchStep
<1>6. CASE SwitchMode
  BY <1>6, <1>t DEF SwitchMode, SwitchStep
<1>7. CASE LockPartner
  <2>1. /\ ~mPartnerUp' /\ arrived' = ArrivalWaits /\ UNCHANGED <<uevents, roleSwitch>>
        /\ pc["binder"] = "partnerLock" /\ pc'["binder"] = "write" /\ pc'["poll"] = pc["poll"]
    BY <1>7, <1>t DEF LockPartner, NotUp, SwitchStep
  <2>2. ArrivalWaits' = ArrivalWaits
    BY <2>1, ArrivalsStay
  <2> QED
    BY <2>1, <2>2
<1>8. CASE WriteMode
  <2>1. /\ UNCHANGED <<uevents, mPartnerUp, roleSwitch, arrived>>
        /\ pc["binder"] = "write" /\ pc'["binder"] \in {"wait", "drp"} /\ pc'["poll"] = pc["poll"]
    BY <1>8, <1>t DEF WriteMode, SwitchStep
  <2> QED
    BY <2>1, ArrivalsStay
<1>9. CASE WaitPartner
  <2>1. /\ UNCHANGED <<uevents, mPartnerUp, roleSwitch, arrived>>
        /\ pc["binder"] = "wait" /\ pc'["binder"] = "waiting" /\ pc'["poll"] = pc["poll"]
    BY <1>9, <1>t DEF WaitPartner, SwitchStep
  <2> QED
    BY <2>1, ArrivalsStay
<1>10. CASE WaitTimedOut
  BY <1>10, <1>t DEF WaitTimedOut, Awake, AfterTimeout, SwitchStep
<1>11. CASE WaitAgain
  <2>1. /\ UNCHANGED <<uevents, mPartnerUp, roleSwitch, arrived>>
        /\ pc["binder"] = "waiting" /\ pc'["binder"] = "wait" /\ pc'["poll"] = pc["poll"]
    BY <1>11, <1>t DEF WaitAgain, Awake, SwitchStep
  <2> QED
    BY <2>1, ArrivalsStay
<1>12. CASE WaitSucceeded
  BY <1>12, <1>t DEF WaitSucceeded, Awake, SwitchStep
<1>13. CASE SwitchBack
  BY <1>13, <1>t DEF SwitchBack, SwitchStep
<1>14. CASE NotifyRole
  BY <1>14, <1>t DEF NotifyRole, SwitchStep
<1>15. CASE UnlockRole
  BY <1>15, <1>t DEF UnlockRole, SwitchStep
<1>16. CASE QueryRead("binder")
  BY <1>16, <1>t DEF QueryRead, QueryUnchanged
<1>17. CASE QueryNotify("binder")
  BY <1>17, <1>t DEF QueryNotify, AfterQuery, QueryUnchanged
<1>18. CASE NotifyQuery
  BY <1>18, <1>t DEF NotifyQuery, QueryUnchanged
<1> QED
  BY <1>1, <1>2, <1>3, <1>4, <1>5, <1>6, <1>7, <1>8, <1>9, <1>10, <1>11, <1>12, <1>13, <1>14,
     <1>15, <1>16, <1>17, <1>18 DEF Binder

\* The poll thread sets the flag for an arrival only.
LEMMA ArrivalPoll == TypeOK /\ ArrivalInv /\ (Poll \/ PollFails) => ArrivalInv'
<1> SUFFICES ASSUME TypeOK, ArrivalInv, Poll \/ PollFails PROVE ArrivalInv'
  OBVIOUS
<1> USE DEF Threads, Goto, partnerVars, socketVars
<1>t. /\ pc \in [Threads -> BinderPcs \cup PollPcs \cup MonitorPcs]
      /\ uevents \in Seq(Uevents)
  BY DEF TypeOK
<1>1. CASE \/ Start \/ LoopOn \/ DestroySeen \/ PollFails \/ QueryRead("poll")
           \/ QueryNotify("poll") \/ TrylockRole \/ (\E p \in Ports : LookAt(p))
           \/ PortBackToDrp \/ PollUnlockRole
  <2>1. /\ uevents' \in {uevents, <<>>} /\ pc'["poll"] # "partnerAdded"
        /\ pc'["binder"] = pc["binder"]
        /\ UNCHANGED <<mPartnerUp, roleSwitch, arrived, call>>
    BY <1>1, <1>t DEF Start, LoopOn, DestroySeen, PollFails, Exit, PollStep, QueryRead,
       QueryNotify, QueryUnchanged, AfterQuery, TrylockRole, LookAt, PortBackToDrp, PollUnlockRole
  <2>2. DOMAIN <<>> = {}
    OBVIOUS
  <2>3. ArrivalWaits' => ArrivalWaits
    BY <2>1, <2>2 DEF ArrivalWaits
  <2> QED
    BY <2>1, <2>3, ArrivalUntouched
<1>2. CASE ReceiveUevent
  <2>1. /\ uevents # <<>> /\ uevents' = Tail(uevents)
        /\ pc' = [pc EXCEPT !["poll"] = UeventAction[Head(uevents)]]
        /\ UNCHANGED <<mPartnerUp, roleSwitch, arrived, call>>
    BY <1>2 DEF ReceiveUevent, PollStep
  <2>2. /\ 1 \in DOMAIN uevents /\ Head(uevents) = uevents[1] /\ Head(uevents) \in Uevents
        /\ \A i \in DOMAIN uevents' : i + 1 \in DOMAIN uevents /\ uevents'[i] = uevents[i + 1]
    BY <2>1, <1>t
  <2>3. pc'["poll"] = "partnerAdded" => uevents[1] = "add"
    BY <2>1, <2>2, <1>t DEF UeventAction, Uevents
  <2>4. ArrivalWaits' => ArrivalWaits
    BY <2>2, <2>3 DEF ArrivalWaits
  <2>5. pc'["binder"] = pc["binder"]
    BY <2>1, <1>t
  <2> QED
    BY <2>1, <2>4, <2>5, ArrivalUntouched
<1>3. CASE PartnerAdded
  <2>1. pc["poll"] = "partnerAdded" /\ pc'["binder"] = pc["binder"]
        /\ UNCHANGED <<roleSwitch, arrived, call>>
    BY <1>3, <1>t DEF PartnerAdded, PollStep
  <2>2. ArrivalWaits
    BY <2>1 DEF ArrivalWaits
  <2> QED
    BY <2>1, <2>2, ArrivalUntouched
<1> QED
  BY <1>1, <1>2, <1>3 DEF Poll

\* The kernel's arrivals are the ones that are waited for.
LEMMA ArrivalOthers ==
  TypeOK /\ ArrivalInv
    /\ (Receive \/ UpdatePortStatus \/ Kernel \/ CvTimeout \/ sighandler \/ Monitor
        \/ UNCHANGED vars) => ArrivalInv'
<1> SUFFICES ASSUME TypeOK, ArrivalInv,
                    Receive \/ UpdatePortStatus \/ Kernel \/ CvTimeout \/ sighandler
                      \/ Monitor \/ UNCHANGED vars
             PROVE  ArrivalInv'
  OBVIOUS
<1> USE DEF Threads, Goto, partnerVars, socketVars
<1>t. /\ pc \in [Threads -> BinderPcs \cup PollPcs \cup MonitorPcs]
      /\ uevents \in Seq(Uevents) /\ arrived \in BOOLEAN
  BY DEF TypeOK
<1>1. CASE Receive
  BY <1>1, <1>t, CallsHavePorts DEF Receive, ArrivalInv, DoneMeansArrival, AwaitingPcs
<1>2. CASE UpdatePortStatus \/ CvSpurious \/ CvTimeout \/ sighandler \/ QueryRead("monitor")
             \/ QueryNotify("monitor") \/ UNCHANGED vars
  <2>1. /\ pc'["binder"] = pc["binder"]
        /\ (pc'["poll"] = "partnerAdded" => pc["poll"] = "partnerAdded")
        /\ UNCHANGED <<uevents, mPartnerUp, roleSwitch, arrived, call>>
    BY <1>2, <1>t DEF UpdatePortStatus, CvSpurious, CvTimeout, SleepEnds, sighandler, PollStep,
       QueryRead, QueryNotify, QueryUnchanged, vars
  <2>2. ArrivalWaits' => ArrivalWaits
    BY <2>1 DEF ArrivalWaits
  <2> QED
    BY <2>1, <2>2, ArrivalUntouched
<1>3. CASE \E p \in Ports : PartnerChanges(p)
  <2>1. PICK p \in Ports : PartnerChanges(p)
    BY <1>3
  <2>2. /\ uevents' = IF Kept THEN Append(uevents, IF partner[p] THEN "remove" ELSE "add")
                              ELSE uevents
        /\ arrived' = (arrived \/ (pc["binder"] \in AwaitingPcs /\ Kept /\ ~partner[p]))
        /\ UNCHANGED <<pc, mPartnerUp, roleSwitch, call>>
    BY <2>1 DEF PartnerChanges, Enqueue, KernelUnchanged
  <2>3. CASE Kept /\ ~partner[p]
    BY <2>2, <2>3 DEF ArrivalInv, DoneMeansArrival, AwaitingPcs
  <2>4. CASE ~Kept
    BY <2>2, <2>4, <1>t, ArrivalUntouched, ArrivalsStay
  <2>5. CASE Kept /\ partner[p]
    <3>1. uevents' = Append(uevents, "remove")
      BY <2>2, <2>5
    <3>2. \A i \in DOMAIN uevents' : uevents'[i] = "add"
            => i \in DOMAIN uevents /\ uevents[i] = "add"
      BY <3>1, <1>t
    <3>3. ArrivalWaits' => ArrivalWaits
      BY <2>2, <3>2 DEF ArrivalWaits
    <3>4. UNCHANGED <<pc, mPartnerUp, roleSwitch, arrived, call>>
      BY <2>2, <2>5, <1>t
    <3> QED
      BY <3>3, <3>4, ArrivalUntouched
  <2> QED
    BY <2>3, <2>4, <2>5
<1>4. CASE OtherUevent
  <2>1. PICK e \in {"change", "other"} : Enqueue(e)
    BY <1>4 DEF OtherUevent
  <2>2. UNCHANGED <<pc, mPartnerUp, roleSwitch, arrived, call>>
    BY <1>4 DEF OtherUevent, KernelUnchanged
  <2>3. uevents' = Append(uevents, e) \/ uevents' = uevents
    BY <2>1 DEF Enqueue
  <2>4. \A i \in DOMAIN uevents' : uevents'[i] = "add" => i \in DOMAIN uevents /\ uevents[i] = "add"
    BY <2>3, <1>t
  <2>5. ArrivalWaits' => ArrivalWaits
    BY <2>2, <2>4 DEF ArrivalWaits
  <2> QED
    BY <2>2, <2>5, ArrivalUntouched
<1> QED
  BY <1>1, <1>2, <1>3, <1>4 DEF Kernel, Monitor

\* Every flag that ends a wait has an arrival behind it.
LEMMA ArrivalCorrect == Spec => []ArrivalInv
<1>1. Init => ArrivalInv
  BY DEF Init, ArrivalInv, DoneMeansArrival, AwaitingPcs, Threads
<1>2. TypeOK /\ ArrivalInv /\ [Next]_vars => ArrivalInv'
  BY ArrivalBinder, ArrivalPoll, ArrivalOthers DEF Next
<1> QED
  BY <1>1, <1>2, TypeCorrect, PTL DEF Spec

\* A mode switch reported as done was ended by a partner's arrival, of the ones
\* it could meet, and not by the flag of another switch (Usb.cpp:448-469).
THEOREM DoneSwitchHadArrival == Spec => []DoneMeansArrival
<1>1. ArrivalInv => DoneMeansArrival
  BY DEF ArrivalInv
<1> QED
  BY <1>1, ArrivalCorrect, PTL

-----------------------------------------------------------------------------
(* A port without a partner goes back to "dual" *)

\* Where the poll thread is when it owes a look at the ports.
ScanningPcs == {"partnerAdded", "queryPortStatus", "notify", "trylock", "ports", "drp"}

\* A step that touches none of what the restoring of a port depends on.
LEMMA RestoreUntouched ==
  ASSUME RestoreInv,
         UNCHANGED <<nodeVars, partner, uevents, skipped, scanVars>>,
         mPartnerUp' => mPartnerUp,
         pc'["poll"] = pc["poll"] \/ pc["poll"] \notin ScanningPcs,
         pc'["binder"] = "waiting" => pc["binder"] = "waiting",
         pc["binder"] \in {"wait", "waiting", "drp"} =>
           pc'["binder"] \in {"wait", "waiting", "drp"} /\ call' = call
  PROVE  RestoreInv'
<1> USE DEF nodeVars, scanVars, ScanningPcs
<1>1. ScanComing => ScanComing'
  BY DEF ScanComing
<1>2. ASSUME NEW p, ScanMeets(p)
      PROVE  \/ pc'["poll"] \in {"ports", "drp"} /\ p \in todo'
             \/ pc'["poll"] = "drp" /\ current' = p
  BY <1>2 DEF ScanMeets
<1>3. \A p : SwitchHas(p) => pc'["binder"] \in {"wait", "waiting", "drp"} /\ call'.port = p
  BY DEF SwitchHas
<1>4. pc'["binder"] = "waiting" /\ mPartnerUp' =>
        skipped' \/ pc'["poll"] \in {"queryPortStatus", "notify", "trylock"}
  BY DEF RestoreInv
<1> QED
  BY <1>1, <1>2, <1>3, <1>4 DEF RestoreInv, ScanMeets, SwitchHas

\* The binder thread leaves a port that it has written to the poll thread only
\* when it has a partner, or the poll thread is to look at it.
LEMMA RestoreBinder ==
  TypeOK /\ Control /\ FailedSwitchIsDual /\ RestoreInv /\ Binder => RestoreInv'
<1> SUFFICES ASSUME TypeOK, Control, FailedSwitchIsDual, RestoreInv, Binder
             PROVE  RestoreInv'
  OBVIOUS
<1> USE DEF Threads, Goto, nodeVars, scanVars, partnerVars, socketVars, lossVars, ScanningPcs
<1>t. /\ pc \in [Threads -> BinderPcs \cup PollPcs \cup MonitorPcs]
      /\ call.port \in Ports /\ portType \in [Ports -> PortTypes]
      /\ mPartnerUp \in BOOLEAN
  BY CallsHavePorts DEF TypeOK
<1>1. CASE SetCallbackSame
  BY <1>1, <1>t, RestoreUntouched DEF SetCallbackSame, SetCallbackUnchanged
<1>2. CASE SetCallbackRegister
  <2>1. pc["poll"] = "none"
    BY <1>2 DEF SetCallbackRegister, Control, PollFollowsCallback
  <2> QED
    BY <1>2, <1>t, <2>1, RestoreUntouched DEF SetCallbackRegister, SetCallbackUnchanged
<1>3. CASE SetCallbackUnregister
  BY <1>3, <1>t, RestoreUntouched DEF SetCallbackUnregister, SetCallbackUnchanged
<1>4. CASE Joined
  BY <1>4, <1>t, RestoreUntouched DEF Joined, SetCallbackUnchanged
<1>5. CASE SwitchRole
  BY <1>5, <1>t, RestoreUntouched DEF SwitchRole, SwitchStep
<1>6. CASE SwitchMode
  BY <1>6, <1>t, RestoreUntouched DEF SwitchMode, SwitchStep
<1>7. CASE LockPartner
  BY <1>7, <1>t, RestoreUntouched DEF LockPartner, NotUp, SwitchStep
<1>8. CASE WriteMode
  <2>1. /\ pc'["binder"] \in {"wait", "drp"} /\ pc'["poll"] = pc["poll"]
        /\ UNCHANGED <<partner, uevents, skipped, scanVars, call>>
    BY <1>8, <1>t DEF WriteMode, SwitchStep
  <2>2. \A p \in Ports \ refused' :
          p = call.port \/ (p \notin refused /\ portType'[p] = portType[p])
    BY <1>8, <1>t DEF WriteMode, WritePortType
  <2>3. pc["binder"] = "write"
    BY <1>8 DEF WriteMode, SwitchStep
  <2> QED
    BY <2>1, <2>2, <2>3 DEF RestoreInv, ScanComing, ScanMeets, SwitchHas
<1>9. CASE WaitPartner
  <2>1. ~mPartnerUp /\ mPartnerUp' = mPartnerUp
    BY <1>9 DEF WaitPartner, SwitchStep, Control, PartnerInv
  <2> QED
    BY <1>9, <1>t, <2>1 DEF WaitPartner, SwitchStep, RestoreInv, ScanComing, ScanMeets, SwitchHas
<1>10. CASE WaitTimedOut
  BY <1>10, <1>t, RestoreUntouched DEF WaitTimedOut, Awake, AfterTimeout, SwitchStep
<1>11. CASE WaitAgain
  BY <1>11, <1>t, RestoreUntouched DEF WaitAgain, Awake, SwitchStep
<1>12. CASE WaitSucceeded
  <2>1. ScanComing
    BY <1>12 DEF WaitSucceeded, Awake, SwitchStep, RestoreInv, ScanComing
  <2>2. pc'["binder"] = "notifyRole" /\ pc'["poll"] = pc["poll"] /\ UNCHANGED <<uevents, skipped>>
    BY <1>12, <1>t DEF WaitSucceeded, Awake, SwitchStep
  <2>3. ScanComing'
    BY <2>1, <2>2 DEF ScanComing
  <2> QED
    BY <2>2, <2>3 DEF RestoreInv
<1>13. CASE SwitchBack
  <2>1. /\ pc'["binder"] = "notifyRole" /\ pc'["poll"] = pc["poll"] /\ pc["binder"] = "drp"
        /\ UNCHANGED <<partner, uevents, skipped, scanVars, call>>
    BY <1>13, <1>t DEF SwitchBack, SwitchStep
  <2>2. \A p \in Ports \ refused' :
          \/ p = call.port /\ portType'[p] = "dual"
          \/ p # call.port /\ p \notin refused /\ portType'[p] = portType[p]
    BY <1>13, <1>t DEF SwitchBack, switchToDrp, WritePortType
  <2>3. \A p : p # call.port => ~SwitchHas(p)
    BY DEF SwitchHas
  <2> QED
    BY <2>1, <2>2, <2>3 DEF RestoreInv, ScanComing, ScanMeets
<1>14. CASE NotifyRole
  BY <1>14, <1>t, RestoreUntouched DEF NotifyRole, SwitchStep
<1>15. CASE UnlockRole
  BY <1>15, <1>t, RestoreUntouched DEF UnlockRole, SwitchStep
<1>16. CASE QueryRead("binder")
  BY <1>16, <1>t, RestoreUntouched DEF QueryRead, QueryUnchanged
<1>17. CASE QueryNotify("binder")
  BY <1>17, <1>t, RestoreUntouched DEF QueryNotify, AfterQuery, QueryUnchanged
<1>18. CASE NotifyQuery
  BY <1>18, <1>t, RestoreUntouched DEF NotifyQuery, QueryUnchanged
<1> QED
  BY <1>1, <1>2, <1>3, <1>4, <1>5, <1>6, <1>7, <1>8, <1>9, <1>10, <1>11, <1>12, <1>13, <1>14,
     <1>15, <1>16, <1>17, <1>18 DEF Binder

\* The poll thread looks at all the ports after a uevent, or skips them all.
LEMMA RestorePoll == TypeOK /\ Control /\ RestoreInv /\ (Poll \/ PollFails) => RestoreInv'
<1> SUFFICES ASSUME TypeOK, Control, RestoreInv, Poll \/ PollFails PROVE RestoreInv'
  OBVIOUS
<1> USE DEF Threads, Goto, nodeVars, scanVars, partnerVars, socketVars, lossVars, ScanningPcs
<1>t. /\ pc \in [Threads -> BinderPcs \cup PollPcs \cup MonitorPcs]
      /\ uevents \in Seq(Uevents) /\ portType \in [Ports -> PortTypes]
      /\ skipped \in BOOLEAN
  BY DEF TypeOK
<1>a. ASSUME ScanComing', pc'["binder"] = pc["binder"],
             pc["binder"] = "waiting" /\ mPartnerUp' =>
               skipped' \/ pc'["poll"] \in {"queryPortStatus", "notify", "trylock"}
      PROVE  RestoreInv'
  BY <1>a DEF RestoreInv
<1>1. CASE Start
  BY <1>1, <1>t, RestoreUntouched DEF Start, PollStep
<1>2. CASE LoopOn
  BY <1>2, <1>t, RestoreUntouched DEF LoopOn, PollStep
<1>3. CASE DestroySeen \/ PollFails
  <2>1. /\ pc["poll"] \notin ScanningPcs /\ pc'["poll"] = "exited" /\ pc'["binder"] = pc["binder"]
        /\ uevents' = <<>> /\ skipped' = (skipped \/ uevents # <<>>)
        /\ UNCHANGED <<nodeVars, partner, scanVars, mPartnerUp, call>>
    BY <1>3, <1>t DEF DestroySeen, PollFails, Exit, PollStep
  <2>2. ScanComing => skipped'
    <3>1. (\E i \in 1..Len(uevents) : uevents[i] # "other") => uevents # <<>>
      BY <1>t
    <3>2. pc["poll"] \notin {"partnerAdded", "queryPortStatus", "notify", "trylock"}
      BY <2>1
    <3>3. skipped \/ uevents # <<>> => skipped'
      BY <2>1
    <3> QED
      BY <3>1, <3>2, <3>3 DEF ScanComing
  <2>3. \A p : ~ScanMeets(p)
    BY <2>1 DEF ScanMeets
  <2>4. skipped => skipped'
    BY <2>1
  <2> QED
    BY <2>1, <2>2, <2>3, <2>4 DEF RestoreInv, ScanComing, SwitchHas
<1>4. CASE ReceiveUevent
  <2>1. /\ uevents # <<>> /\ uevents' = Tail(uevents) /\ pc["poll"] = "epoll"
        /\ pc'["poll"] = UeventAction[Head(uevents)] /\ pc'["binder"] = pc["binder"]
        /\ UNCHANGED <<nodeVars, partner, scanVars, mPartnerUp, call, skipped>>
    BY <1>4, <1>t DEF ReceiveUevent, PollStep
  <2>2. Head(uevents) = uevents[1] /\ Head(uevents) \in Uevents
    BY <2>1, <1>t
  <2>3. uevents[1] # "other" => pc'["poll"] \in {"partnerAdded", "queryPortStatus"}
    BY <2>1, <2>2 DEF UeventAction, Uevents
  <2>4. ScanComing => ScanComing'
    <3>1. ASSUME NEW i \in 1..Len(uevents), uevents[i] # "other" PROVE ScanComing'
      <4>1. CASE i = 1
        BY <3>1, <4>1, <2>3 DEF ScanComing
      <4>2. CASE i > 1
        <5>1. i - 1 \in 1..Len(uevents') /\ uevents'[i - 1] # "other"
          BY <3>1, <4>2, <2>1, <1>t
        <5> QED
          BY <5>1 DEF ScanComing
      <4> QED
        BY <4>1, <4>2
    <3> QED
      BY <2>1, <3>1 DEF ScanComing
  <2>5. \A p : ~ScanMeets(p)
    BY <2>1 DEF ScanMeets
  <2> QED
    BY <2>1, <2>4, <2>5 DEF RestoreInv, SwitchHas
<1>5. CASE PartnerAdded
  <2>1. pc'["poll"] = "queryPortStatus" /\ pc'["binder"] = pc["binder"]
    BY <1>5, <1>t DEF PartnerAdded, PollStep
  <2> QED
    BY <1>a, <2>1 DEF ScanComing
<1>6. CASE QueryRead("poll")
  <2>1. pc'["poll"] = "notify" /\ pc'["binder"] = pc["binder"]
    BY <1>6, <1>t DEF QueryRead
  <2> QED
    BY <1>a, <2>1 DEF ScanComing
<1>7. CASE QueryNotify("poll")
  <2>1. pc'["poll"] = "trylock" /\ pc'["binder"] = pc["binder"]
    BY <1>7, <1>t DEF QueryNotify, AfterQuery
  <2> QED
    BY <1>a, <2>1 DEF ScanComing
<1>8. CASE TrylockRole
  <2>1. CASE TrylockSucceeds
    <3>1. /\ pc'["poll"] = "ports" /\ pc'["binder"] = pc["binder"] /\ todo' = Ports
      BY <1>8, <2>1, <1>t DEF TrylockRole, PollStep
    <3>2. pc["binder"] # "waiting"
      BY <2>1 DEF TrylockSucceeds, IsFree, Free, Control, LockInv, SwitchingPcs
    <3>3. \A p \in Ports : ScanMeets(p)'
      BY <3>1 DEF ScanMeets
    <3> QED
      BY <3>1, <3>2, <3>3 DEF RestoreInv
  <2>2. CASE ~TrylockSucceeds
    <3>1. skipped' /\ pc'["binder"] = pc["binder"]
      BY <1>8, <2>2, <1>t DEF TrylockRole, PollStep
    <3> QED
      BY <1>a, <3>1 DEF ScanComing
  <2> QED
    BY <2>1, <2>2
<1>9. CASE \E p \in Ports : LookAt(p)
  <2>1. PICK q \in Ports : LookAt(q)
    BY <1>9
  <2>2. /\ pc["poll"] = "ports" /\ pc'["poll"] = IF partner[q] THEN "ports" ELSE "drp"
        /\ pc'["binder"] = pc["binder"] /\ todo' = todo \ {q} /\ current' = q
        /\ UNCHANGED <<nodeVars, partner, mPartnerUp, call, skipped, uevents>>
    BY <2>1, <1>t DEF LookAt, PollStep
  <2>3. ASSUME NEW p, ScanMeets(p)
        PROVE  \/ partner'[p]
               \/ pc'["poll"] = "drp" /\ current' = p
               \/ pc'["poll"] \in {"ports", "drp"} /\ p \in todo'
    <3>1. CASE partner[q]
      <4>1. pc'["poll"] = "ports" /\ partner'[q]
        BY <2>2, <3>1
      <4> QED
        BY <2>2, <2>3, <4>1 DEF ScanMeets
    <3>2. CASE ~partner[q]
      <4>1. pc'["poll"] = "drp"
        BY <2>2, <3>2
      <4> QED
        BY <2>2, <2>3, <4>1 DEF ScanMeets
    <3> QED
      BY <3>1, <3>2
  <2>4. ScanComing => ScanComing'
    BY <2>2 DEF ScanComing
  <2> QED
    BY <2>2, <2>3, <2>4 DEF RestoreInv, ScanMeets, SwitchHas
<1>10. CASE PortBackToDrp
  <2>1. /\ pc["poll"] = "drp" /\ pc'["poll"] = "ports" /\ pc'["binder"] = pc["binder"]
        /\ UNCHANGED <<partner, scanVars, mPartnerUp, call, skipped, uevents>>
    BY <1>10, <1>t DEF PortBackToDrp, PollStep
  <2>2. \A p \in Ports \ refused' :
          \/ p = current /\ portType'[p] = "dual"
          \/ p # current /\ p \notin refused /\ portType'[p] = portType[p]
    BY <1>10, <1>t DEF PortBackToDrp, switchToDrp, WritePortType, TypeOK
  <2>3. ScanComing => ScanComing'
    BY <2>1 DEF ScanComing
  <2> QED
    BY <2>1, <2>2, <2>3 DEF RestoreInv, ScanMeets, SwitchHas
<1>11. CASE PollUnlockRole
  <2>1. /\ pc["poll"] = "ports" /\ pc'["poll"] = "loop" /\ pc'["binder"] = pc["binder"]
        /\ todo = {} /\ UNCHANGED <<nodeVars, partner, mPartnerUp, call, skipped, uevents>>
    BY <1>11, <1>t DEF PollUnlockRole, PollStep
  <2>2. \A p : ~ScanMeets(p)
    BY <2>1 DEF ScanMeets
  <2>3. ScanComing => ScanComing'
    BY <2>1 DEF ScanComing
  <2> QED
    BY <2>1, <2>2, <2>3 DEF RestoreInv, SwitchHas
<1> QED
  BY <1>1, <1>2, <1>3, <1>4, <1>5, <1>6, <1>7, <1>8, <1>9, <1>10, <1>11 DEF Poll

\* A partner that goes sends a uevent, or is not heard of.
LEMMA RestoreOthers ==
  TypeOK /\ Control /\ RestoreInv
    /\ (Receive \/ UpdatePortStatus \/ Kernel \/ CvTimeout \/ sighandler \/ Monitor
        \/ UNCHANGED vars) => RestoreInv'
<1> SUFFICES ASSUME TypeOK, Control, RestoreInv,
                    Receive \/ UpdatePortStatus \/ Kernel \/ CvTimeout \/ sighandler
                      \/ Monitor \/ UNCHANGED vars
             PROVE  RestoreInv'
  OBVIOUS
<1> USE DEF Threads, Goto, nodeVars, scanVars, partnerVars, socketVars, lossVars, ScanningPcs
<1>t. /\ pc \in [Threads -> BinderPcs \cup PollPcs \cup MonitorPcs]
      /\ uevents \in Seq(Uevents) /\ partner \in [Ports -> BOOLEAN] /\ skipped \in BOOLEAN
  BY DEF TypeOK, Connectedness
<1>e. ASSUME NEW e, Enqueue(e), UNCHANGED <<socket, pc>>, skipped => skipped', ScanComing
      PROVE  ScanComing'
  <2>1. \A i \in 1..Len(uevents) : i \in 1..Len(uevents') /\ uevents'[i] = uevents[i]
    BY <1>e, <1>t DEF Enqueue, Kept
  <2> QED
    BY <1>e, <2>1 DEF ScanComing
<1>1. CASE Receive
  BY <1>1, <1>t, CallsHavePorts, RestoreUntouched DEF Receive
<1>2. CASE UpdatePortStatus
  BY <1>2, <1>t, RestoreUntouched DEF UpdatePortStatus, QueryUnchanged
<1>3. CASE \E p \in Ports : PartnerChanges(p)
  <2>1. PICK q \in Ports : PartnerChanges(q)
    BY <1>3
  <2> DEFINE e == IF partner[q] THEN "remove" ELSE "add"
  <2>2. /\ partner' = [partner EXCEPT ![q] = ~@] /\ Enqueue(e)
        /\ skipped' = (skipped \/ (~Kept /\ partner[q]))
        /\ UNCHANGED <<pc, mPartnerUp, call, scanVars, socket, nodeVars>>
    BY <2>1 DEF PartnerChanges, KernelUnchanged
  <2>3. skipped => skipped'
    BY <2>2
  <2>4. ScanComing => ScanComing'
    BY <1>e, <2>2, <2>3
  <2>5. ScanComing' \/ partner'[q]
    <3>1. CASE ~partner[q]
      BY <2>2, <3>1, <1>t
    <3>2. CASE partner[q] /\ ~Kept
      BY <2>2, <3>2 DEF ScanComing
    <3>3. CASE partner[q] /\ Kept
      <4>1. uevents' = Append(uevents, "remove")
        BY <2>2, <3>3 DEF Enqueue, Kept
      <4>2. Len(uevents') \in 1..Len(uevents') /\ uevents'[Len(uevents')] # "other"
        BY <4>1, <1>t
      <4> QED
        BY <4>2 DEF ScanComing
    <3> QED
      BY <3>1, <3>2, <3>3
  <2>6. \A p \in Ports : p # q => partner'[p] = partner[p]
    BY <2>2, <1>t
  <2> QED
    BY <2>2, <2>3, <2>4, <2>5, <2>6 DEF RestoreInv, ScanMeets, SwitchHas
<1>4. CASE OtherUevent
  <2>1. PICK e : Enqueue(e)
    BY <1>4 DEF OtherUevent
  <2>2. UNCHANGED <<pc, mPartnerUp, call, scanVars, socket, nodeVars, partner, skipped>>
    BY <1>4 DEF OtherUevent, KernelUnchanged
  <2>3. ScanComing => ScanComing'
    BY <1>e, <2>1, <2>2
  <2> QED
    BY <2>2, <2>3 DEF RestoreInv, ScanMeets, SwitchHas
<1>5. CASE CvSpurious
  BY <1>5, <1>t, RestoreUntouched DEF CvSpurious, SleepEnds
<1>6. CASE CvTimeout
  BY <1>6, <1>t, RestoreUntouched DEF CvTimeout, SleepEnds
<1>7. CASE sighandler
  BY <1>7, <1>t, RestoreUntouched DEF sighandler, PollStep
<1>8. CASE QueryRead("monitor")
  BY <1>8, <1>t, RestoreUntouched DEF QueryRead, QueryUnchanged
<1>9. CASE QueryNotify("monitor")
  BY <1>9, <1>t, RestoreUntouched DEF QueryNotify, AfterQuery, QueryUnchanged
<1>10. CASE UNCHANGED vars
  BY <1>10, <1>t, RestoreUntouched DEF vars
<1> QED
  BY <1>1, <1>2, <1>3, <1>4, <1>5, <1>6, <1>7, <1>8, <1>9, <1>10 DEF Kernel, Monitor

\* Every port that may have to be restored is somebody's to restore.
LEMMA RestoreCorrect == Spec => []RestoreInv
<1>1. Init => RestoreInv
  BY DEF Init, RestoreInv, Threads
<1>2. TypeOK /\ Control /\ FailedSwitchIsDual /\ RestoreInv /\ [Next]_vars => RestoreInv'
  BY RestoreBinder, RestorePoll, RestoreOthers DEF Next
<1> QED
  BY <1>1, <1>2, TypeCorrect, ControlCorrect, FailedSwitchLeavesDual, PTL DEF Spec

\* A port that has lost its partner, or that a mode switch was tried on, is
\* "dual" again when the uevents are served and no role switch is under way
\* (Usb.cpp:1080).
THEOREM DisconnectedPortsAreDual == Spec => []DisconnectedPortIsDual
<1>1. ASSUME Control, RestoreInv PROVE DisconnectedPortIsDual
  <2>1. ASSUME UeventsServed, IsFree("mRoleSwitchLock"), pc["poll"] # "trylock", ~skipped,
               NEW p \in Ports \ refused
        PROVE  partner[p] \/ portType[p] = "dual"
    <3>1. ~ScanComing
      <4>1. uevents = <<>>
        BY <2>1 DEF UeventsServed
      <4>2. 1..Len(uevents) = {}
        BY <4>1
      <4>3. pc["poll"] \notin {"partnerAdded", "queryPortStatus", "notify", "trylock"}
        BY <2>1 DEF UeventsServed
      <4> QED
        BY <2>1, <4>2, <4>3 DEF ScanComing
    <3>2. pc["poll"] \notin {"ports", "drp"} /\ pc["binder"] \notin SwitchingPcs
      BY <1>1, <2>1 DEF IsFree, Free, Control, LockInv
    <3>3. ~ScanMeets(p) /\ ~SwitchHas(p)
      BY <3>2 DEF ScanMeets, SwitchHas, SwitchingPcs
    <3> QED
      BY <1>1, <2>1, <3>1, <3>3 DEF RestoreInv
  <2> QED
    BY <2>1, Zenon DEF DisconnectedPortIsDual
<1> QED
  BY <1>1, ControlCorrect, RestoreCorrect, PTL

-----------------------------------------------------------------------------
(* Reports reach the callback in the order of the changes *)

\* What queryVersionHelper reads is current, in any thread.
LEMMA ReportQueryRead ==
  ASSUME TypeOK, Control, ReportInv, NEW t \in Threads, QueryRead(t)
  PROVE  ReportInv'
<1>1. \A u \in Threads : pc[u] # "notify"
  BY DEF TypeOK, Control, LockInv, QueryRead, LockForQuery, Acquire, IsFree, Threads, Free
<1>2. pc' = [pc EXCEPT ![t] = "notify"] /\ snapshot' = [snapshot EXCEPT ![t] = partner]
  BY DEF QueryRead, Goto
<1>3. UNCHANGED <<partner, reported, mCallback>>
  BY DEF QueryRead, QueryUnchanged
<1>4. pc'[t] = "notify" /\ snapshot'[t] = partner'
  BY <1>2, <1>3 DEF TypeOK
<1>5. \A u \in Threads : pc'[u] = "notify" => u = t
  BY <1>1, <1>2 DEF TypeOK
<1> QED
  BY <1>3, <1>4, <1>5 DEF ReportInv

\* The binder thread keeps the report invariant.
LEMMA ReportBinder == TypeOK /\ Control /\ ReportInv /\ Binder => ReportInv'
<1> SUFFICES ASSUME TypeOK, Control, ReportInv, Binder PROVE ReportInv'
  OBVIOUS
<1> USE DEF ReportInv, ChangePending, Threads, Goto, reportVars, socketVars, lossVars
<1>t. /\ pc \in [Threads -> BinderPcs \cup PollPcs \cup MonitorPcs]
      /\ snapshot \in [Threads -> Connectedness]
      /\ uevents \in Seq(Uevents)
      /\ missed \in BOOLEAN /\ mCallback \in BOOLEAN
  BY DEF TypeOK
<1>1. CASE SetCallbackSame
  BY <1>1, <1>t DEF SetCallbackSame, SetCallbackUnchanged
<1>2. CASE SetCallbackRegister
  <2>1. pc["poll"] = "none"
    BY <1>2 DEF SetCallbackRegister, Control, PollFollowsCallback
  <2>2. reported' = {} /\ UNCHANGED <<snapshot, partner, uevents, missed>>
    BY <1>2 DEF SetCallbackRegister, SetCallbackUnchanged
  <2>3. \A t \in Threads : pc'[t] = "notify" => pc[t] = "notify"
    BY <1>2, <1>t DEF SetCallbackRegister
  <2> QED
    BY <2>1, <2>2, <2>3
<1>3. CASE SetCallbackUnregister
  BY <1>3, <1>t DEF SetCallbackUnregister, SetCallbackUnchanged
<1>4. CASE Joined
  BY <1>4, <1>t DEF Joined, SetCallbackUnchanged
<1>5. CASE SwitchRole
  BY <1>5, <1>t DEF SwitchRole, SwitchStep
<1>6. CASE SwitchMode
  BY <1>6, <1>t DEF SwitchMode, SwitchStep
<1>7. CASE LockPartner
  BY <1>7, <1>t DEF LockPartner, NotUp, LockForPartner, SwitchStep
<1>8. CASE WriteMode
  BY <1>8, <1>t DEF WriteMode, WritePortType, SwitchStep
<1>9. CASE WaitPartner
  BY <1>9, <1>t DEF WaitPartner, SwitchStep
<1>10. CASE WaitTimedOut
  BY <1>10, <1>t DEF WaitTimedOut, Awake, AfterTimeout, SwitchStep
<1>11. CASE WaitAgain
  BY <1>11, <1>t DEF WaitAgain, Awake, SwitchStep
<1>12. CASE WaitSucceeded
  BY <1>12, <1>t DEF WaitSucceeded, Awake, SwitchStep
<1>13. CASE SwitchBack
  BY <1>13, <1>t DEF SwitchBack, switchToDrp, WritePortType, SwitchStep
<1>14. CASE NotifyRole
  BY <1>14, <1>t DEF NotifyRole, SwitchStep
<1>15. CASE UnlockRole
  BY <1>15, <1>t DEF UnlockRole, SwitchStep
<1>16. CASE QueryRead("binder")
  BY <1>16, ReportQueryRead
<1>17. CASE QueryNotify("binder")
  BY <1>17, <1>t DEF QueryNotify, AfterQuery, QueryUnchanged
<1>18. CASE NotifyQuery
  BY <1>18, <1>t DEF NotifyQuery, QueryUnchanged
<1> QED
  BY <1>1, <1>2, <1>3, <1>4, <1>5, <1>6, <1>7, <1>8, <1>9, <1>10, <1>11, <1>12, <1>13, <1>14,
     <1>15, <1>16, <1>17, <1>18 DEF Binder

\* The poll thread keeps the report invariant.
LEMMA ReportPoll == TypeOK /\ Control /\ ReportInv /\ (Poll \/ PollFails) => ReportInv'
<1> SUFFICES ASSUME TypeOK, Control, ReportInv, Poll \/ PollFails PROVE ReportInv'
  OBVIOUS
<1> USE DEF ReportInv, ChangePending, Threads, Goto, reportVars, socketVars, lossVars
<1>t. /\ pc \in [Threads -> BinderPcs \cup PollPcs \cup MonitorPcs]
      /\ snapshot \in [Threads -> Connectedness]
      /\ uevents \in Seq(Uevents)
      /\ missed \in BOOLEAN /\ mCallback \in BOOLEAN
  BY DEF TypeOK
<1>1. CASE Start
  BY <1>1, <1>t DEF Start, PollStep
<1>2. CASE LoopOn
  BY <1>2, <1>t DEF LoopOn, PollStep
<1>3. CASE DestroySeen \/ PollFails
  BY <1>3, <1>t DEF DestroySeen, PollFails, Exit, PollStep
<1>4. CASE ReceiveUevent
  <2>1. /\ uevents # <<>> /\ uevents' = Tail(uevents)
        /\ pc["poll"] = "epoll"
        /\ pc' = [pc EXCEPT !["poll"] = UeventAction[Head(uevents)]]
        /\ UNCHANGED <<mCallback, partner, snapshot, reported, missed>>
    BY <1>4 DEF ReceiveUevent, PollStep
  <2>2. Head(uevents) = uevents[1] /\ Head(uevents) \in Uevents
    BY <2>1, <1>t
  <2>3. UeventAction[Head(uevents)] # "notify"
    BY <2>2 DEF UeventAction, Uevents
  <2>4. pc'["poll"] = UeventAction[Head(uevents)]
    BY <2>1, <1>t
  <2>5. \A t \in Threads : pc'[t] = "notify" <=> pc[t] = "notify"
    BY <2>1, <2>3, <2>4, <1>t
  <2>6. ChangePending => ChangePending'
    <3> SUFFICES ASSUME NEW i \in 1..Len(uevents), uevents[i] \in {"add", "remove"}
                 PROVE  ChangePending'
      BY <2>1
    <3>1. CASE i = 1
      <4>1. UeventAction[Head(uevents)] \in {"partnerAdded", "queryPortStatus"}
        BY <3>1, <2>2 DEF UeventAction, Uevents
      <4> QED
        BY <4>1, <2>4
    <3>2. CASE i > 1
      <4>1. /\ i - 1 \in 1..Len(uevents')
            /\ uevents'[i - 1] \in {"add", "remove"}
        BY <3>2, <2>1, <1>t
      <4> QED
        BY <4>1
    <3> QED
      BY <3>1, <3>2
  <2> HIDE DEF ChangePending
  <2> QED
    BY <2>1, <2>5, <2>6
<1>5. CASE PartnerAdded
  BY <1>5, <1>t DEF PartnerAdded, PollStep
<1>6. CASE QueryRead("poll")
  BY <1>6, ReportQueryRead
<1>7. CASE QueryNotify("poll")
  BY <1>7, <1>t DEF QueryNotify, AfterQuery, QueryUnchanged
<1>8. CASE TrylockRole
  BY <1>8, <1>t DEF TrylockRole, TrylockSucceeds, PollStep
<1>9. CASE \E p \in Ports : LookAt(p)
  BY <1>9, <1>t DEF LookAt, PollStep
<1>10. CASE PortBackToDrp
  BY <1>10, <1>t DEF PortBackToDrp, switchToDrp, WritePortType, PollStep
<1>11. CASE PollUnlockRole
  BY <1>11, <1>t DEF PollUnlockRole, PollStep
<1> QED
  BY <1>1, <1>2, <1>3, <1>4, <1>5, <1>6, <1>7, <1>8, <1>9, <1>10, <1>11 DEF Poll

\* So do the framework, the monitor thread, the kernel and the signal.
LEMMA ReportOthers ==
  TypeOK /\ Control /\ ReportInv
    /\ (Receive \/ UpdatePortStatus \/ Kernel \/ CvTimeout \/ sighandler \/ Monitor
        \/ UNCHANGED vars) => ReportInv'
<1> SUFFICES ASSUME TypeOK, Control, ReportInv,
                    Receive \/ UpdatePortStatus \/ Kernel \/ CvTimeout \/ sighandler
                      \/ Monitor \/ UNCHANGED vars
             PROVE  ReportInv'
  OBVIOUS
<1> USE DEF ReportInv, ChangePending, Threads, Goto, reportVars, socketVars, lossVars
<1>t. /\ pc \in [Threads -> BinderPcs \cup PollPcs \cup MonitorPcs]
      /\ snapshot \in [Threads -> Connectedness]
      /\ uevents \in Seq(Uevents)
      /\ missed \in BOOLEAN /\ mCallback \in BOOLEAN
  BY DEF TypeOK
<1>1. CASE Receive
  BY <1>1, <1>t, CallsHavePorts DEF Receive
<1>2. CASE UpdatePortStatus
  BY <1>2, <1>t DEF UpdatePortStatus, QueryUnchanged
<1>3. CASE \E p \in Ports : PartnerChanges(p)
  <2>1. PICK p \in Ports : PartnerChanges(p)
    BY <1>3
  <2>2. ChangePending'
    <3>1. CASE ~Kept
      BY <3>1, <2>1 DEF PartnerChanges
    <3>2. CASE Kept
      <4>1. PICK e \in {"add", "remove"} : uevents' = Append(uevents, e)
        BY <3>2, <2>1 DEF PartnerChanges, Enqueue, Kept
      <4>2. Len(uevents') = Len(uevents) + 1 /\ uevents'[Len(uevents) + 1] = e
        BY <4>1, <1>t
      <4>3. Len(uevents) + 1 \in 1..Len(uevents')
        BY <4>2, <1>t
      <4> QED
        BY <4>2, <4>3
    <3> QED
      BY <3>1, <3>2
  <2> HIDE DEF ChangePending
  <2> QED
    BY <2>1, <2>2 DEF PartnerChanges, KernelUnchanged
<1>4. CASE OtherUevent
  BY <1>4, <1>t DEF OtherUevent, Enqueue, Kept, KernelUnchanged, Uevents
<1>5. CASE CvSpurious
  BY <1>5, <1>t DEF CvSpurious, SleepEnds
<1>6. CASE CvTimeout
  BY <1>6, <1>t DEF CvTimeout, SleepEnds
<1>7. CASE sighandler
  BY <1>7, <1>t DEF sighandler, Alive, PollStep
<1>8. CASE QueryRead("monitor")
  BY <1>8, ReportQueryRead
<1>9. CASE QueryNotify("monitor")
  BY <1>9, <1>t DEF QueryNotify, AfterQuery, QueryUnchanged
<1>10. CASE UNCHANGED vars
  BY <1>10, <1>t DEF vars
<1> QED
  BY <1>1, <1>2, <1>3, <1>4, <1>5, <1>6, <1>7, <1>8, <1>9, <1>10 DEF Kernel, Monitor

\* No report is behind a change that no queued uevent will report again.
LEMMA ReportCorrect == Spec => []ReportInv
<1>1. Init => ReportInv
  BY DEF Init, ReportInv, Threads
<1>2. TypeOK /\ Control /\ ReportInv /\ [Next]_vars => ReportInv'
  BY ReportBinder, ReportPoll, ReportOthers DEF Next
<1> QED
  BY <1>1, <1>2, TypeCorrect, ControlCorrect, PTL DEF Spec

\* The inductive invariant, whole.
THEOREM Invariant == Spec => []Inv
<1>1. TypeOK /\ Control /\ FailedSwitchIsDual /\ ArrivalInv /\ ReportInv /\ RestoreInv => Inv
  BY DEF Control, Inv
<1> QED
  BY <1>1, TypeCorrect, ControlCorrect, FailedSwitchLeavesDual, ArrivalCorrect, ReportCorrect,
     RestoreCorrect, PTL

\* Once the uevents are served, the callback's last status is the ports' state,
\* whichever threads reported and in which order (Usb.cpp:948-966).
THEOREM ReportsAreCurrent == Spec => []ReportIsCurrent
<1>1. TypeOK /\ Control /\ ReportInv => ReportIsCurrent
  <2> SUFFICES ASSUME TypeOK, Control, ReportInv, UeventsServed, IsFree("mLock"), ~missed
               PROVE  reported \subseteq {partner}
    BY DEF ReportIsCurrent
  <2>1. ~ChangePending
    BY DEF ChangePending, UeventsServed
  <2>2. \A t \in Threads : pc[t] # "notify"
    BY DEF Control, LockInv, IsFree, Threads, Free
  <2> QED
    BY <2>1, <2>2 DEF ReportInv
<1> QED
  BY <1>1, TypeCorrect, ControlCorrect, ReportCorrect, PTL

-----------------------------------------------------------------------------
(* The three threads implement the one reporter of PortReports *)

\* A step that neither reports nor changes what is reported.
Aside ==
  /\ UNCHANGED <<partner, mCallback, reported, snapshot>>
  /\ \A t \in Threads : pc'[t] = "notify" <=> pc[t] = "notify"

\* What the reporter has seen after a step is what the threads at their
\* callback have seen.
LEMMA SampledNext == Sampled' = {snapshot'[t] : t \in {u \in Threads : pc'[u] = "notify"}}
BY DEF Sampled

\* Such a step leaves the reporter as it is.
LEMMA AsideStutters == Aside => UNCHANGED OneReporter!vars
<1> SUFFICES ASSUME Aside PROVE UNCHANGED OneReporter!vars
  OBVIOUS
<1>1. Sampled' = Sampled
  BY SampledNext DEF Aside, Sampled
<1> QED
  BY <1>1 DEF Aside, OneReporter!vars

\* With mLock free nothing is on its way to the callback.
LEMMA FreeMeansNothingSampled ==
  TypeOK /\ Control /\ IsFree("mLock") => Sampled = {} /\ \A t \in Threads : pc[t] # "notify"
BY DEF TypeOK, Control, LockInv, IsFree, Sampled, Threads, Free

\* A thread that reads the ports looks, in any thread.
LEMMA ReadLooks ==
  ASSUME TypeOK, Control, NEW t \in Threads, QueryRead(t)
  PROVE  OneReporter!Look
<1>1. Sampled = {} /\ \A u \in Threads : pc[u] # "notify"
  BY FreeMeansNothingSampled DEF QueryRead, LockForQuery, Acquire
<1>2. /\ pc' = [pc EXCEPT ![t] = "notify"]
      /\ snapshot' = [snapshot EXCEPT ![t] = partner]
      /\ UNCHANGED <<partner, mCallback, reported>>
  BY DEF QueryRead, Goto, QueryUnchanged
<1>3. {u \in Threads : pc'[u] = "notify"} = {t}
  BY <1>1, <1>2 DEF TypeOK
<1>4. snapshot'[t] = partner
  BY <1>2 DEF TypeOK
<1>5. Sampled' = {partner}
  BY <1>3, <1>4, SampledNext
<1> QED
  BY <1>1, <1>2, <1>5 DEF OneReporter!Look

\* A thread that calls the callback hands on what it has read.
LEMMA NotifyHandsOn ==
  ASSUME TypeOK, Control, NEW t \in Threads, QueryNotify(t)
  PROVE  OneReporter!HandOn
<1>1. /\ pc[t] = "notify" /\ pc' = [pc EXCEPT ![t] = AfterQuery(t)]
      /\ reported' = IF mCallback THEN {snapshot[t]} ELSE reported
      /\ UNCHANGED <<partner, mCallback>>
  BY DEF QueryNotify, Goto, QueryUnchanged
<1>2. {u \in Threads : pc[u] = "notify"} = {t}
  BY <1>1 DEF TypeOK, Control, LockInv, Threads
<1>3. Sampled = {snapshot[t]}
  BY <1>2 DEF Sampled
<1>4. AfterQuery(t) # "notify"
  BY DEF AfterQuery, Threads
<1>5. {u \in Threads : pc'[u] = "notify"} = {}
  BY <1>1, <1>2, <1>4 DEF TypeOK
<1>6. Sampled' = {}
  BY <1>5, SampledNext
<1> QED
  BY <1>1, <1>3, <1>6 DEF OneReporter!HandOn

\* setCallback finds nothing on its way.
LEMMA SetCallbackIsOne ==
  TypeOK /\ Control /\ (SetCallbackSame \/ SetCallbackRegister \/ SetCallbackUnregister)
    => OneReporter!SetCallback
<1> SUFFICES ASSUME TypeOK, Control,
                    SetCallbackSame \/ SetCallbackRegister \/ SetCallbackUnregister
             PROVE  OneReporter!SetCallback
  OBVIOUS
<1>1. Sampled = {} /\ \A t \in Threads : pc[t] # "notify"
  BY FreeMeansNothingSampled
  DEF SetCallbackSame, SetCallbackRegister, SetCallbackUnregister, Acquire
<1>2. mCallback' \in BOOLEAN /\ reported' = {} /\ UNCHANGED partner
  BY DEF TypeOK, SetCallbackSame, SetCallbackRegister, CreationFails, SetCallbackUnregister,
         SetCallbackUnchanged
<1>3. \A t \in Threads : pc'[t] # "notify"
  BY <1>1 DEF TypeOK, SetCallbackSame, SetCallbackRegister, SetCallbackUnregister, Goto
<1>4. Sampled' = {}
  BY <1>3, SampledNext
<1> QED
  BY <1>1, <1>2, <1>4 DEF OneReporter!SetCallback

\* A partner changes while a status may be on its way.
LEMMA PartnerChangesIsOne ==
  ASSUME TypeOK, NEW p \in Ports, PartnerChanges(p)
  PROVE  OneReporter!PartnerChanges
<1>1. partner' \in Connectedness /\ UNCHANGED <<pc, mCallback, snapshot, reported>>
  BY DEF PartnerChanges, KernelUnchanged, TypeOK, Connectedness, reportVars
<1>2. Sampled' = Sampled
  BY <1>1 DEF Sampled
<1> QED
  BY <1>1, <1>2 DEF OneReporter!PartnerChanges, OneReporter!Connectedness, Connectedness

\* The binder thread otherwise only waits, writes port_type and is joined.
LEMMA BinderAside ==
  TypeOK /\ Control /\ Binder =>
    Aside \/ OneReporter!Next
<1> SUFFICES ASSUME TypeOK, Control, Binder PROVE Aside \/ OneReporter!Next
  OBVIOUS
<1> USE DEF Aside, Goto, reportVars, Threads
<1>t. pc \in [Threads -> BinderPcs \cup PollPcs \cup MonitorPcs]
  BY DEF TypeOK
<1>1. CASE SetCallbackSame \/ SetCallbackRegister \/ SetCallbackUnregister
  BY <1>1, SetCallbackIsOne DEF OneReporter!Next
<1>2. CASE Joined
  BY <1>2, <1>t DEF Joined, SetCallbackUnchanged
<1>3. CASE SwitchRole
  BY <1>3, <1>t DEF SwitchRole, SwitchStep
<1>4. CASE SwitchMode
  BY <1>4, <1>t DEF SwitchMode, SwitchStep
<1>5. CASE LockPartner
  BY <1>5, <1>t DEF LockPartner, NotUp, SwitchStep
<1>6. CASE WriteMode
  BY <1>6, <1>t DEF WriteMode, SwitchStep
<1>7. CASE WaitPartner
  BY <1>7, <1>t DEF WaitPartner, SwitchStep
<1>8. CASE WaitTimedOut
  BY <1>8, <1>t DEF WaitTimedOut, Awake, AfterTimeout, SwitchStep
<1>9. CASE WaitAgain
  BY <1>9, <1>t DEF WaitAgain, Awake, SwitchStep
<1>10. CASE WaitSucceeded
  BY <1>10, <1>t DEF WaitSucceeded, Awake, SwitchStep
<1>11. CASE SwitchBack
  BY <1>11, <1>t DEF SwitchBack, SwitchStep
<1>12. CASE NotifyRole
  BY <1>12, <1>t DEF NotifyRole, SwitchStep
<1>13. CASE UnlockRole
  BY <1>13, <1>t DEF UnlockRole, SwitchStep
<1>14. CASE QueryRead("binder")
  BY <1>14, ReadLooks DEF OneReporter!Next
<1>15. CASE QueryNotify("binder")
  BY <1>15, NotifyHandsOn DEF OneReporter!Next
<1>16. CASE NotifyQuery
  BY <1>16, <1>t DEF NotifyQuery, QueryUnchanged
<1> QED
  BY <1>1, <1>2, <1>3, <1>4, <1>5, <1>6, <1>7, <1>8, <1>9, <1>10, <1>11, <1>12, <1>13, <1>14,
     <1>15, <1>16 DEF Binder

\* The poll thread reports like the binder thread.
LEMMA PollAside ==
  TypeOK /\ Control /\ (Poll \/ PollFails) => Aside \/ OneReporter!Next
<1> SUFFICES ASSUME TypeOK, Control, Poll \/ PollFails PROVE Aside \/ OneReporter!Next
  OBVIOUS
<1> USE DEF Aside, Goto, reportVars, Threads, PollStep
<1>t. pc \in [Threads -> BinderPcs \cup PollPcs \cup MonitorPcs]
  BY DEF TypeOK
<1>1. CASE Start
  BY <1>1, <1>t DEF Start
<1>2. CASE LoopOn
  BY <1>2, <1>t DEF LoopOn
<1>3. CASE DestroySeen \/ PollFails
  BY <1>3, <1>t DEF DestroySeen, PollFails, Exit
<1>4. CASE ReceiveUevent
  <2>1. UeventAction[Head(uevents)] # "notify"
    <3>1. Head(uevents) \in Uevents
      BY <1>4 DEF ReceiveUevent, TypeOK
    <3> QED
      BY <3>1 DEF UeventAction, Uevents
  <2> QED
    BY <1>4, <1>t, <2>1 DEF ReceiveUevent
<1>5. CASE PartnerAdded
  BY <1>5, <1>t DEF PartnerAdded
<1>6. CASE QueryRead("poll")
  BY <1>6, ReadLooks DEF OneReporter!Next
<1>7. CASE QueryNotify("poll")
  BY <1>7, NotifyHandsOn DEF OneReporter!Next
<1>8. CASE TrylockRole
  BY <1>8, <1>t DEF TrylockRole
<1>9. CASE \E p \in Ports : LookAt(p)
  BY <1>9, <1>t DEF LookAt
<1>10. CASE PortBackToDrp
  BY <1>10, <1>t DEF PortBackToDrp
<1>11. CASE PollUnlockRole
  BY <1>11, <1>t DEF PollUnlockRole
<1> QED
  BY <1>1, <1>2, <1>3, <1>4, <1>5, <1>6, <1>7, <1>8, <1>9, <1>10, <1>11 DEF Poll

\* The rest changes a partner, reports from the monitor thread, or is aside.
LEMMA OthersAside ==
  TypeOK /\ Control
    /\ (Receive \/ UpdatePortStatus \/ Kernel \/ CvTimeout \/ sighandler \/ Monitor
        \/ UNCHANGED vars) => Aside \/ OneReporter!Next
<1> SUFFICES ASSUME TypeOK, Control,
                    Receive \/ UpdatePortStatus \/ Kernel \/ CvTimeout \/ sighandler
                      \/ Monitor \/ UNCHANGED vars
             PROVE  Aside \/ OneReporter!Next
  OBVIOUS
<1> USE DEF Aside, Goto, reportVars, Threads
<1>t. /\ pc \in [Threads -> BinderPcs \cup PollPcs \cup MonitorPcs]
      /\ pc["poll"] \in PollPcs
  BY DEF TypeOK
<1>1. CASE Receive
  BY <1>1, <1>t, CallsHavePorts DEF Receive
<1>2. CASE UpdatePortStatus
  BY <1>2, <1>t DEF UpdatePortStatus, QueryUnchanged
<1>3. CASE \E p \in Ports : PartnerChanges(p)
  BY <1>3, PartnerChangesIsOne DEF OneReporter!Next
<1>4. CASE OtherUevent
  BY <1>4 DEF OtherUevent, KernelUnchanged
<1>5. CASE CvSpurious \/ CvTimeout
  BY <1>5 DEF CvSpurious, CvTimeout, SleepEnds
<1>6. CASE sighandler
  BY <1>6, <1>t DEF sighandler, PollStep
<1>7. CASE QueryRead("monitor")
  BY <1>7, ReadLooks DEF OneReporter!Next
<1>8. CASE QueryNotify("monitor")
  BY <1>8, NotifyHandsOn DEF OneReporter!Next
<1>9. CASE UNCHANGED vars
  BY <1>9 DEF vars
<1> QED
  BY <1>1, <1>2, <1>3, <1>4, <1>5, <1>6, <1>7, <1>8, <1>9 DEF Kernel, Monitor

\* The three threads report to the callback like one that looks, hands on and
\* only then looks again (Usb.cpp:948-966).
THEOREM ThreadsReportAsOne == Spec => ReportsAsOne
<1>1. Init => OneReporter!Init
  BY DEF Init, OneReporter!Init, OneReporter!Connectedness, Connectedness, Sampled, Threads
<1>2. TypeOK /\ Control /\ [Next]_vars => [OneReporter!Next]_(OneReporter!vars)
  <2> SUFFICES ASSUME TypeOK, Control, [Next]_vars
               PROVE  OneReporter!Next \/ UNCHANGED OneReporter!vars
    OBVIOUS
  <2>1. Aside \/ OneReporter!Next
    BY BinderAside, PollAside, OthersAside DEF Next
  <2> QED
    BY <2>1, AsideStutters
<1> QED
  BY <1>1, <1>2, TypeCorrect, ControlCorrect, PTL DEF Spec, ReportsAsOne, OneReporter!Spec

=============================================================================
