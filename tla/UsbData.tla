-------------------------------- MODULE UsbData --------------------------------
(***************************************************************************)
(* USB data signalling: what enableUsbData, enableUsbDataWhileDocked and   *)
(* resetUsbPort of the USB HAL (usb/usb/Usb.cpp) do to the nodes of the    *)
(* USB controller, and what the framework is told.  Every write may fail,  *)
(* the HAL may die between two of them and be restarted by init, the poll  *)
(* thread reports the status whenever a uevent asks it to, and the gadget  *)
(* HAL, another process, pulls the gadget up and down through a node of    *)
(* its own accord.                                                         *)
(*                                                                         *)
(* A callback is registered throughout: see UsbHal for setCallback.        *)
(***************************************************************************)
EXTENDS Naturals

CONSTANTS
  MaxCalls  \* bound: calls served, restarts included

ASSUME MaxCallsAssumption == MaxCalls \in Nat

\* The nodes, TRUE for: PULLUP_PATH names the gadget; ID_PATH "1", not a host;
\* VBUS_PATH "1"; USB_DATA_PATH "1"; move_data_to_usb "1".
Nodes == {"pullup", "id", "vbus", "data", "moveData"}
Ops == {"enable", "disable", "docked", "reset", "none"}
Statuses == {"SUCCESS", "ERROR", "NOT_SUPPORTED"}
Reports == {"none", "ENABLED", "DISABLED_FORCE"}
Free == "free"

VARIABLES
  node,             \* per node: its value
  mUsbDataEnabled,
  pc,               \* the binder thread: the node it is at, or the step it takes
  op, status,       \* the call it serves, and locals result / success
  pollPc,           \* the poll thread in queryVersionHelper
  owner,            \* who holds mLock
  seen,             \* per thread: the data status in its currentPortStatus
  reported,         \* the last one the framework was given by this HAL
  calls

\* What an observer of the writes sees.
VARIABLES
  diverged,         \* a call that failed, or a restart, may have left the data
                    \* node and mUsbDataEnabled apart
  blind,            \* this call could not read PULLUP_PATH
  pulled            \* the gadget HAL wrote PULLUP_PATH during this call

vars == <<node, mUsbDataEnabled, pc, op, status, pollPc, owner, seen, reported, calls,
          diverged, blind, pulled>>
callVars == <<op, status, blind, calls>>
reportVars == <<pollPc, owner, seen, reported>>

Pcs == Nodes \cup {"idle", "readPullup", "setFlag", "notify", "query", "queryNotify"}

Init ==
  /\ node = [n \in Nodes |-> n \in {"pullup", "data"}]
  /\ mUsbDataEnabled = TRUE
  /\ pc = "idle" /\ op = "none" /\ status = "SUCCESS"
  /\ pollPc = "idle" /\ owner = Free
  /\ seen = [t \in {"binder", "poll"} |-> "none"] /\ reported = "none"
  /\ calls = 0
  /\ diverged = FALSE /\ blind = FALSE /\ pulled = FALSE

-----------------------------------------------------------------------------
(* The calls *)

Call(o, first) ==
  /\ pc = "idle" /\ calls < MaxCalls
  /\ calls' = calls + 1
  /\ op' = o /\ pc' = first
  /\ status' = "SUCCESS"
  /\ blind' = FALSE /\ pulled' = FALSE
  /\ UNCHANGED <<node, mUsbDataEnabled, reportVars, diverged>>

FirstOfEnable == IF mUsbDataEnabled THEN "setFlag" ELSE "readPullup"

EnableUsbData == Call("enable", FirstOfEnable)
DisableUsbData == Call("disable", "readPullup")
EnableUsbDataWhileDocked == Call("docked", "moveData")
ResetUsbPort == Call("reset", "pullup")

Goto(from, to) ==
  /\ pc = from /\ pc' = to
  /\ UNCHANGED <<op, calls, pulled>>

\* What op makes of a node.
Wanted == [n \in Nodes |-> CASE n \in {"pullup", "data"} -> op = "enable"
                             [] n = "vbus" -> FALSE
                             [] OTHER -> TRUE]

AfterPullup == CASE op = "enable" -> "data"
                 [] op = "disable" -> "id"
                 [] OTHER -> "notify"

\* The gadget is left as it is if it is already right, or cannot be read.
ReadPullup ==
  /\ \/ /\ node["pullup"] = Wanted["pullup"]
        /\ Goto("readPullup", AfterPullup)
        /\ UNCHANGED blind
     \/ /\ Goto("readPullup", AfterPullup)
        /\ blind' = TRUE
     \/ /\ node["pullup"] # Wanted["pullup"]
        /\ Goto("readPullup", "pullup")
        /\ UNCHANGED blind
  /\ UNCHANGED <<node, mUsbDataEnabled, status, reportVars, diverged>>

FailureForgotten == status' = "SUCCESS"
WriteFails == status' = "ERROR"

\* WriteStringToFile: a failure is remembered, and the other nodes written.
Write(n, next) ==
  /\ Goto(n, next)
  /\ \/ node' = [node EXCEPT ![n] = Wanted[n]] /\ UNCHANGED status
     \/ WriteFails /\ UNCHANGED node
  /\ UNCHANGED <<mUsbDataEnabled, reportVars, blind, diverged>>

WritePullup == Write("pullup", AfterPullup)
WriteId == Write("id", "vbus")
WriteVbus == Write("vbus", "data")
WriteData == Write("data", "setFlag")
MoveData == Write("moveData", "notify")

\* move_data_to_usb cannot be opened.
NotSupported ==
  /\ Goto("moveData", "notify")
  /\ status' = "NOT_SUPPORTED"
  /\ UNCHANGED <<node, mUsbDataEnabled, reportVars, blind, diverged>>

FlagIfAllSucceeded ==
  mUsbDataEnabled' = IF status = "SUCCESS" THEN op = "enable" ELSE mUsbDataEnabled

\* A call that writes the data node and succeeds brings the two together.
SetFlag ==
  /\ Goto("setFlag", "notify")
  /\ FlagIfAllSucceeded
  /\ diverged' = \/ status = "ERROR"
                 \/ diverged /\ op = "enable" /\ mUsbDataEnabled
  /\ UNCHANGED <<node, status, reportVars, blind>>

NoQueryAfter == "idle"
QueryAfter == IF op = "reset" THEN "idle" ELSE "query"

\* The callback of the call, under mLock.
Notify ==
  /\ owner = Free
  /\ Goto("notify", QueryAfter)
  /\ UNCHANGED <<node, mUsbDataEnabled, status, reportVars, blind, diverged>>

-----------------------------------------------------------------------------
(* queryVersionHelper, in the two threads *)

DataStatus == IF mUsbDataEnabled THEN "ENABLED" ELSE "DISABLED_FORCE"

Read(t) ==
  /\ owner = Free /\ owner' = t
  /\ seen' = [seen EXCEPT ![t] = DataStatus]
  /\ UNCHANGED <<node, mUsbDataEnabled, callVars, reported, diverged, pulled>>

NeverUnlock == UNCHANGED owner
Unlock == owner' = Free

Report(t) ==
  /\ reported' = seen[t]
  /\ Unlock
  /\ UNCHANGED <<node, mUsbDataEnabled, callVars, seen, diverged, pulled>>

Query == pc = "query" /\ pc' = "queryNotify" /\ Read("binder") /\ UNCHANGED pollPc
QueryNotify == pc = "queryNotify" /\ pc' = "idle" /\ Report("binder") /\ UNCHANGED pollPc

\* A uevent asks for it.
PollQuery == pollPc = "idle" /\ pollPc' = "notify" /\ Read("poll") /\ UNCHANGED pc
PollNotify == pollPc = "notify" /\ pollPc' = "idle" /\ Report("poll") /\ UNCHANGED pc

-----------------------------------------------------------------------------
(* Outside the HAL *)

\* UsbGadget::reset, tearDownGadget, setupFunctions and the ffs monitor.
GadgetHalPulls ==
  /\ \E up \in BOOLEAN : node' = [node EXCEPT !["pullup"] = up]
  /\ pulled' = TRUE
  /\ UNCHANGED <<mUsbDataEnabled, pc, callVars, reportVars, diverged>>

\* With connection notification on, the controller follows the cable.
CableChanges ==
  /\ node["data"]
  /\ \E i, v \in BOOLEAN : node' = [node EXCEPT !["id"] = i, !["vbus"] = v]
  /\ UNCHANGED <<mUsbDataEnabled, pc, callVars, reportVars, diverged, pulled>>

\* The process dies at any point, and starts again with mUsbDataEnabled(true).
Restart ==
  /\ calls < MaxCalls
  /\ calls' = calls + 1
  /\ pc' = "idle" /\ op' = "none" /\ status' = "SUCCESS"
  /\ mUsbDataEnabled' = TRUE
  /\ pollPc' = "idle" /\ owner' = Free
  /\ seen' = [t \in {"binder", "poll"} |-> "none"] /\ reported' = "none"
  /\ diverged' = TRUE
  /\ UNCHANGED <<node, blind, pulled>>

-----------------------------------------------------------------------------
Framework == EnableUsbData \/ DisableUsbData \/ EnableUsbDataWhileDocked \/ ResetUsbPort

Binder == \/ ReadPullup \/ WritePullup \/ WriteId \/ WriteVbus \/ WriteData \/ MoveData
          \/ NotSupported \/ SetFlag \/ Notify \/ Query \/ QueryNotify

Next == \/ Framework \/ Binder \/ PollQuery \/ PollNotify
        \/ GadgetHalPulls \/ CableChanges \/ Restart

Spec == Init /\ [][Next]_vars

\* A thread goes on, and gets mLock if it is free again and again.
Fairness == SF_vars(Binder) /\ WF_vars(PollNotify)
FairSpec == Spec /\ Fairness

-----------------------------------------------------------------------------
(* Properties *)

\* Every variable has its type.
TypeOK ==
  /\ node \in [Nodes -> BOOLEAN]
  /\ mUsbDataEnabled \in BOOLEAN
  /\ pc \in Pcs /\ op \in Ops /\ status \in Statuses
  /\ pollPc \in {"idle", "notify"}
  /\ owner \in {Free, "binder", "poll"}
  /\ seen \in [{"binder", "poll"} -> Reports] /\ reported \in Reports
  /\ calls \in 0..MaxCalls
  /\ diverged \in BOOLEAN /\ blind \in BOOLEAN /\ pulled \in BOOLEAN

\* Between two calls mUsbDataEnabled is the state of the data node, unless a
\* call has failed or the HAL was restarted, and no call has made up for it
\* since: every disable that succeeds does, and so does an enable that finds
\* the flag cleared (Usb.cpp:129-175).
FlagIsDataNode == (pc = "idle" /\ ~diverged) => mUsbDataEnabled = node["data"]

Answered(o) == pc \in {"notify", "query", "queryNotify"} /\ op = o /\ status = "SUCCESS"

\* SUCCESS of a disable is true, whatever happened before: connection
\* notification is off, and the gadget is down unless it could not be looked
\* at or the gadget HAL has pulled it up again.  SUCCESS of an enable is true
\* unless the flag and the node had come apart (Usb.cpp:129-170).
SuccessIsTrue ==
  /\ Answered("disable") => /\ ~node["data"]
                            /\ node["pullup"] => blind \/ pulled
  /\ (Answered("enable") /\ ~diverged) => node["data"]

\* Between two calls, and with no report under way, the framework knows the
\* value of mUsbDataEnabled, although the poll thread may have read it before
\* the binder thread changed it (Usb.cpp:173-187, 892).
ReportFollowsFlag ==
  (pc = "idle" /\ owner = Free /\ reported # "none") => reported = DataStatus

\* Every call comes to its end, whatever the poll thread does with mLock.
CallsEnd == pc = "notify" ~> pc = "idle"

=============================================================================
