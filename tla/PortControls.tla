---------------------------- MODULE PortControls ----------------------------
(***************************************************************************)
(* The controls of a Type-C port that the USB HAL (usb/usb/Usb.cpp) serves *)
(* by writing nodes of the port controller: the power limit, contaminant   *)
(* detection and the port mode of the extension IUsbExt.                   *)
(*                                                                         *)
(*   binder  the one thread that serves calls, and before the first of     *)
(*           them runs the constructor of UsbExt                           *)
(*   poll    any thread that reports a port status on its own: the poll    *)
(*           thread, or the monitor thread; both do it under mLock         *)
(*                                                                         *)
(* Both look up the number of the i2c bus first (getI2cBusHelper), with    *)
(* strtok, which keeps its place in the text in a static variable.         *)
(* limitPowerTransfer and setPortSecurityState do so without mLock.        *)
(*                                                                         *)
(* A callback is registered throughout (UsbHal has its registration), and  *)
(* the status it is given is the power limit's.                            *)
(***************************************************************************)
EXTENDS Naturals, Sequences

CONSTANT MaxCalls   \* bound: binder calls served

ASSUME MaxCallsAssumption == MaxCalls \in Nat

Threads == {"binder", "poll"}
Free == "free"

\* The nodes of the port controller, by the names Usb.cpp gives their paths,
\* and what is written to them.
Nodes == {"SinkLimitEnable", "SinkLimitCurrent", "SourceLimitEnable",
          "ContaminantDetection", "CcToggleEnable", "DataPathEnable"}
Values == {"-1", "0", "1"}

SecurityStates == {"DISABLED", "CHARGING_ONLY_IMMEDIATE", "CHARGING_ONLY", "ENABLED"}

Call(op, arg) == [op |-> op, arg |-> arg]
Calls ==
  {Call(op, b) : op \in {"limitPowerTransfer", "enableContaminantPresenceDetection"},
                 b \in {"0", "1"}}
  \cup {Call("setPortSecurityState", s) : s \in SecurityStates}

\* By persist.security.usb_mode.  MODE_DISABLED asks for nothing.
ConstructorCalls == {Call("setPortSecurityState", s) :
                       s \in {"CHARGING_ONLY_IMMEDIATE", "ENABLED"}}

W(n, v) == [node |-> n, value |-> v]

\* The operands of "&" in their order, as the compiler evaluates them; C++
\* leaves it open, and no property depends on it.
SecurityWrites ==
  [s \in SecurityStates |->
     CASE s = "DISABLED" -> <<W("CcToggleEnable", "0"), W("DataPathEnable", "0")>>
       [] s = "CHARGING_ONLY_IMMEDIATE" ->
            <<W("DataPathEnable", "0"), W("CcToggleEnable", "1")>>
       [] s = "CHARGING_ONLY" -> <<W("DataPathEnable", "-1"), W("CcToggleEnable", "1")>>
       [] s = "ENABLED" -> <<W("DataPathEnable", "1"), W("CcToggleEnable", "1")>>]
LimitFormatted(v) == LET b == IF v = "1" THEN "true" ELSE "false"
                     IN <<W("SinkLimitEnable", b), W("SourceLimitEnable", b)>>
LimitWrites(v) ==
  IF v = "1"
  THEN <<W("SinkLimitCurrent", "0"), W("SinkLimitEnable", v), W("SourceLimitEnable", v)>>
  ELSE <<W("SinkLimitEnable", v), W("SourceLimitEnable", v)>>

\* What a call writes, in its order.
WritesOf(c) == CASE c.op = "limitPowerTransfer" -> LimitWrites(c.arg)
                 [] c.op = "setPortSecurityState" -> SecurityWrites[c.arg]
                 [] c.op = "enableContaminantPresenceDetection" ->
                      <<W("ContaminantDetection", c.arg)>>
                 [] OTHER -> <<>>

VARIABLES
  pc,           \* per thread: where it is; "dead" is a process that has crashed
  mLock,        \* the thread that holds it, or Free
  last,         \* strtok's static variable: "null", or where the text goes on:
                \* "bus", "partner", or "freed" memory
  path,         \* per thread: the result of its last lookup, "none" if
                \* it found nothing and "wrong" if it is not the bus
  enabledPath,  \* the global of that name, likewise; "torn" while assigned
  call,         \* the call the binder thread serves, or has served last
  todo,         \* what it has yet to write
  calls         \* calls served so far

VARIABLES
  node,         \* the nodes of the port controller
  forbidden     \* vendor.usb.contaminantdisable: "no", "set", or "done" once
                \* init's script has run

\* What an observer of the calls and of the node writes sees.
VARIABLES
  refused,      \* nodes the call could not write
  told,         \* what the call's caller was told, "none" before that
  reported,     \* the last status of this process: {}, or the power limit and
                \* whether it was read
  late,         \* detection writes since the property is set
  met           \* per thread: its lookup met another thread's, and one of the
                \* two did not hold mLock

lockVars == <<mLock, last, path, enabledPath>>
callVars == <<call, todo, refused, told>>
kernelVars == <<node, forbidden, late>>
vars == <<pc, mLock, last, path, enabledPath, call, todo, calls, node, forbidden,
          refused, told, reported, late, met>>

FindPcs == {"findBus", "findMoisture", "findPower"}
TokenPcs == {"busToken", "moistureToken", "powerToken"}
CallPcs == {"idle", "property", "lock", "write"}
\* queryVersionHelper, with mLock
QueryPcs == {"names", "closeNames", "findMoisture", "moistureToken", "assign",
             "findPower", "powerToken", "report"}
Pcs == CallPcs \cup QueryPcs \cup {"findBus", "busToken", "query", "dead"}

NoCall == Call("none", "none")

\* The process starts: main constructs Usb, then UsbExt.
Start(c) ==
  /\ pc = [t \in Threads |-> IF t = "binder" /\ c # NoCall THEN "findBus" ELSE "idle"]
  /\ mLock = Free /\ last = "null"
  /\ path = [t \in Threads |-> "none"] /\ enabledPath = "none"
  /\ call = c /\ todo = WritesOf(c) /\ refused = {} /\ told = "none"
  /\ reported = {}
  /\ met = [t \in Threads |-> FALSE]

Init ==
  /\ \E c \in ConstructorCalls \cup {NoCall} : Start(c)
  /\ node = [n \in Nodes |-> IF n \in {"SinkLimitEnable", "SourceLimitEnable"} THEN "0" ELSE "1"]
  /\ forbidden = "no" /\ late = 0 /\ calls = 0

-----------------------------------------------------------------------------
(* Helpers *)

Running == \A t \in Threads : pc[t] # "dead"
Goto(t, from, to) == Running /\ pc[t] = from /\ pc' = [pc EXCEPT ![t] = to]
Forget(t) == path' = [path EXCEPT ![t] = "none"] /\ met' = [met EXCEPT ![t] = FALSE]

\* Between its two calls of strtok.
InLookup(t) == pc[t] \in TokenPcs
WithoutLock(t) == pc[t] \in {"findBus", "busToken"}

\* t calls strtok with a text; fresh when it begins a lookup.
Meet(t, fresh) ==
  LET others == {u \in Threads \ {t} : InLookup(u) /\ (WithoutLock(t) \/ WithoutLock(u))}
  IN met' = [u \in DOMAIN met |-> CASE u \in others -> TRUE
                                    [] u = t /\ fresh -> others # {}
                                    [] OTHER -> met[u]]

-----------------------------------------------------------------------------
(* getI2cBusHelper, in both threads *)

LookupUnchanged == UNCHANGED <<mLock, enabledPath, callVars, calls, kernelVars, reported>>

TokenPc == [p \in FindPcs |-> CASE p = "findBus" -> "busToken"
                                [] p = "findMoisture" -> "moistureToken"
                                [] p = "findPower" -> "powerToken"]
AfterBus == IF call.op = "limitPowerTransfer" THEN "lock" ELSE "write"
AfterLookup(p) == CASE p \in {"findBus", "busToken"} -> AfterBus
                    [] p \in {"findMoisture", "moistureToken"} -> "assign"
                    [] p \in {"findPower", "powerToken"} -> "report"

\* opendir fails, which only setPortSecurityState looks at (NoPath), or there
\* is no bus in the directory.
FindFails(t) ==
  /\ pc[t] \in FindPcs
  /\ Goto(t, pc[t], AfterLookup(pc[t]))
  /\ Forget(t)
  /\ UNCHANGED last
  /\ LookupUnchanged

\* strtok of the directory's name, "i2c-<number>".
FirstToken(t) ==
  /\ pc[t] \in FindPcs
  /\ Goto(t, pc[t], TokenPc[pc[t]])
  /\ last' = "bus"
  /\ path' = [path EXCEPT ![t] = "none"]
  /\ Meet(t, TRUE)
  /\ LookupUnchanged

\* strtok of NULL: what follows the last "-" that any thread has come to.
\* From NULL no string can be assigned.
SecondToken(t) ==
  /\ InLookup(t)
  /\ \/ /\ last = "null"
        /\ Goto(t, pc[t], "dead")
        /\ UNCHANGED <<last, path>>
     \/ /\ last # "null"
        /\ Goto(t, pc[t], AfterLookup(pc[t]))
        /\ last' \in {"null"} \cup ({last} \cap {"freed"})
        /\ path' = [path EXCEPT ![t] = IF last = "bus" THEN "bus" ELSE "wrong"]
  /\ UNCHANGED met
  /\ LookupUnchanged

-----------------------------------------------------------------------------
(* queryVersionHelper, in both threads *)

QueryUnchanged == UNCHANGED <<callVars, calls, kernelVars>>

\* A uevent or a compliance warning makes a thread report by itself.
Uevent ==
  /\ Goto("poll", "idle", "query")
  /\ UNCHANGED <<lockVars, reported, met>>
  /\ QueryUnchanged

QueryWithoutLock(t) == UNCHANGED mLock
LockForQuery(t) == mLock = Free /\ mLock' = t

BeginQuery(t) ==
  /\ Goto(t, "query", "names")
  /\ LockForQuery(t)
  /\ UNCHANGED <<last, path, enabledPath, reported, met>>
  /\ QueryUnchanged

\* getTypeCPortNamesHelper: strtok of "<port>-partner", if there is one, whose
\* text is freed when the directory is closed.
PortNames(t) ==
  /\ Goto(t, "names", "closeNames")
  /\ last' = "partner"
  /\ Meet(t, FALSE)
  /\ UNCHANGED <<mLock, path, enabledPath, reported>>
  /\ QueryUnchanged

CloseNames(t) ==
  /\ Goto(t, "closeNames", "findMoisture") \/ Goto(t, "names", "findMoisture")
  /\ last' = IF last = "partner" THEN "freed" ELSE last
  /\ UNCHANGED <<mLock, path, enabledPath, reported, met>>
  /\ QueryUnchanged

\* queryMoistureDetectionStatus
Assign(t) ==
  /\ Goto(t, "assign", "findPower")
  /\ enabledPath' = path[t]
  /\ UNCHANGED <<mLock, last, path, reported, met>>
  /\ QueryUnchanged

\* queryPowerTransferStatus, notifyPortStatusChange, and mLock is released.  A
\* limit that cannot be read is reported as off.
Report(t) ==
  /\ Goto(t, "report", "idle")
  /\ mLock' = Free
  /\ \/ /\ path[t] = "bus"
        /\ reported' = {[limited |-> node["SinkLimitEnable"] = "1", read |-> TRUE]}
     \/ reported' = {[limited |-> FALSE, read |-> FALSE]}
  /\ Forget(t)
  /\ UNCHANGED <<last, enabledPath>>
  /\ QueryUnchanged

-----------------------------------------------------------------------------
(* binder: limitPowerTransfer, enableContaminantPresenceDetection and         *)
(* setPortSecurityState                                                       *)

FirstOf(op) == IF op = "enableContaminantPresenceDetection" THEN "property" ELSE "findBus"

Receive ==
  /\ calls < MaxCalls
  /\ calls' = calls + 1
  /\ call' \in Calls
  /\ todo' = WritesOf(call')
  /\ refused' = {} /\ told' = "none"
  /\ Goto("binder", "idle", FirstOf(call'.op))
  /\ UNCHANGED <<lockVars, kernelVars, reported, met>>

CallUnchanged == UNCHANGED <<last, enabledPath, call, calls, forbidden, reported>>

\* ERROR_NO_I2C_PATH
NoPath ==
  /\ Goto("binder", "findBus", "idle")
  /\ call.op = "setPortSecurityState"
  /\ told' = "NO_I2C_PATH"
  /\ todo' = <<>>
  /\ Forget("binder")
  /\ UNCHANGED <<mLock, refused, node, late>>
  /\ CallUnchanged

LockForLimit ==
  /\ Goto("binder", "lock", "write")
  /\ mLock = Free /\ mLock' = "binder"
  /\ UNCHANGED <<path, todo, refused, told, node, late, met>>
  /\ CallUnchanged

NeverForbids == todo
UnlessForbidden == IF forbidden = "no" THEN todo ELSE <<>>

ReadProperty ==
  /\ Goto("binder", "property", "write")
  /\ todo' = UnlessForbidden
  /\ UNCHANGED <<mLock, path, refused, told, node, late, met>>
  /\ CallUnchanged

\* enabledPath is used with no lock; while a query assigns it, what it is or
\* was, or anything else, may be opened.
CanWrite == IF call.op = "enableContaminantPresenceDetection"
            THEN enabledPath = "bus" \/ pc["poll"] = "assign"
            ELSE path["binder"] = "bus"

TillOneFails == <<>>
NextWrites == Tail(todo)

\* One node after the other: each is tried, whatever became of those before.
Write ==
  /\ todo # <<>>
  /\ Goto("binder", "write", "write")
  /\ LET w == Head(todo) IN
     \/ /\ CanWrite
        /\ node' = [node EXCEPT ![w.node] = w.value]
        /\ late' = IF w.node = "ContaminantDetection" /\ forbidden # "no"
                   THEN late + 1 ELSE late
        /\ todo' = Tail(todo)
        /\ UNCHANGED refused
     \/ /\ refused' = refused \cup {w.node}
        /\ todo' = NextWrites
        /\ UNCHANGED <<node, late>>
  /\ UNCHANGED <<mLock, path, told, met>>
  /\ CallUnchanged

AlwaysSuccess == "SUCCESS"
Result == IF refused = {} THEN "SUCCESS" ELSE "ERROR"

NoQueryAfter == "idle"
QueryAfter == "query"

\* notifyLimitPowerTransferStatus, still with mLock, which a transaction below
\* 0 goes without, or notifyContaminantEnabledStatus with mLock taken for it.
Notify ==
  /\ todo = <<>>
  /\ \/ call.op = "limitPowerTransfer"
     \/ call.op = "enableContaminantPresenceDetection" /\ mLock = Free
  /\ Goto("binder", "write", QueryAfter)
  /\ mLock' = Free
  /\ \/ told' = Result
     \/ call.op = "limitPowerTransfer" /\ told' = "none"
  /\ Forget("binder")
  /\ UNCHANGED <<todo, refused, node, late>>
  /\ CallUnchanged

\* setPortSecurityState returns; nothing is reported.
Return ==
  /\ todo = <<>>
  /\ call.op = "setPortSecurityState"
  /\ Goto("binder", "write", "idle")
  /\ told' = Result
  /\ Forget("binder")
  /\ UNCHANGED <<mLock, todo, refused, node, late>>
  /\ CallUnchanged

-----------------------------------------------------------------------------
(* init *)

\* The property is set; later its trigger runs disable_contaminant_detection.sh.
Forbid ==
  /\ \/ forbidden = "no" /\ forbidden' = "set" /\ UNCHANGED node
     \/ /\ forbidden = "set" /\ forbidden' = "done"
        /\ node' = [node EXCEPT !["ContaminantDetection"] = "0"]
  /\ UNCHANGED <<pc, lockVars, callVars, calls, late, reported, met>>

\* The service dies, at any point, and is started again.
Restart ==
  /\ call' \in ConstructorCalls \cup {NoCall}
  /\ pc' = [t \in Threads |-> IF t = "binder" /\ call' # NoCall THEN "findBus" ELSE "idle"]
  /\ mLock' = Free /\ last' = "null"
  /\ path' = [t \in Threads |-> "none"] /\ enabledPath' = "none"
  /\ todo' = WritesOf(call') /\ refused' = {} /\ told' = "none"
  /\ reported' = {}
  /\ met' = [t \in Threads |-> FALSE]
  /\ UNCHANGED <<calls, kernelVars>>

-----------------------------------------------------------------------------
Lookup(t) == FindFails(t) \/ FirstToken(t) \/ SecondToken(t)
Query(t) == BeginQuery(t) \/ PortNames(t) \/ CloseNames(t) \/ Assign(t) \/ Report(t)

Next ==
  \/ \E t \in Threads : Lookup(t) \/ Query(t)
  \/ Uevent \/ Receive \/ NoPath \/ LockForLimit \/ ReadProperty \/ Write \/ Notify \/ Return
  \/ Forbid \/ Restart

Spec == Init /\ [][Next]_vars

-----------------------------------------------------------------------------
(* Properties *)

\* Every variable has its type.
TypeOK ==
  /\ pc \in [Threads -> Pcs]
  /\ mLock \in Threads \cup {Free}
  /\ last \in {"null", "bus", "partner", "freed"}
  /\ path \in [Threads -> {"none", "bus", "wrong"}]
  /\ enabledPath \in {"none", "bus", "wrong"}
  /\ call \in Calls \cup {NoCall} /\ calls \in 0..MaxCalls
  /\ todo \in Seq([node : Nodes, value : Values])
  /\ node \in [Nodes -> Values]
  /\ forbidden \in {"no", "set", "done"}
  /\ refused \in SUBSET Nodes
  /\ told \in {"none", "SUCCESS", "ERROR", "NO_I2C_PATH"}
  /\ reported \in SUBSET [limited : BOOLEAN, read : BOOLEAN]
  /\ late \in Nat
  /\ met \in [Threads -> BOOLEAN]

\* A lookup finds another bus, or brings the process down, only if it met a
\* lookup made without mLock: those made under it do not disturb each other
\* (Usb.cpp:261, 778).
LookupWrongOnlyIfMet ==
  \A t \in Threads : pc[t] = "dead" \/ path[t] = "wrong" => met[t]

Set(w) == node[w.node] = w.value
Asked(c) == {WritesOf(c)[i] : i \in DOMAIN WritesOf(c)}

\* Once a call's caller has been told how it ended, every node the call is for
\* has its value if it was told SUCCESS, and every node that could be written
\* has if it was told ERROR; but for contaminant detection that was forbidden
\* (Usb.cpp:665, 993, 1277).
ToldIsTrue ==
  told \in {"SUCCESS", "ERROR"} =>
    \A w \in Asked(call) :
      \/ Set(w)
      \/ told = "ERROR" /\ w.node \in refused
      \/ w.node = "ContaminantDetection" /\ forbidden # "no"

\* Between calls the last status the framework was given has the power limit
\* of the sink, unless it could not be read (Usb.cpp:692).
ReportedLimitIsCurrent ==
  (pc["binder"] = "idle" /\ mLock = Free) =>
    \A r \in reported : r.read => r.limited = (node["SinkLimitEnable"] = "1")

\* Once contaminant detection is forbidden, one call, which had read the
\* property before, may still write it; without such a write it is off after
\* the script (Usb.cpp:988).
ForbiddenStaysOff ==
  /\ late <= 1
  /\ forbidden = "done" /\ late = 0 => node["ContaminantDetection"] = "0"

=============================================================================
