---------------------------- MODULE UsbData_proofs ----------------------------
(***************************************************************************)
(* The safety properties of UsbData, for every number of calls.            *)
(*                                                                         *)
(* What is true between two calls has to be carried through them:          *)
(* Progress relates the point a call has reached, what its writes have     *)
(* done so far, and mUsbDataEnabled; Told relates mLock, what the threads  *)
(* have read under it and what the framework has been told.                *)
(***************************************************************************)
EXTENDS UsbData, TLAPS

After == {"notify", "query", "queryNotify"}

\* Which calls pass through which steps.
Course ==
  /\ pc \in {"readPullup", "data", "setFlag"} => op \in {"enable", "disable"}
  /\ pc \in {"id", "vbus"} => op = "disable"
  /\ pc = "pullup" => op \in {"enable", "disable", "reset"}
  /\ pc = "moveData" => op = "docked"
  /\ pc \in {"query", "queryNotify"} => op # "reset"
  /\ status = "NOT_SUPPORTED" => op = "docked"

\* The data node is as it was until WriteData; after it, a call without
\* failure has brought node and flag together.
Progress ==
  /\ (~diverged /\ pc # "setFlag") => mUsbDataEnabled = node["data"]
  /\ (pc = "setFlag" /\ status = "SUCCESS" /\ (op = "disable" \/ ~mUsbDataEnabled \/ ~diverged))
       => node["data"] = (op = "enable")
  /\ (pc \in After /\ op = "disable" /\ status = "SUCCESS") => ~node["data"]
  /\ (pc \in After /\ op = "enable" /\ status = "SUCCESS") => mUsbDataEnabled
  /\ (/\ op = "disable" /\ status = "SUCCESS" /\ ~blind /\ ~pulled
      /\ pc \in After \cup {"id", "vbus", "data", "setFlag"}) => ~node["pullup"]

\* The flag has changed and the framework has not heard of it.
Unheard == op \in {"enable", "disable"} /\ pc \in After

Told ==
  /\ owner = "binder" <=> pc = "queryNotify"
  /\ owner = "poll" <=> pollPc = "notify"
  /\ pc = "queryNotify" => seen["binder"] = DataStatus
  /\ ~Unheard => /\ owner = "poll" => seen["poll"] = DataStatus
                 /\ reported \in {"none", DataStatus}

IInv == TypeOK /\ Course /\ Progress /\ Told

-----------------------------------------------------------------------------
(* Types *)

\* The initial state has the types.
LEMMA TypeInit == Init => TypeOK
<1> SUFFICES ASSUME Init PROVE TypeOK
  OBVIOUS
<1>1. node \in [Nodes -> BOOLEAN]
  BY DEF Init
<1>2. seen \in [{"binder", "poll"} -> Reports]
  BY DEF Init, Reports
<1>3. calls \in 0..MaxCalls
  BY MaxCallsAssumption DEF Init
<1>4. /\ mUsbDataEnabled \in BOOLEAN /\ diverged \in BOOLEAN /\ blind \in BOOLEAN
      /\ pulled \in BOOLEAN
  BY DEF Init
<1>5. /\ pc \in Pcs /\ op \in Ops /\ status \in Statuses /\ pollPc \in {"idle", "notify"}
      /\ owner \in {Free, "binder", "poll"} /\ reported \in Reports
  BY DEF Init, Pcs, Ops, Statuses, Reports
<1> QED BY <1>1, <1>2, <1>3, <1>4, <1>5 DEF TypeOK

\* What a query reads and reports has the types.
LEMMA DataStatusType == DataStatus \in Reports
BY DEF DataStatus, Reports

\* A new call keeps the types.
LEMMA TypeCall ==
  ASSUME TypeOK, NEW o \in Ops, NEW first \in Pcs, Call(o, first)
  PROVE  TypeOK'
<1>1. calls' \in 0..MaxCalls
  BY MaxCallsAssumption DEF TypeOK, Call
<1> QED BY <1>1 DEF TypeOK, Call, reportVars, Statuses

\* A write keeps the types.
LEMMA TypeWrite ==
  ASSUME TypeOK, NEW n \in Nodes, NEW next \in Pcs, Write(n, next)
  PROVE  TypeOK'
<1>1. Wanted[n] \in BOOLEAN
  BY DEF Wanted
<1>2. node' \in [Nodes -> BOOLEAN]
  BY <1>1 DEF TypeOK, Write
<1>3. status' \in Statuses
  BY DEF TypeOK, Write, WriteFails, Statuses
<1> QED BY <1>2, <1>3 DEF TypeOK, Write, Goto, reportVars

\* Every step keeps the types.
LEMMA TypeStep == TypeOK /\ [Next]_vars => TypeOK'
<1> SUFFICES ASSUME TypeOK, [Next]_vars PROVE TypeOK'
  OBVIOUS
<1>1. CASE Framework
  <2>1. FirstOfEnable \in Pcs
    BY DEF FirstOfEnable, Pcs
  <2>2. {"readPullup", "moveData", "pullup"} \subseteq Pcs
        /\ {"enable", "disable", "docked", "reset"} \subseteq Ops
    BY DEF Pcs, Nodes, Ops
  <2> QED BY <1>1, <2>1, <2>2, TypeCall
          DEF Framework, EnableUsbData, DisableUsbData, EnableUsbDataWhileDocked, ResetUsbPort
<1>2. AfterPullup \in Pcs
  BY DEF AfterPullup, Pcs, Nodes
<1>3. CASE ReadPullup
  <2>1. pc' = AfterPullup \/ pc' = "pullup"
    BY <1>3 DEF ReadPullup, Goto
  <2>2. blind' \in BOOLEAN
    BY <1>3 DEF ReadPullup, TypeOK
  <2>3. /\ op' = op /\ calls' = calls /\ pulled' = pulled
        /\ UNCHANGED <<node, mUsbDataEnabled, status, reportVars, diverged>>
    BY <1>3 DEF ReadPullup, Goto
  <2>4. "pullup" \in Pcs
    BY DEF Pcs, Nodes
  <2> QED BY <1>2, <2>1, <2>2, <2>3, <2>4 DEF TypeOK, reportVars
<1>4. CASE WritePullup \/ WriteId \/ WriteVbus \/ WriteData \/ MoveData
  <2>1. Nodes \subseteq Pcs /\ {"setFlag", "notify"} \subseteq Pcs
    BY DEF Pcs
  <2>2. {"pullup", "id", "vbus", "data", "moveData"} \subseteq Nodes
    BY DEF Nodes
  <2> QED BY <1>2, <1>4, <2>1, <2>2, TypeWrite
          DEF WritePullup, WriteId, WriteVbus, WriteData, MoveData
<1>5. CASE NotSupported
  BY <1>5 DEF NotSupported, TypeOK, Goto, reportVars, Pcs, Statuses
<1>6. CASE SetFlag
  BY <1>6 DEF SetFlag, FlagIfAllSucceeded, TypeOK, Goto, reportVars, Pcs
<1>7. CASE Notify
  BY <1>7 DEF Notify, QueryAfter, TypeOK, Goto, reportVars, Pcs
<1>8. CASE Query \/ PollQuery
  BY <1>8, DataStatusType DEF Query, PollQuery, Read, TypeOK, callVars, Pcs
<1>9. CASE QueryNotify \/ PollNotify
  BY <1>9 DEF QueryNotify, PollNotify, Report, Unlock, TypeOK, callVars, Pcs, Free
<1>10. CASE GadgetHalPulls
  BY <1>10 DEF GadgetHalPulls, TypeOK, callVars, reportVars
<1>11. CASE CableChanges
  BY <1>11 DEF CableChanges, TypeOK, callVars, reportVars
<1>12. CASE Restart
  BY <1>12, MaxCallsAssumption DEF Restart, TypeOK, Pcs, Ops, Statuses, Reports
<1>13. CASE UNCHANGED vars
  BY <1>13 DEF vars, TypeOK
<1> QED
  BY <1>1, <1>3, <1>4, <1>5, <1>6, <1>7, <1>8, <1>9, <1>10, <1>11, <1>12, <1>13
  DEF Next, Binder

\* Type correctness.
THEOREM TypeCorrect == Spec => []TypeOK
<1> QED BY TypeInit, TypeStep, PTL DEF Spec

-----------------------------------------------------------------------------
(* Courses of the calls *)

\* Every step keeps each call on its course.
LEMMA CourseStep == TypeOK /\ Course /\ [Next]_vars => Course'
<1> SUFFICES ASSUME TypeOK, Course, [Next]_vars PROVE Course'
  OBVIOUS
<1> USE DEF Course
<1>1. CASE Framework
  BY <1>1 DEF Framework, EnableUsbData, DisableUsbData, EnableUsbDataWhileDocked,
              ResetUsbPort, Call, FirstOfEnable
<1>2. CASE ReadPullup \/ WritePullup
  BY <1>2 DEF ReadPullup, WritePullup, Write, WriteFails, Goto, AfterPullup
<1>3. CASE WriteId \/ WriteVbus \/ WriteData \/ MoveData
  BY <1>3 DEF WriteId, WriteVbus, WriteData, MoveData, Write, WriteFails, Goto
<1>4. CASE NotSupported \/ SetFlag \/ Notify
  BY <1>4 DEF NotSupported, SetFlag, Notify, QueryAfter, Goto
<1>5. CASE Query \/ QueryNotify \/ PollQuery \/ PollNotify
  BY <1>5 DEF Query, QueryNotify, PollQuery, PollNotify, Read, Report, callVars
<1>6. CASE GadgetHalPulls \/ CableChanges \/ Restart \/ UNCHANGED vars
  BY <1>6 DEF GadgetHalPulls, CableChanges, Restart, callVars, vars
<1> QED BY <1>1, <1>2, <1>3, <1>4, <1>5, <1>6 DEF Next, Binder

-----------------------------------------------------------------------------
(* What a call has done so far *)

\* Every step keeps the relation of node, flag and point reached.
LEMMA ProgressStep == TypeOK /\ Course /\ Progress /\ [Next]_vars => Progress'
<1> SUFFICES ASSUME TypeOK, Course, Progress, [Next]_vars PROVE Progress'
  OBVIOUS
<1> USE DEF Progress, Course, After
<1>w. /\ op = "enable" => Wanted["data"] = TRUE /\ Wanted["pullup"] = TRUE
      /\ op # "enable" => Wanted["data"] = FALSE /\ Wanted["pullup"] = FALSE
  BY DEF Wanted, Nodes
<1>1. CASE Framework
  BY <1>1 DEF Framework, EnableUsbData, DisableUsbData, EnableUsbDataWhileDocked,
              ResetUsbPort, Call, FirstOfEnable
<1>2. CASE ReadPullup
  BY <1>2, <1>w DEF ReadPullup, Goto, AfterPullup
<1>3. CASE WritePullup
  BY <1>3, <1>w DEF WritePullup, Write, WriteFails, Goto, AfterPullup, TypeOK, Nodes
<1>4. CASE WriteId \/ WriteVbus \/ MoveData
  BY <1>4 DEF WriteId, WriteVbus, MoveData, Write, WriteFails, Goto, TypeOK, Nodes
<1>5. CASE WriteData
  BY <1>5, <1>w DEF WriteData, Write, WriteFails, Goto, TypeOK, Nodes
<1>6. CASE NotSupported
  BY <1>6 DEF NotSupported, Goto
<1>7. CASE SetFlag
  <2>1. status \in {"SUCCESS", "ERROR"} /\ op \in {"enable", "disable"}
    BY <1>7 DEF SetFlag, Goto, TypeOK, Statuses
  <2>2. node' = node /\ status' = status /\ op' = op /\ blind' = blind /\ pulled' = pulled
        /\ pc' = "notify"
    BY <1>7 DEF SetFlag, Goto
  <2>3. CASE status = "ERROR"
    BY <1>7, <2>2, <2>3 DEF SetFlag
  <2>4. CASE status = "SUCCESS"
    <3>1. mUsbDataEnabled' = (op = "enable")
      BY <1>7, <2>4 DEF SetFlag, FlagIfAllSucceeded
    <3>2. ~diverged' => op = "disable" \/ ~mUsbDataEnabled \/ ~diverged
      BY <1>7, <2>1, <2>4 DEF SetFlag
    <3>3. pc = "setFlag"
      BY <1>7 DEF SetFlag, Goto
    <3> QED BY <2>1, <2>2, <2>4, <3>1, <3>2, <3>3
  <2> QED BY <2>1, <2>3, <2>4
<1>8. CASE Notify
  BY <1>8 DEF Notify, QueryAfter, Goto
<1>9. CASE Query \/ QueryNotify \/ PollQuery \/ PollNotify
  BY <1>9 DEF Query, QueryNotify, PollQuery, PollNotify, Read, Report, callVars
<1>10. CASE GadgetHalPulls
  BY <1>10 DEF GadgetHalPulls, callVars, TypeOK, Nodes
<1>11. CASE CableChanges
  BY <1>11 DEF CableChanges, callVars, TypeOK, Nodes
<1>12. CASE Restart \/ UNCHANGED vars
  BY <1>12 DEF Restart, vars
<1> QED
  BY <1>1, <1>2, <1>3, <1>4, <1>5, <1>6, <1>7, <1>8, <1>9, <1>10, <1>11, <1>12
  DEF Next, Binder

-----------------------------------------------------------------------------
(* What the framework is told *)

\* Every step keeps the relation of mLock, the threads' reads and the reports.
LEMMA ToldStep == TypeOK /\ Course /\ Told /\ [Next]_vars => Told'
<1> SUFFICES ASSUME TypeOK, Course, Told, [Next]_vars PROVE Told'
  OBVIOUS
<1> USE DEF Told, Unheard, Course, After, DataStatus
<1>1. CASE Framework
  BY <1>1 DEF Framework, EnableUsbData, DisableUsbData, EnableUsbDataWhileDocked,
              ResetUsbPort, Call, FirstOfEnable, reportVars
<1>2. CASE ReadPullup \/ WritePullup
  BY <1>2 DEF ReadPullup, WritePullup, Write, Goto, AfterPullup, reportVars
<1>3. CASE WriteId \/ WriteVbus \/ WriteData \/ MoveData
  BY <1>3 DEF WriteId, WriteVbus, WriteData, MoveData, Write, Goto, reportVars
<1>4. CASE NotSupported \/ SetFlag
  <2>1. /\ op' = op /\ pc' = "notify"
        /\ pollPc' = pollPc /\ owner' = owner /\ seen' = seen /\ reported' = reported
    BY <1>4 DEF NotSupported, SetFlag, Goto, reportVars
  <2>2. CASE pc = "moveData"
    BY <1>4, <2>1, <2>2 DEF NotSupported, SetFlag, Goto
  <2>3. CASE pc = "setFlag"
    BY <2>1, <2>3
  <2> QED BY <1>4, <2>2, <2>3 DEF NotSupported, SetFlag, Goto
<1>5. CASE Notify
  BY <1>5 DEF Notify, QueryAfter, Goto, reportVars, Free
<1>6. CASE Query
  BY <1>6 DEF Query, Read, callVars, Free, TypeOK
<1>7. CASE QueryNotify
  BY <1>7 DEF QueryNotify, Report, Unlock, callVars, Free, TypeOK
<1>8. CASE PollQuery
  BY <1>8 DEF PollQuery, Read, callVars, Free, TypeOK
<1>9. CASE PollNotify
  BY <1>9 DEF PollNotify, Report, Unlock, callVars, Free, TypeOK
<1>10. CASE GadgetHalPulls \/ CableChanges
  BY <1>10 DEF GadgetHalPulls, CableChanges, callVars, reportVars
<1>11. CASE Restart \/ UNCHANGED vars
  BY <1>11 DEF Restart, vars, reportVars, Free
<1> QED
  BY <1>1, <1>2, <1>3, <1>4, <1>5, <1>6, <1>7, <1>8, <1>9, <1>10, <1>11 DEF Next, Binder

\* The inductive invariant.
THEOREM Invariant == Spec => []IInv
<1>1. Init => IInv
  BY TypeInit DEF Init, IInv, Course, Progress, Told, Unheard, After, Nodes, Free
<1>2. IInv /\ [Next]_vars => IInv'
  BY TypeStep, CourseStep, ProgressStep, ToldStep DEF IInv
<1> QED BY <1>1, <1>2, PTL DEF Spec

-----------------------------------------------------------------------------
(* What follows *)

\* Without a failure or a restart since, mUsbDataEnabled is the state of the
\* data node between two calls (Usb.cpp:129-175).
THEOREM FlagFollowsNode == Spec => []FlagIsDataNode
<1>1. IInv => FlagIsDataNode
  BY DEF IInv, FlagIsDataNode, Progress
<1> QED BY <1>1, Invariant, PTL

\* A disable that answers SUCCESS has switched the data off, and so has an
\* enable switched it on, if flag and node had not come apart before
\* (Usb.cpp:129-170).
THEOREM AnswersAreTrue == Spec => []SuccessIsTrue
<1>1. IInv => SuccessIsTrue
  BY DEF IInv, SuccessIsTrue, Answered, Progress, After
<1> QED BY <1>1, Invariant, PTL

\* No call leaves the framework with an old data status (Usb.cpp:173-187, 892).
THEOREM StatusIsReported == Spec => []ReportFollowsFlag
<1>1. IInv => ReportFollowsFlag
  BY DEF IInv, ReportFollowsFlag, Told, Unheard, After
<1> QED BY <1>1, Invariant, PTL

-----------------------------------------------------------------------------
(* A call comes to its end *)

\* How many steps a call has left at most.
StepsFrom(place) ==
  CASE place = "readPullup" -> 9 [] place = "pullup" -> 8 [] place = "id" -> 7
    [] place = "vbus" -> 6 [] place = "data" -> 5 [] place = "setFlag" -> 4
    [] place = "moveData" -> 4 [] place = "notify" -> 3 [] place = "query" -> 2
    [] place = "queryNotify" -> 1 [] OTHER -> 0
StepsLeft == StepsFrom(pc)

\* A call's own steps bring it nearer to its end, and nobody else takes it
\* further away.
CallGoesOn ==
  /\ Binder => StepsLeft' < StepsLeft
  /\ ~Framework => StepsLeft' <= StepsLeft

\* Who waits for mLock waits for a report that the poll thread is making.
WaitsForReport == owner = Free \/ pollPc = "notify" \/ pc = "queryNotify"

LEMMA StepsFromPlaces ==
  /\ StepsFrom("readPullup") = 9 /\ StepsFrom("pullup") = 8 /\ StepsFrom("id") = 7
  /\ StepsFrom("vbus") = 6 /\ StepsFrom("data") = 5 /\ StepsFrom("setFlag") = 4
  /\ StepsFrom("moveData") = 4 /\ StepsFrom("notify") = 3 /\ StepsFrom("query") = 2
  /\ StepsFrom("queryNotify") = 1 /\ StepsFrom("idle") = 0
BY DEF StepsFrom

LEMMA StepsInRange == pc \in Pcs => StepsLeft \in 0..9
BY StepsFromPlaces DEF Pcs, Nodes, StepsLeft

LEMMA StepOfCall ==
  ASSUME TypeOK, [Next]_vars
  PROVE  [CallGoesOn]_vars
<1> SUFFICES ASSUME Next PROVE CallGoesOn
  BY DEF vars
<1>1. CASE Binder
  <2>1. CASE ReadPullup \/ WritePullup
    BY <2>1, StepsFromPlaces DEF ReadPullup, WritePullup, Goto, Write, AfterPullup, CallGoesOn,
                                 StepsLeft
  <2>2. CASE WriteId \/ WriteVbus \/ WriteData \/ MoveData \/ NotSupported \/ SetFlag
    <3>1. <<pc, pc'>> \in {<<"id", "vbus">>, <<"vbus", "data">>, <<"data", "setFlag">>,
                           <<"moveData", "notify">>, <<"setFlag", "notify">>}
      BY <2>2 DEF WriteId, WriteVbus, WriteData, MoveData, NotSupported, SetFlag, Goto, Write
    <3> QED BY <3>1, StepsFromPlaces DEF CallGoesOn, StepsLeft
  <2>3. CASE Notify \/ Query \/ QueryNotify
    BY <2>3, StepsFromPlaces DEF Notify, Query, QueryNotify, Goto, QueryAfter, CallGoesOn,
                                 StepsLeft
  <2> QED BY <1>1, <2>1, <2>2, <2>3 DEF Binder
<1>2. CASE Framework
  <2>1. pc = "idle" /\ ~Binder
    BY <1>2 DEF Framework, EnableUsbData, DisableUsbData, EnableUsbDataWhileDocked, ResetUsbPort,
                Call, Binder, ReadPullup, WritePullup, WriteId, WriteVbus, WriteData, MoveData,
                NotSupported, SetFlag, Notify, Query, QueryNotify, Goto, Write
  <2> QED BY <1>2, <2>1 DEF CallGoesOn
<1>3. CASE ~Binder /\ (PollQuery \/ PollNotify \/ GadgetHalPulls \/ CableChanges \/ Restart)
  <2>1. pc' = pc \/ pc' = "idle"
    BY <1>3 DEF PollQuery, PollNotify, GadgetHalPulls, CableChanges, Restart
  <2>2. StepsLeft \in 0..9
    BY StepsInRange DEF TypeOK
  <2> QED BY <1>3, <2>1, <2>2, StepsFromPlaces DEF CallGoesOn, StepsLeft
<1> QED BY <1>1, <1>2, <1>3 DEF Next

\* A call has at most nine steps, each of which leaves fewer, whatever fails and
\* whoever meddles with the nodes; and when it finds mLock taken, the poll
\* thread holds it for a report it is about to end (Usb.cpp:124-248).
THEOREM CallsAreBounded ==
  Spec => [](StepsLeft \in 0..9 /\ WaitsForReport) /\ [][CallGoesOn]_vars
<1>1. IInv => StepsLeft \in 0..9 /\ WaitsForReport
  BY StepsInRange DEF IInv, TypeOK, Told, WaitsForReport, Free
<1>2. IInv /\ [Next]_vars => [CallGoesOn]_vars
  BY StepOfCall DEF IInv
<1> QED BY <1>1, <1>2, Invariant, PTL DEF Spec
=============================================================================
