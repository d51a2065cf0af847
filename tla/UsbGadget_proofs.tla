--------------------------- MODULE UsbGadget_proofs ---------------------------
(***************************************************************************)
(* The safety properties of UsbGadget, for all sets of requests, vendor    *)
(* functions and numbers of calls.                                         *)
(*                                                                         *)
(* What holds between requests has to be carried through them: Course says *)
(* at which points a request can be, Watching what the monitor is up to    *)
(* there, TornDown and Shown what the gadget looks like, Applied what      *)
(* mCurrentUsbFunctionsApplied means, and Told what the callback heard.    *)
(***************************************************************************)
EXTENDS UsbGadget, TLAPS

Resetting == {"resetGadget", "resetMonitor"}
Waiting == {"waitForPullUp", "pulledUp", "timedOut"}
Working == {"vidPid", "setup", "pullUp", "startMonitor", "core", "limit"} \cup Waiting
AtRest == {"idle", "pullUpAgain"}

Course ==
  /\ pc = "none" => mCurrentUsbFunctions = {}
  /\ pc \in Working => mCurrentUsbFunctions # {}
  /\ pc \in Working \cup Resetting \cup {"none"} => known
  /\ pc = "error" => status # "SUCCESS" /\ (mCurrentUsbFunctions = {} => ~known)
  /\ pc \in Waiting => callback

\* The monitor stands still while the gadget is put together; what it has
\* pulled up is up, until it takes that back.
Watching ==
  /\ pc \in {"none", "vidPid", "setup", "pullUp", "startMonitor"} => monitor = "off"
  /\ monitor = "off" => ~gadgetPullup
  /\ monitor = "announceUp" => gadgetPullup
  /\ (gadgetPullup /\ known /\ ~pulled /\ pc \notin Resetting \cup {"pullUpAgain"}) => pullup
  /\ (pc = "pulledUp" /\ ~pulled /\ ~lost) => gadgetPullup

\* Nothing is linked, so nobody can pull the gadget up.
TornDown ==
  (\/ pc \in {"resetMonitor", "none", "vidPid", "setup"}
   \/ pc \in AtRest /\ known /\ mCurrentUsbFunctions = {})
     => links = <<>> /\ ~pullup

NoneUnwatched == (pc \in AtRest /\ known /\ mCurrentUsbFunctions = {}) => monitor = "off"

ProductFits == \E v \in read : <<mCurrentUsbFunctions, product>> \in ProductsOf(v)
LinksFit == \E v \in read : links = LinksOf(mCurrentUsbFunctions, v)

\* The gadget is as asked for, or nobody pulls it up but a reset or the USB HAL.
Shown ==
  /\ pc = "setup" => ProductFits
  /\ pc \in {"pullUp", "startMonitor", "core", "limit"} \cup Waiting => ProductFits /\ LinksFit
  /\ (pc \in AtRest \cup {"error"} /\ known)
       => \/ ProductFits /\ LinksFit
          \/ monitor = "off" /\ (pullup \/ pc = "pullUpAgain" => pulled)

Applied ==
  /\ (pc \in Resetting /\ ~late) => ~mCurrentUsbFunctionsApplied
  /\ (mCurrentUsbFunctionsApplied /\ known /\ ~late /\ ~pulled /\ pc # "pullUpAgain")
       => pullup \/ monitor = "announceDown"

Told ==
  /\ pc \notin AtRest \cup {"core", "limit", "error"} => notified = 0
  /\ pc = "error" => notified \in {0, 1}
  /\ ~refused => notified = (IF callback /\ pc \in AtRest \cup {"core", "limit"} THEN 1 ELSE 0)

Safe == /\ Course /\ Watching /\ TornDown /\ NoneUnwatched /\ Shown /\ Applied /\ Told
        /\ LeftoversGone
IInv == TypeOK /\ Safe

-----------------------------------------------------------------------------
(* Types *)

Linkable == Functions \cup {"acm", "dm", "etr_miu", "uwb_acm"}

\* What is linked for a request has its type.
LEMMA LinksType ==
  ASSUME NEW f \in SUBSET Functions, NEW v \in Vendors
  PROVE  LinksOf(f, v) \in Seq(Linkable)
<1>1. \A x \in Linkable : <<x>> \in Seq(Linkable)
  OBVIOUS
<1>2. <<>> \in Seq(Linkable)
  OBVIOUS
<1>3. \A s, t \in Seq(Linkable) : s \o t \in Seq(Linkable)
  OBVIOUS
<1>4. \A g \in Linkable : If(g \in f, g) \in Seq(Linkable)
  BY <1>1, <1>2 DEF If
<1>5. Functions \subseteq Linkable
  BY DEF Linkable
<1>6. Generic(f) \in Seq(Linkable)
  <2>1. /\ "MTP" \in Linkable /\ "PTP" \in Linkable /\ "MIDI" \in Linkable
        /\ "ACCESSORY" \in Linkable /\ "AUDIO_SOURCE" \in Linkable /\ "RNDIS" \in Linkable
        /\ "UVC" \in Linkable
    BY <1>5 DEF Functions
  <2> HIDE DEF Linkable
  <2> QED BY <2>1, <1>3, <1>4 DEF Generic
<1>7. VendorLinks(f, v) \in Seq(Linkable)
  <2>1. <<"acm", "dm">> \in Seq(Linkable) /\ <<"dm", "acm">> \in Seq(Linkable)
    BY DEF Linkable
  <2>2. \A x \in {"etr_miu", "uwb_acm"} : <<x>> \in Seq(Linkable)
    BY <1>1 DEF Linkable
  <2>3. CASE v = "dm"
    BY <2>1, <2>3 DEF VendorLinks
  <2>4. CASE v \in {"etr_miu", "uwb_acm"}
    <3>1. VendorLinks(f, v) = <<v>>
      BY <2>4 DEF VendorLinks
    <3> QED BY <2>2, <2>4, <3>1
  <2>5. CASE v \notin {"dm", "etr_miu", "uwb_acm"}
    <3>1. VendorLinks(f, v) = <<>>
      BY <2>5 DEF VendorLinks
    <3> QED BY <1>2, <3>1
  <2> QED BY <2>3, <2>4, <2>5
<1>8. "NCM" \in Linkable /\ "ADB" \in Linkable
  BY <1>5 DEF Functions
<1>9. /\ If("NCM" \in f /\ v # "dm", "NCM") \in Seq(Linkable)
      /\ If("NCM" \in f /\ v = "dm", "NCM") \in Seq(Linkable)
  BY <1>1, <1>2, <1>8 DEF If
<1> QED BY <1>3, <1>4, <1>6, <1>7, <1>8, <1>9 DEF LinksOf

\* A product of the table is a product.
LEMMA ProductType ==
  ASSUME NEW v \in Vendors, NEW e \in ProductsOf(v)
  PROVE  e[2] \in Products
BY DEF Products

\* The initial state has the types.
LEMMA TypeInit == Init => TypeOK
<1> SUFFICES ASSUME Init PROVE TypeOK
  OBVIOUS
<1>1. mCurrentUsbFunctions \in SUBSET Functions /\ calls \in 0..MaxCalls
  BY RequestsAssumption, MaxCallsAssumption DEF Init
<1>2. links \in Seq(Linkable)
  BY DEF Init
<1>3. /\ callback \in BOOLEAN /\ gadgetPullup \in BOOLEAN /\ pullup \in BOOLEAN
      /\ limitSet \in BOOLEAN /\ limitOn \in BOOLEAN /\ settled \subseteq {"core", "limit"}
      /\ mGadgetIrqPath \in BOOLEAN /\ core \in {"any", "medium", "big"}
      /\ known \in BOOLEAN /\ late \in BOOLEAN /\ pulled \in BOOLEAN /\ lost \in BOOLEAN
      /\ refused \in BOOLEAN
  BY DEF Init
<1>4. /\ pc \in Pcs /\ status \in Statuses /\ told \in Statuses \cup {"none"}
      /\ notified \in 0..2 /\ read \subseteq Vendors /\ product \in Products
  BY DEF Init, Pcs, Statuses, Products
<1>5. /\ mCurrentUsbFunctionsApplied \in BOOLEAN /\ descriptors \in BOOLEAN /\ vendor \in Vendors
      /\ monitor = "off"
  BY DEF Init
<1> QED BY <1>1, <1>2, <1>3, <1>4, <1>5 DEF TypeOK, Linkable

\* The types by group of variables.
HalTypes == mCurrentUsbFunctions \in SUBSET Functions /\ mCurrentUsbFunctionsApplied \in BOOLEAN
CallTypes == callback \in BOOLEAN /\ status \in Statuses /\ calls \in 0..MaxCalls
MonitorTypes ==
  monitor \in {"off", "watch", "announceUp", "announceDown"} /\ gadgetPullup \in BOOLEAN
GadgetTypes == pullup \in BOOLEAN /\ links \in Seq(Linkable) /\ product \in Products
CoreTypes == mGadgetIrqPath \in BOOLEAN /\ core \in {"any", "medium", "big"}
LimitTypes == limitSet \in BOOLEAN /\ limitOn \in BOOLEAN /\ settled \subseteq {"core", "limit"}
EnvTypes == descriptors \in BOOLEAN /\ vendor \in Vendors
DoubtTypes ==
  known \in BOOLEAN /\ late \in BOOLEAN /\ pulled \in BOOLEAN /\ lost \in BOOLEAN
NoticeTypes == notified \in 0..2 /\ told \in Statuses \cup {"none"} /\ refused \in BOOLEAN
PcType == pc \in Pcs
ReadType == read \subseteq Vendors

\* They are what TypeOK says.
LEMMA TypeGroups ==
  TypeOK <=> /\ HalTypes /\ CallTypes /\ MonitorTypes /\ GadgetTypes
             /\ CoreTypes /\ LimitTypes /\ EnvTypes
             /\ DoubtTypes /\ NoticeTypes /\ PcType /\ ReadType
BY Zenon DEF TypeOK, HalTypes, CallTypes, MonitorTypes, GadgetTypes, CoreTypes, LimitTypes,
             EnvTypes, DoubtTypes, NoticeTypes, PcType, ReadType, Linkable

\* They are so after a step, too.
LEMMA TypeGroupsAfter ==
  (/\ HalTypes /\ CallTypes /\ MonitorTypes /\ GadgetTypes
   /\ CoreTypes /\ LimitTypes /\ EnvTypes
   /\ DoubtTypes /\ NoticeTypes /\ PcType /\ ReadType)' => TypeOK'
<1>1. (/\ HalTypes /\ CallTypes /\ MonitorTypes /\ GadgetTypes
       /\ CoreTypes /\ LimitTypes /\ EnvTypes
       /\ DoubtTypes /\ NoticeTypes /\ PcType /\ ReadType) => TypeOK
  BY TypeGroups
<1> QED BY <1>1, PTL

\* A group that a step leaves alone keeps its types.
LEMMA TypeUnchanged ==
  ASSUME TypeOK
  PROVE  /\ UNCHANGED halVars => HalTypes'
         /\ UNCHANGED callVars => CallTypes'
         /\ UNCHANGED monitorVars => MonitorTypes'
         /\ UNCHANGED gadgetVars => GadgetTypes'
         /\ UNCHANGED coreVars => CoreTypes'
         /\ UNCHANGED limitVars => LimitTypes'
         /\ UNCHANGED envVars => EnvTypes'
         /\ UNCHANGED doubtVars => DoubtTypes'
         /\ UNCHANGED noticeVars => NoticeTypes'
         /\ UNCHANGED read => ReadType'
         /\ UNCHANGED pc => PcType'
<1>1. UNCHANGED halVars => HalTypes'
  BY TypeGroups DEF halVars, HalTypes
<1>2. UNCHANGED callVars => CallTypes'
  BY TypeGroups DEF callVars, CallTypes
<1>3. UNCHANGED monitorVars => MonitorTypes'
  BY TypeGroups DEF monitorVars, MonitorTypes
<1>4. UNCHANGED gadgetVars => GadgetTypes'
  BY TypeGroups DEF gadgetVars, GadgetTypes
<1>13. UNCHANGED coreVars => CoreTypes'
  BY TypeGroups DEF coreVars, CoreTypes
<1>5. UNCHANGED limitVars => LimitTypes'
  BY TypeGroups DEF limitVars, LimitTypes
<1>6. UNCHANGED envVars => EnvTypes'
  BY TypeGroups DEF envVars, EnvTypes
<1>7. UNCHANGED doubtVars => DoubtTypes'
  BY TypeGroups DEF doubtVars, DoubtTypes
<1>8. UNCHANGED noticeVars => NoticeTypes'
  BY TypeGroups DEF noticeVars, NoticeTypes
<1>11. UNCHANGED read => ReadType'
  BY TypeGroups DEF ReadType
<1>12. UNCHANGED pc => PcType'
  BY TypeGroups DEF PcType
<1> QED BY <1>1, <1>2, <1>3, <1>4, <1>5, <1>6, <1>7, <1>8, <1>11, <1>12, <1>13

\* A call of the callback keeps the types: Told bounds their number.
LEMMA TypeNotify ==
  ASSUME TypeOK, NEW what \in Statuses, notified \in {0, 1}, Notify(what)
  PROVE  notified' \in 0..2 /\ told' \in Statuses \cup {"none"} /\ refused' \in BOOLEAN
<1>1. notified' \in 0..2
  BY DEF Notify
<1>2. refused' \in BOOLEAN
  BY DEF Notify, TypeOK
<1> QED BY <1>1, <1>2 DEF Notify

\* So do the steps of setCurrentUsbFunctions.
LEMMA TypeSetFunctions == ASSUME TypeOK, Told, SetFunctions PROVE TypeOK'
<1> USE DEF Go, Fail
<1> USE TypeUnchanged
<1>0. /\ HalTypes /\ CallTypes /\ MonitorTypes /\ GadgetTypes
      /\ CoreTypes /\ LimitTypes /\ EnvTypes
      /\ DoubtTypes /\ NoticeTypes /\ PcType /\ ReadType
  BY TypeGroups
<1>s. SUFFICES /\ HalTypes' /\ CallTypes' /\ MonitorTypes' /\ GadgetTypes'
               /\ CoreTypes' /\ LimitTypes'
               /\ EnvTypes' /\ DoubtTypes' /\ NoticeTypes' /\ PcType' /\ ReadType'
  BY TypeGroupsAfter
<1>1. CASE resetGadget
  <2>1. GadgetTypes'
    <3>1. pullup' \in BOOLEAN
      BY <1>0, <1>1 DEF resetGadget, GadgetTypes
    <3>2. links' \in Seq(Linkable)
      <4>1. links' = <<>> \/ links' = links
        BY <1>1 DEF resetGadget
      <4>2. <<>> \in Seq(Linkable)
        OBVIOUS
      <4> QED BY <1>0, <4>1, <4>2 DEF GadgetTypes
    <3> QED BY <1>0, <1>1, <3>1, <3>2 DEF resetGadget, GadgetTypes
  <2>2. DoubtTypes'
    BY <1>0, <1>1 DEF resetGadget, DoubtTypes
  <2>3. PcType' /\ CallTypes'
    BY <1>0, <1>1 DEF resetGadget, PcType, CallTypes, Pcs, Statuses
  <2> QED BY <1>1, <2>1, <2>2, <2>3 DEF resetGadget
<1>2. CASE resetMonitor
  <2>1. PcType'
    BY <1>2 DEF resetMonitor, AfterTearDown, PcType, Pcs
  <2>2. MonitorTypes'
    BY <1>2 DEF resetMonitor, StopMonitor, MonitorTypes
  <2> QED BY <1>2, <2>1, <2>2 DEF resetMonitor
<1>3. CASE SetNone
  <2>1. NoticeTypes'
    <3>1. CASE callback
      BY <1>3, <3>1, TypeNotify DEF SetNone, Told, AtRest, Statuses, NoticeTypes
    <3>2. CASE ~callback
      BY <1>3, <3>2 DEF SetNone
    <3> QED BY <3>1, <3>2
  <2>2. PcType'
    BY <1>3 DEF SetNone, PcType, Pcs
  <2> QED BY <1>3, <2>1, <2>2 DEF SetNone
<1>4. CASE validateAndSetVidPid
  <2>1. GadgetTypes'
    <3>1. product' \in Products
      BY <1>0, <1>4, ProductType DEF validateAndSetVidPid, GadgetTypes, EnvTypes
    <3> QED BY <1>0, <1>4, <3>1 DEF validateAndSetVidPid, GadgetTypes
  <2>2. PcType' /\ CallTypes'
    BY <1>0, <1>4 DEF validateAndSetVidPid, PcType, CallTypes, Pcs, Statuses
  <2>3. ReadType'
    BY <1>0, <1>4 DEF validateAndSetVidPid, ReadType, EnvTypes
  <2> QED BY <1>4, <2>1, <2>2, <2>3 DEF validateAndSetVidPid
<1>5. CASE LinkFunctions
  <2>1. LinksOf(mCurrentUsbFunctions, vendor) \in Seq(Linkable)
    BY <1>0, LinksType DEF HalTypes, EnvTypes
  <2>2. GadgetTypes'
    BY <1>0, <1>5, <2>1 DEF LinkFunctions, GadgetTypes
  <2>3. PcType' /\ CallTypes'
    BY <1>0, <1>5 DEF LinkFunctions, PcType, CallTypes, Pcs, Statuses
  <2>4. ReadType'
    BY <1>0, <1>5 DEF LinkFunctions, ReadType, EnvTypes
  <2> QED BY <1>5, <2>2, <2>3, <2>4 DEF LinkFunctions
<1>6. CASE PullUp
  <2>1. GadgetTypes'
    BY <1>0, <1>6 DEF PullUp, GadgetTypes
  <2>2. HalTypes'
    BY <1>0, <1>6 DEF PullUp, HalTypes
  <2>3. NoticeTypes'
    <3>1. CASE Notify("SUCCESS")
      BY <1>6, <3>1, TypeNotify DEF PullUp, Told, AtRest, Statuses, NoticeTypes
    <3> QED BY <1>6, <3>1 DEF PullUp
  <2>4. PcType' /\ CallTypes'
    BY <1>0, <1>6 DEF PullUp, PcType, CallTypes, Pcs, Statuses
  <2> QED BY <1>6, <2>1, <2>2, <2>3, <2>4 DEF PullUp
<1>7. CASE startMonitor
  <2>1. PcType'
    BY <1>7 DEF startMonitor, PcType, Pcs
  <2>2. MonitorTypes'
    BY <1>0, <1>7 DEF startMonitor, MonitorTypes
  <2> QED BY <1>7, <2>1, <2>2 DEF startMonitor
<1>8. CASE waitForPullUp
  <2>1. PcType'
    BY <1>8 DEF waitForPullUp, PcType, Pcs
  <2> QED BY <1>8, <2>1 DEF waitForPullUp
<1>12. CASE TellPullUp
  <2>1. WaitResult \in Statuses
    BY DEF WaitResult, Statuses
  <2>2. NoticeTypes'
    BY <1>12, <2>1, TypeNotify DEF TellPullUp, Told, AtRest, NoticeTypes
  <2>3. PcType' /\ CallTypes'
    BY <1>0, <1>12 DEF TellPullUp, PcType, CallTypes, Pcs, Statuses
  <2> QED BY <1>12, <2>2, <2>3 DEF TellPullUp
<1>11. CASE MoveIrq
  <2>1. CoreTypes' /\ LimitTypes' /\ PcType'
    BY <1>0, <1>11 DEF MoveIrq, CoreFor, CoreTypes, LimitTypes, PcType, Pcs
  <2> QED BY <1>11, <2>1 DEF MoveIrq
<1>9. CASE AccessoryLimit
  <2>1. LimitTypes'
    BY <1>0, <1>9 DEF AccessoryLimit, LimitCurrent, Unvote, LimitTypes, limitVars
  <2>2. PcType'
    BY <1>9 DEF AccessoryLimit, PcType, Pcs
  <2> QED BY <1>9, <2>1, <2>2 DEF AccessoryLimit
<1>10. CASE ReturnError
  <2>1. NoticeTypes'
    <3>1. CASE callback
      <4>1. Notify(status) /\ status \in Statuses /\ notified \in {0, 1}
        BY <1>0, <1>10, <3>1 DEF ReturnError, Told, CallTypes
      <4> QED BY <4>1, TypeNotify DEF NoticeTypes
    <3>2. CASE ~callback
      BY <1>10, <3>2 DEF ReturnError
    <3> QED BY <3>1, <3>2
  <2>2. PcType'
    BY <1>10 DEF ReturnError, AfterError, PcType, Pcs
  <2> QED BY <1>10, <2>1, <2>2 DEF ReturnError
<1> QED BY <1>1, <1>2, <1>3, <1>4, <1>5, <1>6, <1>7, <1>8, <1>9, <1>10, <1>11, <1>12
        DEF SetFunctions

\* And the others.
LEMMA TypeOthers ==
  ASSUME TypeOK,
         \/ \E f \in Requests, cb \in BOOLEAN : setCurrentUsbFunctions(f, cb)
         \/ reset \/ PullUpAgain \/ Monitor \/ UsbHalPulls \/ UserspaceChanges \/ Restart
         \/ UNCHANGED vars
  PROVE  TypeOK'
<1> USE DEF Go
<1> USE TypeUnchanged
<1>0. /\ HalTypes /\ CallTypes /\ MonitorTypes /\ GadgetTypes
      /\ CoreTypes /\ LimitTypes /\ EnvTypes
      /\ DoubtTypes /\ NoticeTypes /\ PcType /\ ReadType
  BY TypeGroups
<1>s. SUFFICES /\ HalTypes' /\ CallTypes' /\ MonitorTypes' /\ GadgetTypes'
               /\ CoreTypes' /\ LimitTypes'
               /\ EnvTypes' /\ DoubtTypes' /\ NoticeTypes' /\ PcType' /\ ReadType'
  BY TypeGroupsAfter
<1>1. calls < MaxCalls => calls + 1 \in 0..MaxCalls
  BY <1>0, MaxCallsAssumption DEF CallTypes
<1>2. ASSUME NEW f \in Requests, NEW cb \in BOOLEAN, setCurrentUsbFunctions(f, cb)
      PROVE  /\ HalTypes' /\ CallTypes' /\ DoubtTypes' /\ NoticeTypes' /\ PcType' /\ ReadType'
             /\ CoreTypes' /\ LimitTypes'
  <2>1. HalTypes'
    BY <1>2, RequestsAssumption DEF setCurrentUsbFunctions, HalTypes
  <2>2. DoubtTypes'
    BY <1>2 DEF setCurrentUsbFunctions, DoubtTypes
  <2>3. CallTypes'
    BY <1>1, <1>2 DEF setCurrentUsbFunctions, Serve, CallTypes, Statuses
  <2>4. PcType' /\ ReadType'
    BY <1>2 DEF setCurrentUsbFunctions, PcType, ReadType, Pcs
  <2>5. NoticeTypes'
    <3>1. refused' \in BOOLEAN
      BY <1>2 DEF setCurrentUsbFunctions
    <3> QED BY <1>2, <3>1 DEF setCurrentUsbFunctions, NoticeTypes
  <2>6. CoreTypes' /\ LimitTypes'
    <3>1. mGadgetIrqPath' \in BOOLEAN
      BY <1>0, <1>2 DEF setCurrentUsbFunctions, getUsbGadgetIrqPath, CoreTypes, GadgetTypes
    <3> QED BY <1>0, <1>2, <3>1 DEF setCurrentUsbFunctions, CoreTypes, LimitTypes
  <2> QED BY <2>1, <2>2, <2>3, <2>4, <2>5, <2>6
<1>3. CASE reset
  <2>1. GadgetTypes'
    BY <1>0, <1>3 DEF reset, GadgetTypes
  <2>2. DoubtTypes'
    BY <1>0, <1>3 DEF reset, DoubtTypes
  <2>3. PcType'
    BY <1>0, <1>3 DEF reset, PcType, Pcs
  <2>4. CallTypes'
    BY <1>0, <1>1, <1>3 DEF reset, Serve, CallTypes
  <2> QED BY <1>3, <2>1, <2>2, <2>3, <2>4 DEF reset
<1>4. CASE PullUpAgain
  <2>1. GadgetTypes'
    BY <1>0, <1>4 DEF PullUpAgain, GadgetTypes
  <2>2. DoubtTypes'
    BY <1>0, <1>4 DEF PullUpAgain, DoubtTypes
  <2>3. PcType'
    BY <1>4 DEF PullUpAgain, PcType, Pcs
  <2> QED BY <1>4, <2>1, <2>2, <2>3 DEF PullUpAgain
<1>5. CASE MonitorPullsUp \/ MonitorPullsDown
  <2>1. MonitorTypes'
    BY <1>5 DEF MonitorPullsUp, MonitorPullsDown, MonitorTypes
  <2>2. GadgetTypes'
    BY <1>0, <1>5 DEF MonitorPullsUp, MonitorPullsDown, MonitorUnchanged, GadgetTypes
  <2>3. DoubtTypes'
    BY <1>0, <1>5 DEF MonitorPullsUp, MonitorPullsDown, MonitorUnchanged, DoubtTypes
  <2> QED BY <1>5, <2>1, <2>2, <2>3 DEF MonitorPullsUp, MonitorPullsDown, MonitorUnchanged
<1>6. CASE currentFunctionsAppliedCallback
  <2>1. HalTypes'
    BY <1>0, <1>6 DEF currentFunctionsAppliedCallback, functionsApplied, HalTypes
  <2>2. DoubtTypes'
    BY <1>0, <1>6 DEF currentFunctionsAppliedCallback, MonitorUnchanged, DoubtTypes
  <2>3. MonitorTypes' /\ GadgetTypes'
    BY <1>0, <1>6 DEF currentFunctionsAppliedCallback, MonitorUnchanged, MonitorTypes,
                      GadgetTypes
  <2> QED BY <1>6, <2>1, <2>2, <2>3 DEF currentFunctionsAppliedCallback, MonitorUnchanged
<1>7. CASE UsbHalPulls
  <2>1. GadgetTypes'
    BY <1>0, <1>7 DEF UsbHalPulls, GadgetTypes
  <2>2. DoubtTypes'
    BY <1>0, <1>7 DEF UsbHalPulls, DoubtTypes
  <2> QED BY <1>7, <2>1, <2>2 DEF UsbHalPulls
<1>8. CASE UserspaceChanges
  BY <1>8 DEF UserspaceChanges, EnvTypes
<1>9. CASE Restart
  <2>1. HalTypes'
    BY <1>9, RequestsAssumption DEF Restart, HalTypes
  <2>2. CallTypes'
    BY <1>1, <1>9 DEF Restart, CallTypes, Statuses
  <2>3. MonitorTypes'
    BY <1>9 DEF Restart, MonitorTypes
  <2>4. DoubtTypes'
    BY <1>9 DEF Restart, DoubtTypes
  <2>5. NoticeTypes'
    <3>1. refused' \in BOOLEAN
      BY <1>9 DEF Restart
    <3> QED BY <1>9, <3>1 DEF Restart, NoticeTypes
  <2>6. PcType' /\ ReadType'
    BY <1>9 DEF Restart, PcType, ReadType, Pcs
  <2>7. CoreTypes' /\ LimitTypes'
    BY <1>0, <1>9 DEF Restart, CoreTypes, LimitTypes
  <2> QED BY <1>9, <2>1, <2>2, <2>3, <2>4, <2>5, <2>6, <2>7 DEF Restart
<1>10. CASE UNCHANGED vars
  BY <1>10 DEF vars
<1>11. CASE \E f \in Requests, cb \in BOOLEAN : setCurrentUsbFunctions(f, cb)
  BY <1>2, <1>11 DEF setCurrentUsbFunctions
<1> QED BY <1>3, <1>4, <1>5, <1>6, <1>7, <1>8, <1>9, <1>10, <1>11 DEF Monitor

-----------------------------------------------------------------------------
(* Safety *)

\* A request goes its course: without a function it ends early, after a
\* failure it has a status that says so.
LEMMA CourseInductive == TypeOK /\ Course /\ [Next]_vars => Course'
<1> SUFFICES ASSUME TypeOK, Course, [Next]_vars PROVE Course'
  OBVIOUS
<1> USE DEF Go, Fail, halVars, callVars, doubtVars, Waiting, Working, Resetting, Course
<1>1. CASE \/ \E f \in Requests, cb \in BOOLEAN : setCurrentUsbFunctions(f, cb)
           \/ reset \/ PullUpAgain \/ Restart
  BY <1>1 DEF setCurrentUsbFunctions, reset, PullUpAgain, Restart, Serve
<1>2. CASE resetGadget \/ resetMonitor
  BY <1>2 DEF resetGadget, resetMonitor, AfterTearDown
<1>3. CASE SetNone \/ ReturnError \/ MoveIrq \/ AccessoryLimit
  BY <1>3 DEF SetNone, ReturnError, AfterError, MoveIrq, AccessoryLimit
<1>4. CASE validateAndSetVidPid \/ LinkFunctions
  BY <1>4 DEF validateAndSetVidPid, LinkFunctions
<1>5. CASE PullUp
  BY <1>5 DEF PullUp
<1>6. CASE startMonitor \/ waitForPullUp \/ TellPullUp
  BY <1>6 DEF startMonitor, waitForPullUp, TellPullUp
<1>7. CASE Monitor
  BY <1>7 DEF Monitor, MonitorPullsUp, MonitorPullsDown, currentFunctionsAppliedCallback,
              MonitorUnchanged
<1>8. CASE UsbHalPulls \/ UserspaceChanges \/ UNCHANGED vars
  BY <1>8 DEF UsbHalPulls, UserspaceChanges, vars
<1> QED BY <1>1, <1>2, <1>3, <1>4, <1>5, <1>6, <1>7, <1>8 DEF Next, SetFunctions

\* The monitor is off while the gadget is put together; what it has pulled up
\* stays up until a request, a reset or the USB HAL pulls it down.
LEMMA WatchingInductive == TypeOK /\ Course /\ Watching /\ [Next]_vars => Watching'
<1> SUFFICES ASSUME TypeOK, Course, Watching, [Next]_vars PROVE Watching'
  OBVIOUS
<1> USE DEF Go, Fail, halVars, callVars, monitorVars, gadgetVars, doubtVars, Waiting, Working,
            Resetting, Watching
<1>1. CASE \/ \E f \in Requests, cb \in BOOLEAN : setCurrentUsbFunctions(f, cb)
           \/ Restart
  BY <1>1 DEF setCurrentUsbFunctions, Restart
<1>2. CASE reset
  BY <1>2 DEF reset, Serve
<1>3. CASE PullUpAgain
  BY <1>3 DEF PullUpAgain
<1>4. CASE resetGadget
  BY <1>4 DEF resetGadget
<1>5. CASE resetMonitor
  BY <1>5 DEF resetMonitor, AfterTearDown, StopMonitor
<1>6. CASE SetNone \/ ReturnError \/ MoveIrq \/ AccessoryLimit
  <2>1. /\ \/ pc \in {"none", "error", "limit"} /\ pc' = "idle"
           \/ pc = "core" /\ pc' = "limit"
        /\ UNCHANGED <<monitorVars, gadgetVars, doubtVars>>
    BY <1>6 DEF SetNone, ReturnError, AfterError, MoveIrq, AccessoryLimit
  <2> QED BY <2>1
<1>7. CASE validateAndSetVidPid \/ LinkFunctions
  BY <1>7 DEF validateAndSetVidPid, LinkFunctions
<1>8. CASE PullUp
  BY <1>8 DEF PullUp
<1>9. CASE startMonitor \/ waitForPullUp \/ TellPullUp
  BY <1>9 DEF startMonitor, waitForPullUp, TellPullUp, TimedOut
<1>10. CASE MonitorPullsUp
  BY <1>10 DEF MonitorPullsUp, MonitorUnchanged
<1>14. CASE MonitorPullsDown
  <2>1. /\ gadgetPullup /\ ~gadgetPullup' /\ monitor' = "announceDown"
        /\ UNCHANGED <<pc, known, pulled>>
    BY <1>14 DEF MonitorPullsDown, MonitorUnchanged
  <2>2. pc = "pulledUp" /\ pullup => lost'
    BY <1>14 DEF MonitorPullsDown
  <2>3. pc = "pulledUp" /\ ~pulled => pullup
    BY <2>1 DEF Course
  <2> QED BY <2>1, <2>2, <2>3
<1>11. CASE currentFunctionsAppliedCallback
  BY <1>11 DEF currentFunctionsAppliedCallback, MonitorUnchanged
<1>12. CASE UsbHalPulls
  BY <1>12 DEF UsbHalPulls
<1>13. CASE UserspaceChanges \/ UNCHANGED vars
  BY <1>13 DEF UserspaceChanges, vars
<1> QED BY <1>1, <1>2, <1>3, <1>4, <1>5, <1>6, <1>7, <1>8, <1>9, <1>10, <1>11, <1>12, <1>13,
           <1>14         DEF Next, SetFunctions, Monitor

\* Once torn down the gadget has nothing to pull up, and a request for no
\* function leaves it so.
LEMMA TornDownInductive ==
  TypeOK /\ Course /\ Watching /\ TornDown /\ NoneUnwatched /\ [Next]_vars
    => TornDown' /\ NoneUnwatched'
<1> SUFFICES ASSUME TypeOK, Course, Watching, TornDown, NoneUnwatched, [Next]_vars
             PROVE  TornDown' /\ NoneUnwatched'
  OBVIOUS
<1> USE DEF Go, Fail, halVars, callVars, monitorVars, gadgetVars, doubtVars, Waiting, Working,
            Resetting, AtRest, TornDown, NoneUnwatched
<1>1. CASE \E f \in Requests, cb \in BOOLEAN : setCurrentUsbFunctions(f, cb)
  BY <1>1 DEF setCurrentUsbFunctions
<1>2. CASE Restart
  BY <1>2 DEF Restart
<1>3. CASE reset
  BY <1>3 DEF reset, Serve
<1>4. CASE PullUpAgain
  BY <1>4 DEF PullUpAgain, CanPullUp
<1>5. CASE resetGadget
  BY <1>5 DEF resetGadget
<1>6. CASE resetMonitor
  BY <1>6 DEF resetMonitor, AfterTearDown, StopMonitor
<1>7. CASE SetNone \/ ReturnError \/ MoveIrq \/ AccessoryLimit
  <2>1. /\ \/ pc \in {"none", "error", "limit"} /\ pc' = "idle"
           \/ pc = "core" /\ pc' = "limit"
        /\ UNCHANGED <<halVars, monitorVars, gadgetVars, doubtVars>>
    BY <1>7 DEF SetNone, ReturnError, AfterError, MoveIrq, AccessoryLimit
  <2> QED BY <2>1 DEF Course, Watching
<1>8. CASE validateAndSetVidPid \/ LinkFunctions
  <2>1. /\ pc' \in {"setup", "startMonitor", "pullUp", "error"}
        /\ pc' = "setup" => pc = "vidPid" /\ UNCHANGED <<links, pullup>>
    BY <1>8 DEF validateAndSetVidPid, LinkFunctions
  <2> QED BY <2>1
<1>9. CASE PullUp \/ startMonitor \/ waitForPullUp \/ TellPullUp
  <2>1. pc' \in {"core", "error"} \cup Waiting
    BY <1>9 DEF PullUp, startMonitor, waitForPullUp, TellPullUp
  <2> QED BY <2>1
<1>10. CASE MonitorPullsUp \/ MonitorPullsDown
  BY <1>10 DEF MonitorPullsUp, MonitorPullsDown, MonitorUnchanged, CanPullUp
<1>11. CASE currentFunctionsAppliedCallback
  BY <1>11 DEF currentFunctionsAppliedCallback, MonitorUnchanged
<1>12. CASE UsbHalPulls
  BY <1>12 DEF UsbHalPulls, CanPullUp
<1>13. CASE UserspaceChanges \/ UNCHANGED vars
  BY <1>13 DEF UserspaceChanges, vars
<1> QED BY <1>1, <1>2, <1>3, <1>4, <1>5, <1>6, <1>7, <1>8, <1>9, <1>10, <1>11, <1>12, <1>13
        DEF Next, SetFunctions, Monitor

\* What is linked and the product id fit the request that linked them.
LEMMA ShownInductive ==
  TypeOK /\ Course /\ Watching /\ TornDown /\ Shown /\ [Next]_vars => Shown'
<1> SUFFICES ASSUME TypeOK, Course, Watching, TornDown, Shown, [Next]_vars
             PROVE  Shown'
  OBVIOUS
<1> USE DEF Go, Fail, halVars, callVars, monitorVars, gadgetVars, doubtVars, Waiting, AtRest, Shown
<1>0. /\ UNCHANGED <<read, mCurrentUsbFunctions, product>> => (ProductFits' <=> ProductFits)
      /\ UNCHANGED <<read, mCurrentUsbFunctions, links>> => (LinksFit' <=> LinksFit)
  BY DEF ProductFits, LinksFit
<1>1. CASE \E f \in Requests, cb \in BOOLEAN : setCurrentUsbFunctions(f, cb)
  BY <1>1 DEF setCurrentUsbFunctions
<1>2. CASE Restart
  BY <1>2 DEF Restart
<1>3. CASE reset
  <2>1. /\ pc = "idle" /\ pc' \in AtRest
        /\ UNCHANGED <<read, mCurrentUsbFunctions, product, links, known, monitor>>
    BY <1>3 DEF reset, Serve
  <2>2. (pullup => pulled) => (pullup' \/ pc' = "pullUpAgain" => pulled')
    BY <1>3 DEF reset, Serve
  <2> QED BY <1>0, <2>1, <2>2
<1>4. CASE PullUpAgain
  BY <1>0, <1>4 DEF PullUpAgain
<1>5. CASE resetGadget
  BY <1>5 DEF resetGadget
<1>6. CASE resetMonitor
  BY <1>6 DEF resetMonitor, AfterTearDown
<1>7. CASE SetNone
  BY <1>7 DEF SetNone, TornDown, Watching
<1>8. CASE validateAndSetVidPid
  <2>1. CASE pc' = "setup"
    <3>1. read' = read \cup {vendor} /\ <<mCurrentUsbFunctions, product'>> \in ProductsOf(vendor)
      <4>1. PICK e \in ProductsOf(vendor) : e[1] = mCurrentUsbFunctions /\ product' = e[2]
        BY <1>8, <2>1 DEF validateAndSetVidPid
      <4>2. e = <<e[1], e[2]>>
        BY DEF ProductsOf, VendorProducts, AnyProducts, UserProducts
      <4> QED BY <1>8, <4>1, <4>2 DEF validateAndSetVidPid
    <3>2. UNCHANGED mCurrentUsbFunctions
      BY <1>8 DEF validateAndSetVidPid
    <3>3. ProductFits'
      BY <3>1, <3>2 DEF ProductFits
    <3> QED BY <2>1, <3>1, <3>3
  <2>2. CASE pc' = "error"
    BY <1>8, <2>2 DEF validateAndSetVidPid, TornDown, Watching
  <2> QED BY <1>8, <2>1, <2>2 DEF validateAndSetVidPid
<1>9. CASE LinkFunctions
  <2>1. CASE pc' = "error"
    BY <1>9, <2>1 DEF LinkFunctions, TornDown, Watching
  <2>2. CASE pc' \in {"startMonitor", "pullUp"}
    <3>1. /\ read' = read \cup {vendor} /\ links' = LinksOf(mCurrentUsbFunctions, vendor)
          /\ UNCHANGED <<mCurrentUsbFunctions, product>> /\ ProductFits
      BY <1>9, <2>2 DEF LinkFunctions
    <3>2. ProductFits' /\ LinksFit'
      BY <3>1 DEF ProductFits, LinksFit
    <3> QED BY <2>2, <3>2
  <2> QED BY <1>9, <2>1, <2>2 DEF LinkFunctions
<1>10. CASE PullUp \/ startMonitor \/ waitForPullUp \/ TellPullUp
  <2>1. /\ pc \in {"pullUp", "startMonitor"} \cup Waiting
        /\ pc' \in {"core", "error"} \cup Waiting
        /\ UNCHANGED <<read, mCurrentUsbFunctions, product, links>>
    BY <1>10 DEF PullUp, startMonitor, waitForPullUp, TellPullUp
  <2> QED BY <1>0, <2>1
<1>11. CASE ReturnError \/ MoveIrq \/ AccessoryLimit
  <2>1. /\ \/ pc \in {"error", "limit"} /\ pc' = "idle"
           \/ pc = "core" /\ pc' = "limit"
        /\ UNCHANGED <<halVars, monitorVars, gadgetVars, doubtVars, read>>
    BY <1>11 DEF ReturnError, AfterError, MoveIrq, AccessoryLimit
  <2> QED BY <1>0, <2>1
<1>12. CASE MonitorPullsUp \/ MonitorPullsDown
  BY <1>0, <1>12 DEF MonitorPullsUp, MonitorPullsDown, MonitorUnchanged
<1>13. CASE currentFunctionsAppliedCallback
  BY <1>0, <1>13 DEF currentFunctionsAppliedCallback, MonitorUnchanged
<1>14. CASE UsbHalPulls
  BY <1>0, <1>14 DEF UsbHalPulls
<1>15. CASE UserspaceChanges \/ UNCHANGED vars
  BY <1>0, <1>15 DEF UserspaceChanges, vars
<1> QED BY <1>1, <1>2, <1>3, <1>4, <1>5, <1>6, <1>7, <1>8, <1>9, <1>10, <1>11, <1>12, <1>13,
           <1>14, <1>15 DEF Next, SetFunctions, Monitor


\* mCurrentUsbFunctionsApplied is true of a gadget that is up, unless the
\* monitor is about to say otherwise.
LEMMA AppliedInductive ==
  TypeOK /\ Course /\ Watching /\ Applied /\ [Next]_vars => Applied'
<1> SUFFICES ASSUME TypeOK, Course, Watching, Applied, [Next]_vars
             PROVE  Applied'
  OBVIOUS
<1> USE DEF Go, Fail, halVars, callVars, monitorVars, gadgetVars, doubtVars, Resetting, Waiting,
            Applied
<1>1. CASE \E f \in Requests, cb \in BOOLEAN : setCurrentUsbFunctions(f, cb)
  BY <1>1 DEF setCurrentUsbFunctions
<1>2. CASE Restart
  BY <1>2 DEF Restart
<1>3. CASE reset
  <2>1. /\ pc = "idle" /\ pc' \in {"idle", "pullUpAgain"}
        /\ UNCHANGED <<halVars, monitor, known, late>>
        /\ pc' = "idle" => UNCHANGED <<pullup, pulled>>
    BY <1>3 DEF reset, Serve
  <2> QED BY <2>1
<1>4. CASE PullUpAgain
  BY <1>4 DEF PullUpAgain
<1>5. CASE resetGadget
  BY <1>5 DEF resetGadget
<1>6. CASE resetMonitor
  BY <1>6 DEF resetMonitor, AfterTearDown
<1>7. CASE SetNone \/ ReturnError \/ MoveIrq \/ AccessoryLimit
  <2>1. /\ \/ pc \in {"none", "error", "limit"} /\ pc' = "idle"
           \/ pc = "core" /\ pc' = "limit"
        /\ UNCHANGED <<halVars, monitorVars, gadgetVars, doubtVars>>
    BY <1>7 DEF SetNone, ReturnError, AfterError, MoveIrq, AccessoryLimit
  <2> QED BY <2>1
<1>8. CASE validateAndSetVidPid \/ LinkFunctions
  <2>1. /\ pc \in {"vidPid", "setup"} /\ pc' \in {"setup", "startMonitor", "pullUp", "error"}
        /\ UNCHANGED <<halVars, monitorVars, pullup, doubtVars>>
    BY <1>8 DEF validateAndSetVidPid, LinkFunctions
  <2> QED BY <2>1
<1>9. CASE PullUp
  BY <1>9 DEF PullUp
<1>10. CASE startMonitor \/ waitForPullUp \/ TellPullUp
  <2>1. /\ pc \in {"startMonitor"} \cup Waiting /\ pc' \in {"core", "error"} \cup Waiting
        /\ UNCHANGED <<halVars, gadgetVars, doubtVars>>
        /\ monitor' # monitor => monitor = "off"
    BY <1>10 DEF startMonitor, waitForPullUp, TellPullUp, Watching
  <2> QED BY <2>1
<1>11. CASE MonitorPullsUp \/ MonitorPullsDown
  BY <1>11 DEF MonitorPullsUp, MonitorPullsDown, MonitorUnchanged
<1>12. CASE currentFunctionsAppliedCallback
  <2>1. CASE pc \in Resetting
    BY <1>12, <2>1 DEF currentFunctionsAppliedCallback, MonitorUnchanged
  <2>2. CASE monitor = "announceUp" /\ pc \notin Resetting
    BY <1>12, <2>2 DEF currentFunctionsAppliedCallback, MonitorUnchanged, Watching
  <2>3. CASE monitor = "announceDown" /\ pc \notin Resetting
    BY <1>12, <2>3 DEF currentFunctionsAppliedCallback, functionsApplied, MonitorUnchanged
  <2> QED BY <1>12, <2>1, <2>2, <2>3 DEF currentFunctionsAppliedCallback
<1>13. CASE UsbHalPulls
  BY <1>13 DEF UsbHalPulls
<1>14. CASE UserspaceChanges \/ UNCHANGED vars
  BY <1>14 DEF UserspaceChanges, vars
<1> QED BY <1>1, <1>2, <1>3, <1>4, <1>5, <1>6, <1>7, <1>8, <1>9, <1>10, <1>11, <1>12, <1>13,
           <1>14 DEF Next, SetFunctions, Monitor

\* A first call of the callback is one call; one that fails stays noted.
LEMMA FirstNotice ==
  ASSUME TypeOK, NEW what, Notify(what), notified \in {0, 1}
  PROVE  notified' = notified + 1 /\ (~refused' => ~refused)
<1>1. refused => refused'
  BY DEF Notify, TypeOK
<1> QED BY <1>1 DEF Notify

\* The callback is called once on the way from a request to its end.
LEMMA ToldInductive == TypeOK /\ Course /\ Told /\ [Next]_vars => Told'
<1> SUFFICES ASSUME TypeOK, Course, Told, [Next]_vars
             PROVE  Told'
  OBVIOUS
<1> USE DEF Go, Fail, callVars, noticeVars, AtRest, Told
<1>1. CASE \E f \in Requests, cb \in BOOLEAN : setCurrentUsbFunctions(f, cb)
  BY <1>1 DEF setCurrentUsbFunctions
<1>2. CASE Restart
  BY <1>2 DEF Restart
<1>3. CASE reset \/ PullUpAgain
  <2>1. pc \in AtRest /\ pc' \in AtRest /\ UNCHANGED <<callback, noticeVars>>
    BY <1>3 DEF reset, Serve, PullUpAgain
  <2> QED BY <2>1
<1>4. CASE resetGadget \/ resetMonitor \/ validateAndSetVidPid \/ LinkFunctions
  <2>1. /\ pc \in {"resetGadget", "resetMonitor", "vidPid", "setup"}
        /\ pc' \notin AtRest \cup {"core", "limit"}
        /\ UNCHANGED <<callback, noticeVars>>
    BY <1>4 DEF resetGadget, resetMonitor, AfterTearDown, validateAndSetVidPid, LinkFunctions
  <2> QED BY <2>1
<1>5. CASE SetNone
  <2>1. notified = 0 /\ pc' = "idle" /\ UNCHANGED callback
    BY <1>5 DEF SetNone
  <2>2. CASE callback
    <3>1. Notify("SUCCESS")
      BY <1>5, <2>2 DEF SetNone
    <3>2. notified' = 1
      BY <2>1, <3>1, FirstNotice
    <3> QED BY <2>1, <2>2, <3>2
  <2>3. CASE ~callback
    <3>1. notified' = 0
      BY <1>5, <2>1, <2>3 DEF SetNone
    <3> QED BY <2>1, <2>3, <3>1
  <2> QED BY <2>2, <2>3
<1>6. CASE PullUp
  <2>1. notified = 0 /\ pc' \in {"core", "error"} /\ UNCHANGED callback
    BY <1>6 DEF PullUp
  <2>2. CASE pc' = "core" /\ callback
    <3>1. notified' = 1
      BY <1>6, <2>1, <2>2, FirstNotice DEF PullUp
    <3> QED BY <2>1, <2>2, <3>1
  <2>3. CASE ~(pc' = "core" /\ callback)
    <3>1. notified' = 0
      BY <1>6, <2>1, <2>3 DEF PullUp
    <3> QED BY <2>1, <2>3, <3>1
  <2> QED BY <2>2, <2>3
<1>7. CASE startMonitor
  BY <1>7 DEF startMonitor
<1>13. CASE waitForPullUp
  <2>1. /\ pc = "waitForPullUp" /\ pc' \in {"pulledUp", "timedOut"}
        /\ UNCHANGED <<callback, noticeVars>>
    BY <1>13 DEF waitForPullUp
  <2> QED BY <2>1
<1>8. CASE TellPullUp
  <2>1. /\ notified = 0 /\ callback /\ UNCHANGED callback
        /\ pc' = IF refused' THEN "error" ELSE "core"
    BY <1>8 DEF TellPullUp, WaitFailed, Course, Waiting
  <2>2. notified' = 1
    BY <1>8, <2>1, FirstNotice DEF TellPullUp
  <2> QED BY <2>1, <2>2
<1>9. CASE MoveIrq \/ AccessoryLimit
  BY <1>9 DEF MoveIrq, AccessoryLimit
<1>10. CASE ReturnError
  <2>1. notified \in {0, 1} /\ pc' = "idle" /\ UNCHANGED callback
    BY <1>10 DEF ReturnError, AfterError
  <2>2. ~refused => notified = 0
    BY <1>10 DEF ReturnError
  <2>3. CASE callback
    <3>1. Notify(status)
      BY <1>10, <2>3 DEF ReturnError
    <3>2. ~refused' => notified' = 1
      BY <2>1, <2>2, <3>1, FirstNotice
    <3> QED BY <2>1, <2>3, <3>2
  <2>4. CASE ~callback
    BY <1>10, <2>1, <2>2, <2>4 DEF ReturnError
  <2> QED BY <2>3, <2>4
<1>11. CASE Monitor
  <2>1. UNCHANGED <<pc, callback, noticeVars>>
    BY <1>11 DEF Monitor, MonitorPullsUp, MonitorPullsDown, currentFunctionsAppliedCallback,
                 MonitorUnchanged
  <2> QED BY <2>1
<1>12. CASE UsbHalPulls \/ UserspaceChanges \/ UNCHANGED vars
  <2>1. UNCHANGED <<pc, callback, noticeVars>>
    BY <1>12 DEF UsbHalPulls, UserspaceChanges, vars
  <2> QED BY <2>1
<1> QED BY <1>1, <1>2, <1>3, <1>4, <1>5, <1>6, <1>7, <1>8, <1>9, <1>10, <1>11, <1>12, <1>13
        DEF Next, SetFunctions

\* Voting sets the limit first; what the last writes of a request settle is
\* as the request asks until the next one, or a restart, begins.
LEMMA LeftoversInductive == TypeOK /\ LeftoversGone /\ [Next]_vars => LeftoversGone'
<1> SUFFICES ASSUME TypeOK, LeftoversGone, [Next]_vars
             PROVE  LeftoversGone'
  OBVIOUS
<1> USE DEF LeftoversGone, halVars, coreVars, limitVars
<1>1. CASE AccessoryLimit
  <2>1. UNCHANGED <<mCurrentUsbFunctions, core>>
    BY <1>1 DEF AccessoryLimit
  <2>2. CoreFor' = CoreFor
    BY <2>1 DEF CoreFor
  <2>3. CASE "ACCESSORY" \in mCurrentUsbFunctions /\ LimitCurrent
    BY <2>1, <2>2, <2>3 DEF LimitCurrent
  <2>4. CASE Unvote
    BY <2>1, <2>2, <2>4 DEF Unvote
  <2> QED BY <1>1, <2>3, <2>4 DEF AccessoryLimit
<1>2. CASE MoveIrq
  <2>1. CoreFor' = CoreFor
    BY <1>2 DEF MoveIrq, CoreFor
  <2> QED BY <1>2, <2>1 DEF MoveIrq
<1>3. CASE Restart \/ \E f \in Requests, cb \in BOOLEAN : setCurrentUsbFunctions(f, cb)
  BY <1>3 DEF Restart, setCurrentUsbFunctions
<1>4. CASE \/ resetGadget \/ resetMonitor \/ SetNone \/ validateAndSetVidPid \/ LinkFunctions
           \/ PullUp \/ startMonitor \/ waitForPullUp \/ TellPullUp \/ ReturnError \/ reset
           \/ PullUpAgain \/ Monitor \/ UsbHalPulls \/ UserspaceChanges \/ UNCHANGED vars
  <2>1. UNCHANGED <<mCurrentUsbFunctions, core, limitSet, limitOn, settled>>
    BY <1>4 DEF resetGadget, resetMonitor, SetNone, validateAndSetVidPid, LinkFunctions, PullUp,
                startMonitor, waitForPullUp, TellPullUp, ReturnError, reset, PullUpAgain,
                Monitor, MonitorPullsUp, MonitorPullsDown, currentFunctionsAppliedCallback,
                MonitorUnchanged, UsbHalPulls, UserspaceChanges, vars
  <2>2. CoreFor' = CoreFor
    BY <2>1 DEF CoreFor
  <2> QED BY <2>1, <2>2
<1> QED BY <1>1, <1>2, <1>3, <1>4 DEF Next, SetFunctions

-----------------------------------------------------------------------------
(* Theorems *)

\* The invariant holds at the start.
LEMMA InvInit == Init => IInv
<1> SUFFICES ASSUME Init PROVE IInv
  OBVIOUS
<1>1. Course /\ Watching /\ TornDown /\ NoneUnwatched
  BY DEF Init, Course, Watching, TornDown, NoneUnwatched, AtRest, Working, Waiting, Resetting
<1>2. Shown /\ Applied /\ Told /\ LeftoversGone
  BY DEF Init, Shown, Applied, Told, LeftoversGone, AtRest, Waiting, Resetting
<1> QED BY <1>1, <1>2, TypeInit DEF IInv, Safe

\* Every step keeps it.
LEMMA InvNext == IInv /\ [Next]_vars => IInv'
<1> SUFFICES ASSUME IInv, [Next]_vars PROVE IInv'
  OBVIOUS
<1>0. TypeOK /\ Course /\ Watching /\ TornDown /\ NoneUnwatched /\ Shown /\ Applied /\ Told
      /\ LeftoversGone
  BY DEF IInv, Safe
<1>1. TypeOK'
  BY <1>0, TypeSetFunctions, TypeOthers DEF Next
<1>2. Course' /\ Watching' /\ TornDown' /\ NoneUnwatched' /\ Shown' /\ Applied' /\ Told'
      /\ LeftoversGone'
  BY <1>0, CourseInductive, WatchingInductive, TornDownInductive, ShownInductive,
     AppliedInductive, ToldInductive, LeftoversInductive
<1> QED BY <1>1, <1>2 DEF IInv, Safe

\* Types, the course of a request, the monitor's and the gadget's part in it
\* hold in every state.
THEOREM Invariant == Spec => []IInv
BY InvInit, InvNext, PTL DEF Spec

\* Every variable has its type: the binder thread's, the monitor's and what
\* they leave in the kernel; the callback is called twice at most.
THEOREM TypeCorrect == Spec => []TypeOK
<1>1. IInv => TypeOK
  BY DEF IInv
<1> QED BY <1>1, Invariant, PTL

\* What getCurrentUsbFunctions reports as applied is up (lines 121-137).
THEOREM AppliedIsUp == Spec => []AppliedMeansUp
<1>1. IInv => AppliedMeansUp
  BY DEF IInv, Safe, Applied, AppliedMeansUp
<1> QED BY <1>1, Invariant, PTL

\* A gadget that is up shows the functions asked for, with a product id of
\* theirs; after a request for no function it stays down (lines 174-185,
\* 407-488, 522-531).
THEOREM ShownAsAsked == Spec => []PresentedAsAsked
<1>1. IInv => PresentedAsAsked
  BY DEF IInv, Safe, Shown, TornDown, NoneUnwatched, AtRest, ProductFits, LinksFit,
         PresentedAsAsked
<1> QED BY <1>1, Invariant, PTL

\* The callback of a request that has ended was called once, unless it failed
\* (lines 463-464, 480-486, 522-526, 583-586).
THEOREM OneNotice == Spec => []NotifiedOnce
<1>1. IInv => NotifiedOnce
  BY DEF IInv, Safe, Told, AtRest, NotifiedOnce
<1> QED BY <1>1, Invariant, PTL

\* No accessory limit and no core outlasts a request whose last writes
\* succeeded (lines 507-509, 544-576).
THEOREM LeftoversAreGone == Spec => []LeftoversGone
<1>1. IInv => LeftoversGone
  BY DEF IInv, Safe
<1> QED BY <1>1, Invariant, PTL

\* A step that tells the callback SUCCESS leaves the gadget up.
LEMMA SuccessStep ==
  IInv /\ [Next]_vars
    => ((/\ notified' = notified + 1 /\ told' = "SUCCESS"
         /\ mCurrentUsbFunctions # {} /\ ~pulled /\ ~lost) => pullup')
<1> SUFFICES ASSUME IInv, [Next]_vars, notified' = notified + 1, told' = "SUCCESS",
                    mCurrentUsbFunctions # {}, ~pulled, ~lost
             PROVE  pullup'
  OBVIOUS
<1>0. TypeOK /\ Course /\ Watching
  BY DEF IInv, Safe
<1>1. notified \in 0..2
  BY <1>0 DEF TypeOK
<1>2. CASE SetNone
  BY <1>0, <1>2 DEF SetNone, Course
<1>3. CASE PullUp
  BY <1>1, <1>3 DEF PullUp, noticeVars
<1>4. CASE TellPullUp
  <2>1. told' = WaitResult /\ UNCHANGED pullup
    BY <1>4 DEF TellPullUp, Notify, gadgetVars
  <2>2. pc = "pulledUp"
    BY <2>1 DEF WaitResult
  <2>3. known /\ gadgetPullup
    BY <1>0, <2>2 DEF Course, Working, Waiting, Watching
  <2> QED BY <1>0, <2>1, <2>2, <2>3 DEF Watching, Resetting
<1>5. CASE ReturnError
  <2>1. CASE callback
    BY <1>0, <1>5, <2>1 DEF ReturnError, Notify, Course
  <2>2. CASE ~callback
    BY <1>1, <1>5, <2>2 DEF ReturnError, noticeVars
  <2> QED BY <2>1, <2>2
<1>6. CASE (\E f \in Requests, cb \in BOOLEAN : setCurrentUsbFunctions(f, cb)) \/ Restart
  BY <1>1, <1>6 DEF setCurrentUsbFunctions, Restart
<1>7. ASSUME UNCHANGED notified PROVE FALSE
  BY <1>1, <1>7
<1>8. CASE \/ resetGadget \/ resetMonitor \/ validateAndSetVidPid \/ LinkFunctions
           \/ startMonitor \/ waitForPullUp \/ MoveIrq \/ AccessoryLimit
  BY <1>7, <1>8 DEF resetGadget, resetMonitor, validateAndSetVidPid, LinkFunctions, startMonitor,
                    waitForPullUp, MoveIrq, AccessoryLimit, noticeVars
<1>9. CASE reset \/ PullUpAgain \/ Monitor \/ UsbHalPulls \/ UserspaceChanges \/ UNCHANGED vars
  BY <1>7, <1>9 DEF reset, PullUpAgain, Monitor, MonitorPullsUp, MonitorPullsDown,
                    currentFunctionsAppliedCallback, MonitorUnchanged, UsbHalPulls,
                    UserspaceChanges, vars, noticeVars
<1> QED BY <1>2, <1>3, <1>4, <1>5, <1>6, <1>8, <1>9 DEF Next, SetFunctions

\* Whoever is told SUCCESS has the gadget up, unless the monitor has pulled it
\* down again after the wait and before that was told (lines 458-483).
THEOREM SuccessIsUp == Spec => SuccessMeansUp
<1>1. IInv /\ [Next]_vars
        => [(/\ notified' = notified + 1 /\ told' = "SUCCESS"
             /\ mCurrentUsbFunctions # {} /\ ~pulled /\ ~lost) => pullup']_vars
  BY SuccessStep
<1> QED BY <1>1, Invariant, PTL DEF Spec, SuccessMeansUp

-----------------------------------------------------------------------------
(* GadgetView is implemented *)

Taken == known /\ pc # "resetGadget"
Seen == IF pullup THEN {<<links, product>>} ELSE {}

\* What a step that begins no request and takes nothing apart may do.
Mixed == \E v, w \in read : v # w
SeenStep == (Seen' = Seen /\ lost' = lost) \/ View!Disconnect \/ View!Connect
AnswerStep == UNCHANGED <<notified, told>> \/ View!Answer

\* The steps of a request after the gadget was taken apart, and those of others.
Work ==
  \/ resetMonitor \/ SetNone \/ validateAndSetVidPid \/ LinkFunctions \/ PullUp
  \/ startMonitor \/ waitForPullUp \/ TellPullUp \/ MoveIrq \/ AccessoryLimit \/ ReturnError
  \/ reset \/ PullUpAgain \/ Monitor \/ UsbHalPulls \/ UserspaceChanges

\* What is linked fits the request if links and product do, of the same vendor
\* functions.
LEMMA ConfigurationFits ==
  ASSUME TypeOK, ProductFits, LinksFit, ~Mixed
  PROVE  <<mCurrentUsbFunctions, <<links, product>>>> \in Fitting
<1>1. PICK v \in Vendors : v \in read /\ <<mCurrentUsbFunctions, product>> \in ProductsOf(v)
  BY DEF ProductFits, TypeOK
<1>2. links = LinksOf(mCurrentUsbFunctions, v)
  <2>1. PICK w \in read : links = LinksOf(mCurrentUsbFunctions, w)
    BY DEF LinksFit
  <2> QED BY <1>1, <2>1 DEF Mixed
<1> DEFINE e == <<mCurrentUsbFunctions, product>>
<1>3. e \in ProductsOf(v) /\ e[1] = mCurrentUsbFunctions /\ e[2] = product
  BY <1>1
<1>4. <<e[1], <<LinksOf(e[1], v), e[2]>>>> \in Fitting
  BY ONLY <1>3, v \in Vendors DEF Fitting
<1> QED BY <1>2, <1>3, <1>4

\* A pullup connects what fits, or others have meddled.
LEMMA PullUpConnects ==
  ASSUME TypeOK, ~pullup, pullup', UNCHANGED <<links, product, read, lost>>,
         Taken => mCurrentUsbFunctions # {},
         Taken /\ ~pulled' => ProductFits /\ LinksFit
  PROVE  SeenStep
<1>1. Seen = {} /\ Seen' = {<<links, product>>}
  BY DEF Seen
<1>2. Taken /\ ~pulled' /\ ~Mixed' => <<mCurrentUsbFunctions, <<links, product>>>> \in Fitting
  <2>1. Mixed' <=> Mixed
    BY DEF Mixed
  <2> QED BY <2>1, ConfigurationFits
<1> QED BY <1>1, <1>2 DEF SeenStep, View!Connect, View!Nothing, Seen, Taken, Mixed

\* Who can be pulled up has something linked, and is not in the middle of being
\* put together.
LEMMA CanPullUpWhen ==
  ASSUME IInv, CanPullUp, Taken
  PROVE  /\ mCurrentUsbFunctions # {}
         /\ monitor # "off" \/ pc = "pullUp" => ProductFits /\ LinksFit
         /\ pc = "pullUpAgain" => pulled \/ (ProductFits /\ LinksFit)
<1>1. /\ links # <<>> /\ ~pullup
      /\ pc \notin {"resetGadget", "resetMonitor", "none", "vidPid", "setup"}
  BY DEF CanPullUp, Taken, IInv, Safe, TornDown
<1>2. pc \in Working \cup AtRest \cup {"error"}
  BY <1>1 DEF IInv, TypeOK, Pcs, Working, Waiting, AtRest
<1>3. mCurrentUsbFunctions # {}
  BY <1>1, <1>2 DEF Taken, IInv, Safe, TornDown, Course
<1>4. monitor # "off" => ProductFits /\ LinksFit
  BY <1>1, <1>2 DEF Taken, IInv, Safe, Shown, Working
<1>5. pc = "pullUp" => ProductFits /\ LinksFit
  BY DEF IInv, Safe, Shown
<1>6. pc = "pullUpAgain" => pulled \/ (ProductFits /\ LinksFit)
  BY DEF Taken, IInv, Safe, Shown, AtRest
<1> QED BY <1>3, <1>4, <1>5, <1>6

\* The configuration changes only while nothing is seen of it.
LEMMA WorkSeen == ASSUME IInv, Work PROVE SeenStep
<1>0. TypeOK
  BY DEF IInv
<1>1. ASSUME UNCHANGED <<gadgetVars, lost>> PROVE SeenStep
  BY <1>1 DEF SeenStep, Seen, gadgetVars
<1>2. ASSUME ~pullup', UNCHANGED lost PROVE SeenStep
  BY <1>2 DEF SeenStep, View!Disconnect
<1>3. CASE \/ resetMonitor \/ SetNone \/ startMonitor \/ waitForPullUp \/ TellPullUp
           \/ MoveIrq \/ AccessoryLimit \/ ReturnError \/ UserspaceChanges
  BY <1>1, <1>3 DEF resetMonitor, SetNone, startMonitor, waitForPullUp, TellPullUp, MoveIrq,
                    AccessoryLimit, ReturnError, UserspaceChanges, doubtVars
<1>4. CASE validateAndSetVidPid \/ LinkFunctions
  <2>1. ~pullup' /\ UNCHANGED lost
    BY <1>4 DEF validateAndSetVidPid, LinkFunctions, IInv, Safe, TornDown, doubtVars
  <2> QED BY <1>2, <2>1
<1>5. CASE PullUp
  <2>1. CASE CanPullUp /\ pullup' = TRUE
    BY <1>0, <1>5, <2>1, CanPullUpWhen, PullUpConnects
       DEF PullUp, CanPullUp, doubtVars
  <2>2. CASE UNCHANGED <<gadgetVars, lost>>
    BY <1>1, <2>2
  <2> QED BY <1>5, <2>1, <2>2 DEF PullUp, gadgetVars, doubtVars
<1>6. CASE reset
  <2>1. CASE pullup' = FALSE
    BY <1>2, <1>6, <2>1 DEF reset
  <2>2. CASE UNCHANGED <<gadgetVars, lost>>
    BY <1>1, <2>2
  <2> QED BY <1>6, <2>1, <2>2 DEF reset, gadgetVars
<1>7. CASE PullUpAgain
  <2>1. CASE CanPullUp /\ pullup' = TRUE
    <3>1. pulled => pulled'
      BY <1>7 DEF PullUpAgain
    <3> QED BY <1>0, <1>7, <2>1, <3>1, CanPullUpWhen, PullUpConnects DEF PullUpAgain, CanPullUp
  <2>2. CASE UNCHANGED <<gadgetVars, lost>>
    BY <1>1, <2>2
  <2> QED BY <1>7, <2>1, <2>2 DEF PullUpAgain, gadgetVars
<1>8. CASE MonitorPullsUp
  <2>1. CanPullUp /\ monitor # "off" /\ pullup' = TRUE
        /\ UNCHANGED <<links, product, read, lost>>
    BY <1>8 DEF MonitorPullsUp, MonitorUnchanged
  <2> QED BY <1>0, <2>1, CanPullUpWhen, PullUpConnects DEF CanPullUp
<1>9. CASE MonitorPullsDown
  <2>1. ~pullup' /\ (lost' = lost \/ (lost' = TRUE /\ pc = "pulledUp" /\ pullup))
    BY <1>0, <1>9 DEF MonitorPullsDown, TypeOK
  <2>2. CASE UNCHANGED lost
    BY <1>2, <2>1, <2>2
  <2>3. CASE lost' = TRUE /\ pc = "pulledUp" /\ pullup
    <3>1. Taken
      BY <2>3 DEF IInv, Safe, Course, Working, Waiting, Taken
    <3>2. Seen' = {} /\ Seen # {}
      BY <2>1, <2>3 DEF Seen
    <3> QED BY <2>3, <3>1, <3>2 DEF SeenStep, View!Disconnect, Seen, Taken
  <2> QED BY <2>1, <2>2, <2>3
<1>10. CASE currentFunctionsAppliedCallback
  BY <1>1, <1>10 DEF currentFunctionsAppliedCallback, MonitorUnchanged, gadgetVars
<1>11. CASE UsbHalPulls
  <2>1. CASE CanPullUp /\ pullup' = TRUE
    BY <1>0, <1>11, <2>1, CanPullUpWhen, PullUpConnects DEF UsbHalPulls, CanPullUp
  <2>2. CASE pullup' = FALSE
    BY <1>2, <1>11, <2>2 DEF UsbHalPulls
  <2> QED BY <1>11, <2>1, <2>2 DEF UsbHalPulls
<1> QED BY <1>3, <1>4, <1>5, <1>6, <1>7, <1>8, <1>9, <1>10, <1>11 DEF Work, Monitor

\* A call of the callback is an answer.
LEMMA NotifyAnswers ==
  ASSUME IInv, [Next]_vars, NEW what, Notify(what),
         notified = 0 \/ refused
  PROVE  View!Answer
<1>1. notified' = notified + 1
  BY DEF Notify
<1>2. (told' = "SUCCESS" /\ mCurrentUsbFunctions # {} /\ ~pulled /\ ~lost) => pullup'
  BY <1>1, SuccessStep
<1> QED BY <1>1, <1>2 DEF View!Answer, View!Nothing

LEMMA WorkAnswers == ASSUME IInv, Work, [Next]_vars PROVE AnswerStep
<1> USE DEF AnswerStep
<1>0. /\ pc \notin AtRest \cup {"core", "limit", "error"} => notified = 0
      /\ pc = "error" => notified = 0 \/ refused
  BY DEF IInv, Safe, Told, AtRest
<1>1. CASE \/ resetMonitor \/ validateAndSetVidPid \/ LinkFunctions \/ startMonitor
           \/ waitForPullUp \/ MoveIrq \/ AccessoryLimit \/ reset \/ PullUpAgain \/ UsbHalPulls
           \/ UserspaceChanges
  BY <1>1 DEF resetMonitor, validateAndSetVidPid, LinkFunctions, startMonitor, waitForPullUp,
              MoveIrq, AccessoryLimit, reset, PullUpAgain, UsbHalPulls, UserspaceChanges, noticeVars
<1>2. CASE Monitor
  BY <1>2 DEF Monitor, MonitorPullsUp, MonitorPullsDown, currentFunctionsAppliedCallback,
              MonitorUnchanged, noticeVars
<1>3. CASE SetNone
  BY <1>0, <1>3, NotifyAnswers DEF SetNone, noticeVars, AtRest
<1>4. CASE PullUp
  BY <1>0, <1>4, NotifyAnswers DEF PullUp, noticeVars, AtRest
<1>5. CASE TellPullUp
  BY <1>0, <1>5, NotifyAnswers DEF TellPullUp, AtRest
<1>6. CASE ReturnError
  BY <1>0, <1>6, NotifyAnswers DEF ReturnError, noticeVars
<1> QED BY <1>1, <1>2, <1>3, <1>4, <1>5, <1>6 DEF Work

\* The rest of what Serve says.
LEMMA WorkFrame ==
  ASSUME IInv, Work
  PROVE  /\ UNCHANGED mCurrentUsbFunctions
         /\ Taken' = Taken
         /\ Mixed' \in {Mixed, TRUE}
         /\ refused' \in {refused, TRUE} /\ pulled' \in {pulled, TRUE}
<1>1. UNCHANGED <<mCurrentUsbFunctions, known>> /\ refused' \in {refused, TRUE}
  BY DEF Work, resetMonitor, SetNone, validateAndSetVidPid, LinkFunctions, PullUp, startMonitor,
         waitForPullUp, TellPullUp, MoveIrq, AccessoryLimit, ReturnError, reset, PullUpAgain,
         Monitor,
         MonitorPullsUp, MonitorPullsDown, currentFunctionsAppliedCallback, MonitorUnchanged,
         UsbHalPulls, UserspaceChanges, Notify, halVars, doubtVars, noticeVars
<1>2. pc' # "resetGadget" <=> pc # "resetGadget"
  BY DEF Work, resetMonitor, SetNone, validateAndSetVidPid, LinkFunctions, PullUp, startMonitor,
         waitForPullUp, TellPullUp, MoveIrq, AccessoryLimit, ReturnError, reset, PullUpAgain,
         Monitor,
         MonitorPullsUp, MonitorPullsDown, currentFunctionsAppliedCallback, MonitorUnchanged,
         UsbHalPulls, UserspaceChanges, Serve, Go, Fail, AfterTearDown, AfterError
<1>3. pulled' \in {pulled, TRUE}
  <2>1. pulled \in BOOLEAN
    BY DEF IInv, TypeOK
  <2> QED BY <2>1 DEF Work, resetMonitor, SetNone, validateAndSetVidPid, LinkFunctions, PullUp,
         startMonitor, waitForPullUp, TellPullUp, MoveIrq, AccessoryLimit, ReturnError, reset,
         PullUpAgain,
         Monitor, MonitorPullsUp, MonitorPullsDown, currentFunctionsAppliedCallback,
         MonitorUnchanged, UsbHalPulls, UserspaceChanges, doubtVars
<1>4. Mixed' \in {Mixed, TRUE}
  <2>1. CASE read \subseteq read'
    BY <2>1 DEF Mixed
  <2> QED BY <2>1
        DEF Work, resetMonitor, SetNone, validateAndSetVidPid, LinkFunctions, PullUp, startMonitor,
            waitForPullUp, TellPullUp, MoveIrq, AccessoryLimit, ReturnError, reset, PullUpAgain,
            Monitor,
            MonitorPullsUp, MonitorPullsDown, currentFunctionsAppliedCallback, MonitorUnchanged,
            UsbHalPulls, UserspaceChanges
<1> QED BY <1>1, <1>2, <1>3, <1>4 DEF Taken

\* A request takes the gadget apart, or fails to and may leave it as it was.
LEMMA ResetTakesApart == ASSUME IInv, resetGadget PROVE View!TakeApart \/ View!Serve
<1>1. /\ UNCHANGED <<mCurrentUsbFunctions, product, pulled, lost, notified, told, refused>>
      /\ ~Taken /\ Mixed' = Mixed
  BY DEF resetGadget, halVars, noticeVars, Taken, Mixed
<1>2. CASE ~pullup' /\ pc' = "resetMonitor"
  <2>1. known /\ known' = known
    BY <1>2 DEF resetGadget, Go, Fail, IInv, Safe, Course, Resetting
  <2>2. Taken' = TRUE /\ Seen' = {}
    BY <1>2, <2>1 DEF Taken, Seen
  <2> QED BY <1>1, <2>2 DEF View!TakeApart, Taken, Seen, Mixed
<1>3. CASE known' = FALSE
  <2>1. Taken' = Taken
    BY <1>1, <1>3 DEF Taken
  <2>2. Seen' = Seen \/ Seen' = {}
    <3>1. /\ pullup' = pullup \/ ~pullup'
          /\ links' = links \/ ~pullup'
      BY DEF resetGadget
    <3>2. CASE ~pullup'
      BY <3>2 DEF Seen
    <3>3. CASE pullup' = pullup /\ links' = links
      BY <1>1, <3>3 DEF Seen
    <3> QED BY <3>1, <3>2, <3>3
  <2> QED BY <1>1, <2>1, <2>2 DEF View!Serve, View!Disconnect, Taken, Seen, Mixed
<1> QED BY <1>2, <1>3 DEF resetGadget, Go

\* A request that begins, and a restart, ask anew.
LEMMA BeginningAsks ==
  ASSUME (\E f \in Requests, cb \in BOOLEAN : setCurrentUsbFunctions(f, cb)) \/ Restart
  PROVE  View!Ask
<1>1. /\ Taken' = FALSE /\ Seen' = Seen
      /\ notified' = 0 /\ told' = "none" /\ refused' = FALSE /\ pulled' = FALSE
      /\ lost' = FALSE /\ Mixed' = FALSE
  BY DEF setCurrentUsbFunctions, Restart, Go, Taken, Seen, Mixed, gadgetVars
<1> QED BY <1>1 DEF View!Ask, Taken, Seen, Mixed

LEMMA StepIsSeen == IInv /\ [Next]_vars => [View!Next]_(View!vars)
<1> SUFFICES ASSUME IInv, [Next]_vars PROVE View!Next \/ UNCHANGED View!vars
  OBVIOUS
<1>1. CASE (\E f \in Requests, cb \in BOOLEAN : setCurrentUsbFunctions(f, cb)) \/ Restart
  BY <1>1, BeginningAsks DEF View!Next
<1>2. CASE resetGadget
  BY <1>2, ResetTakesApart DEF View!Next
<1>3. CASE Work
  <2>1. SeenStep /\ AnswerStep
    BY <1>3, WorkSeen, WorkAnswers
  <2>2. View!Serve
    BY <1>3, <2>1, WorkFrame DEF View!Serve, SeenStep, AnswerStep, Taken, Seen, Mixed
  <2> QED BY <2>2 DEF View!Next
<1>4. CASE UNCHANGED vars
  BY <1>4 DEF vars, halVars, gadgetVars, doubtVars, noticeVars, View!vars
<1> QED BY <1>1, <1>2, <1>3, <1>4 DEF Next, SetFunctions, Work

\* The gadget HAL shows the host, and answers the framework, as GadgetView
\* promises, whatever the monitor, the USB HAL and a reset pull up or down
\* meanwhile (lines 407-488, 505-589).
THEOREM GadgetIsSeenAsAsked == Spec => SeenAsAsked
<1>1. Init => View!Init
  BY DEF Init, View!Init
<1> QED BY <1>1, StepIsSeen, Invariant, PTL DEF Spec, SeenAsAsked, View!Spec

-----------------------------------------------------------------------------
(* A request comes to its end *)

\* How many steps a request, or a reset, has left at most.
StepsFrom(place) ==
  CASE place = "resetGadget" -> 12 [] place = "resetMonitor" -> 11 [] place = "vidPid" -> 10
    [] place = "setup" -> 9 [] place = "pullUp" -> 8 [] place = "startMonitor" -> 8
    [] place = "waitForPullUp" -> 7 [] place = "pulledUp" -> 6 [] place = "timedOut" -> 6
    [] place = "core" -> 5 [] place = "limit" -> 4 [] place = "error" -> 1
    [] place = "none" -> 1 [] place = "pullUpAgain" -> 1 [] OTHER -> 0
StepsLeft == StepsFrom(pc)

\* Its own steps bring it nearer to its end, and until it has come there nobody
\* takes it further away.
RequestGoesOn ==
  /\ SetFunctions \/ PullUpAgain => StepsLeft' < StepsLeft
  /\ pc # "idle" => StepsLeft' <= StepsLeft

LEMMA StepsFromPlaces ==
  /\ StepsFrom("resetGadget") = 12 /\ StepsFrom("resetMonitor") = 11
  /\ StepsFrom("vidPid") = 10 /\ StepsFrom("setup") = 9 /\ StepsFrom("pullUp") = 8
  /\ StepsFrom("startMonitor") = 8 /\ StepsFrom("waitForPullUp") = 7
  /\ StepsFrom("pulledUp") = 6 /\ StepsFrom("timedOut") = 6 /\ StepsFrom("core") = 5
  /\ StepsFrom("limit") = 4 /\ StepsFrom("error") = 1 /\ StepsFrom("none") = 1
  /\ StepsFrom("pullUpAgain") = 1 /\ StepsFrom("idle") = 0
BY DEF StepsFrom

LEMMA StepsInRange == pc \in Pcs => StepsLeft \in 0..12
BY StepsFromPlaces DEF Pcs, StepsLeft

\* Where a request, or a reset, goes from each place.
LEMMA NextPlace ==
  ASSUME SetFunctions \/ PullUpAgain
  PROVE  /\ pc = "resetGadget" => pc' \in {"resetMonitor", "error"}
         /\ pc = "resetMonitor" => pc' \in {"none", "vidPid"}
         /\ pc = "vidPid" => pc' \in {"setup", "error"}
         /\ pc = "setup" => pc' \in {"startMonitor", "pullUp", "error"}
         /\ pc = "waitForPullUp" => pc' \in {"pulledUp", "timedOut"}
         /\ pc \in {"pullUp", "pulledUp", "timedOut"} => pc' \in {"core", "error"}
         /\ pc = "startMonitor" => pc' \in {"waitForPullUp", "core"}
         /\ pc = "core" => pc' = "limit"
         /\ pc \in {"limit", "error", "none", "pullUpAgain"} => pc' = "idle"
         /\ pc # "idle"
BY DEF SetFunctions, resetGadget, resetMonitor, SetNone, validateAndSetVidPid, LinkFunctions,
       PullUp, startMonitor, waitForPullUp, TellPullUp, MoveIrq, AccessoryLimit, ReturnError,
       PullUpAgain, Go, Fail, AfterTearDown, AfterError

LEMMA StepOfRequest ==
  ASSUME TypeOK, [Next]_vars
  PROVE  [RequestGoesOn]_vars
<1> SUFFICES ASSUME Next PROVE RequestGoesOn
  BY DEF vars
<1>1. CASE SetFunctions \/ PullUpAgain
  <2>1. pc \in Pcs
    BY DEF TypeOK
  <2>2. StepsLeft' < StepsLeft
    BY <1>1, <2>1, NextPlace, StepsFromPlaces DEF StepsLeft, Pcs
  <2>3. StepsLeft \in 0..12 /\ StepsLeft' \in Int
    BY <1>1, <2>1, NextPlace, StepsFromPlaces, StepsInRange DEF StepsLeft, Pcs
  <2> QED BY <2>2, <2>3 DEF RequestGoesOn
<1>2. CASE ~(SetFunctions \/ PullUpAgain) /\ pc = "idle"
  BY <1>2 DEF RequestGoesOn
<1>3. CASE ~(SetFunctions \/ PullUpAgain) /\ pc # "idle"
  <2>1. pc' = pc \/ pc' = "idle"
    BY <1>3 DEF Next, setCurrentUsbFunctions, reset, Serve, Monitor, MonitorPullsUp,
                MonitorPullsDown, currentFunctionsAppliedCallback, MonitorUnchanged, UsbHalPulls,
                UserspaceChanges, Restart
  <2>2. StepsLeft \in 0..12
    BY StepsInRange DEF TypeOK
  <2> QED BY <1>3, <2>1, <2>2, StepsFromPlaces DEF RequestGoesOn, StepsLeft
<1> QED BY <1>1, <1>2, <1>3

\* A request has at most twelve steps, each of which leaves fewer, whatever fails
\* and whatever the monitor, the USB HAL and userspace do meanwhile
\* (lines 368-396, 505-589).
THEOREM RequestsAreBounded ==
  Spec => [](StepsLeft \in 0..12) /\ [][RequestGoesOn]_vars
<1>1. IInv => StepsLeft \in 0..12
  BY StepsInRange DEF IInv, TypeOK
<1>2. IInv /\ [Next]_vars => [RequestGoesOn]_vars
  BY StepOfRequest DEF IInv
<1> QED BY <1>1, <1>2, Invariant, PTL DEF Spec
=============================================================================
