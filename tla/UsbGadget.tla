------------------------------- MODULE UsbGadget -------------------------------
(***************************************************************************)
(* The gadget HAL, usb/gadget/UsbGadget.cpp: setCurrentUsbFunctions takes  *)
(* the USB gadget apart and puts it together with other functions, and     *)
(* pulls it up itself or, when a function waits for a userspace process to *)
(* write descriptors, leaves that to the monitor thread.  service_gadget   *)
(* has one binder thread, so calls are served one after the other.         *)
(*                                                                         *)
(* resetGadget, addGenericAndroidFunctions, linkFunction and MonitorFfs    *)
(* belong to libpixelusb and are modelled by how they are used: reset()    *)
(* returns when the monitor thread has ended.                              *)
(***************************************************************************)
EXTENDS Integers, Sequences

Functions == {"ADB", "ACCESSORY", "MTP", "MIDI", "PTP", "RNDIS", "AUDIO_SOURCE", "UVC", "NCM"}

CONSTANTS
  Requests,  \* what the framework asks for
  Vendors,   \* values of the vendor functions property; "user" stands for "" too
  MaxCalls   \* bound: calls and restarts

ASSUME RequestsAssumption == Requests \subseteq SUBSET Functions
ASSUME VendorsAssumption == Vendors \subseteq {"user", "dm", "etr_miu", "uwb_acm", "other"}
ASSUME MaxCallsAssumption == MaxCalls \in Nat

VARIABLES
  mCurrentUsbFunctions, mCurrentUsbFunctionsApplied,
  pc, callback, status,  \* the binder thread; is there a callback?
  monitor,               \* MonitorFfs: off, watching, or in the callback
  gadgetPullup,          \* what waitForPullUp waits for
  calls

VARIABLES
  pullup,                \* is the gadget bound to the controller?
  links, product,        \* functions linked in its configuration, product id
  mGadgetIrqPath,        \* has the gadget's interrupt been found?
  core,                  \* the core that serves it
  limitSet, limitOn,     \* accessory current limit: 1.3 A is set, is enforced
  descriptors,           \* userspace has written those of the linked functions
  vendor                 \* the vendor functions property

\* What an observer sees of the last request.
VARIABLES
  known,     \* it was begun by this process, and could take the gadget apart
  late,      \* the monitor of the request before announced after it had begun
  pulled,    \* the USB HAL or a reset pulled the gadget up or down meanwhile
  lost,      \* the monitor pulled it down when its pullup was about to be told
  settled,   \* of its last settings, "core" and "limit", those that were written
  read,      \* the values of the vendor functions property that were read
  notified,  \* times that its callback was called
  told,      \* what it was told last
  refused    \* a callback failed

halVars == <<mCurrentUsbFunctions, mCurrentUsbFunctionsApplied>>
callVars == <<callback, status, calls>>
monitorVars == <<monitor, gadgetPullup>>
gadgetVars == <<pullup, links, product>>
coreVars == <<mGadgetIrqPath, core>>
limitVars == <<limitSet, limitOn, settled>>
envVars == <<descriptors, vendor>>
doubtVars == <<known, late, pulled, lost>>
noticeVars == <<notified, told, refused>>
vars == <<halVars, pc, callVars, monitorVars, gadgetVars, coreVars, limitVars, envVars,
          doubtVars, read, noticeVars>>

\* Nothing is linked after boot.  mCurrentUsbFunctions and
\* mCurrentUsbFunctionsApplied are not initialized.
Init ==
  /\ mCurrentUsbFunctions \in Requests /\ mCurrentUsbFunctionsApplied \in BOOLEAN
  /\ pc = "idle" /\ callback = FALSE /\ status = "SUCCESS" /\ calls = 0
  /\ monitor = "off" /\ gadgetPullup = FALSE
  /\ pullup = FALSE /\ links = <<>> /\ product = "none"
  /\ mGadgetIrqPath = FALSE /\ core = "any"
  /\ limitSet = FALSE /\ limitOn = FALSE /\ settled = {}
  /\ descriptors \in BOOLEAN /\ vendor \in Vendors
  /\ known = FALSE /\ late = FALSE /\ pulled = FALSE /\ lost = FALSE
  /\ read = {} /\ notified = 0 /\ told = "none" /\ refused = FALSE

-----------------------------------------------------------------------------
(* Functions and products *)

\* Product ids, for the default vendor functions only and for any.
UserProducts ==
  {<<{"MTP"}, "4ee1">>, <<{"ADB", "MTP"}, "4ee2">>, <<{"RNDIS"}, "4ee3">>,
   <<{"RNDIS", "NCM"}, "4ee3">>, <<{"ADB", "RNDIS"}, "4ee4">>,
   <<{"ADB", "RNDIS", "NCM"}, "4ee4">>, <<{"PTP"}, "4ee5">>, <<{"ADB", "PTP"}, "4ee6">>,
   <<{"ADB"}, "4ee7">>, <<{"MIDI"}, "4ee8">>, <<{"ADB", "MIDI"}, "4ee9">>,
   <<{"UVC"}, "4eed">>, <<{"ADB", "UVC"}, "4eee">>}
AnyProducts ==
  {<<{"ACCESSORY"}, "2d00">>, <<{"ADB", "ACCESSORY"}, "2d01">>, <<{"AUDIO_SOURCE"}, "2d02">>,
   <<{"ADB", "AUDIO_SOURCE"}, "2d03">>, <<{"ACCESSORY", "AUDIO_SOURCE"}, "2d04">>,
   <<{"ADB", "ACCESSORY", "AUDIO_SOURCE"}, "2d05">>, <<{"NCM"}, "4eeb">>,
   <<{"ADB", "NCM"}, "4eec">>}
VendorProducts(v) ==
  CASE v = "dm" -> {<<f \cup {"ADB"}, "6862">> : f \in {{}, {"RNDIS"}, {"NCM"}, {"RNDIS", "NCM"}}}
    [] v \in {"etr_miu", "uwb_acm"} -> {<<{"ADB"}, "4ee2">>}
    [] OTHER -> {}

Overridden(v) == {e[1] : e \in VendorProducts(v)}
ProductsOf(v) ==
  VendorProducts(v) \cup {e \in AnyProducts : e[1] \notin Overridden(v)}
                    \cup {e \in UserProducts : v = "user"}
Products == {"none"} \cup {e[2] : e \in UNION {ProductsOf(v) : v \in Vendors}}

\* FunctionFS: a userspace process writes the descriptors.
Ffs == {"MTP", "PTP", "ADB"}

If(condition, function) == IF condition THEN <<function>> ELSE <<>>

\* What addGenericAndroidFunctions links.
Generic(f) ==
  If("MTP" \in f, "MTP") \o If("PTP" \in f, "PTP") \o If("MIDI" \in f, "MIDI")
  \o If("ACCESSORY" \in f, "ACCESSORY") \o If("AUDIO_SOURCE" \in f, "AUDIO_SOURCE")
  \o If("RNDIS" \in f, "RNDIS") \o If("UVC" \in f, "UVC")

VendorLinks(f, v) ==
  CASE v = "dm" -> IF "RNDIS" \in f THEN <<"acm", "dm">> ELSE <<"dm", "acm">>
    [] v \in {"etr_miu", "uwb_acm"} -> <<v>>
    [] OTHER -> <<>>

LinksOf(f, v) ==
  Generic(f) \o If("NCM" \in f /\ v # "dm", "NCM") \o VendorLinks(f, v)
  \o If("ADB" \in f, "ADB") \o If("NCM" \in f /\ v = "dm", "NCM")

FfsLinked == \E i \in DOMAIN links : links[i] \in Ffs

\* The kernel binds a gadget that has functions, and their descriptors, once.
CanPullUp == ~pullup /\ links # <<>> /\ (FfsLinked => descriptors)
-----------------------------------------------------------------------------
(* setCurrentUsbFunctions *)

Go(to) == pc' = to
Fail(why) == status' = why /\ pc' = "error"

\* Serving a call.
Serve == pc = "idle" /\ calls < MaxCalls /\ calls' = calls + 1

\* The interrupt is listed while the controller runs, and the file may be
\* unreadable.
getUsbGadgetIrqPath == mGadgetIrqPath' \in {mGadgetIrqPath, mGadgetIrqPath \/ pullup}

setCurrentUsbFunctions(functions, cb) ==
  /\ Serve
  /\ mCurrentUsbFunctions' = functions
  /\ mCurrentUsbFunctionsApplied' = FALSE
  /\ callback' = cb /\ status' = "SUCCESS"
  /\ known' = TRUE /\ late' = FALSE /\ pulled' = FALSE /\ lost' = FALSE
  /\ read' = {} /\ notified' = 0 /\ told' = "none" /\ refused' = FALSE
  /\ getUsbGadgetIrqPath /\ settled' = {}
  /\ Go("resetGadget")
  /\ UNCHANGED <<monitorVars, gadgetVars, core, limitSet, limitOn, envVars>>

\* tearDownGadget: pull the gadget down and unlink its functions, or fail.
resetGadget ==
  /\ pc = "resetGadget"
  /\ \/ /\ pullup' = FALSE /\ links' = <<>>
        /\ Go("resetMonitor")
        /\ UNCHANGED <<known, status>>
     \/ /\ pullup' \in {pullup, FALSE} /\ links' \in {links, <<>>}
        /\ links' = <<>> => ~pullup'
        /\ known' = FALSE
        /\ Fail("ERROR")
  /\ UNCHANGED <<halVars, callback, calls, monitorVars, product, coreVars, limitVars, envVars, late,
                 pulled, lost, read, noticeVars>>

AfterTearDown == IF mCurrentUsbFunctions = {} THEN "none" ELSE "vidPid"

MonitorForgotten == UNCHANGED monitorVars
StopMonitor == monitor' = "off" /\ gadgetPullup' = FALSE

\* tearDownGadget: the monitor thread ends, after a callback it is in.
resetMonitor ==
  /\ pc = "resetMonitor"
  /\ monitor \in {"off", "watch"}
  /\ StopMonitor
  /\ Go(AfterTearDown)
  /\ UNCHANGED <<halVars, callVars, gadgetVars, coreVars, limitVars, envVars, doubtVars, read,
                 noticeVars>>

\* Calling the callback, which may fail.
Notify(what) ==
  /\ notified' = notified + 1
  /\ told' = what
  /\ refused' \in {refused, TRUE}

\* NONE: done once the callback is told.
SetNone ==
  /\ pc = "none"
  /\ IF callback THEN Notify("SUCCESS") ELSE UNCHANGED noticeVars
  /\ Go("idle")
  /\ UNCHANGED <<halVars, callVars, monitorVars, gadgetVars, coreVars, limitVars, envVars,
                 doubtVars, read>>

\* UVC also has to be enabled by a property.
validateAndSetVidPid ==
  /\ pc = "vidPid"
  /\ read' = read \cup {vendor}
  /\ \/ \E e \in ProductsOf(vendor) :
          /\ e[1] = mCurrentUsbFunctions
          /\ product' = e[2]
          /\ Go("setup")
          /\ UNCHANGED status
     \/ /\ Fail("ERROR")  \* setVidPid failed
        /\ \E e \in ProductsOf(vendor) : e[1] = mCurrentUsbFunctions
        /\ UNCHANGED product
     \/ /\ \/ \A e \in ProductsOf(vendor) : e[1] # mCurrentUsbFunctions
           \/ "UVC" \in mCurrentUsbFunctions
        /\ Fail("CONFIGURATION_NOT_SUPPORTED")
        /\ UNCHANGED product
  /\ UNCHANGED <<halVars, callback, calls, monitorVars, pullup, links, coreVars, limitVars, envVars,
                 doubtVars, noticeVars>>

FfsAsked == mCurrentUsbFunctions \cap Ffs # {}

\* setupFunctions: link the functions in turn, up to the first that fails.
LinkFunctions ==
  /\ pc = "setup"
  /\ read' = read \cup {vendor}
  /\ LET wanted == LinksOf(mCurrentUsbFunctions, vendor)
     IN \/ /\ links' = wanted
           /\ Go(IF FfsAsked THEN "startMonitor" ELSE "pullUp")
           /\ UNCHANGED status
        \/ /\ \E n \in 0..(Len(wanted) - 1) : links' = SubSeq(wanted, 1, n)
           /\ Fail("ERROR")
  /\ UNCHANGED <<halVars, callback, calls, monitorVars, pullup, product, coreVars, limitVars,
                 envVars, doubtVars, noticeVars>>

\* setupFunctions without FunctionFS: pull the gadget up right away.
PullUp ==
  /\ pc = "pullUp"
  /\ \/ /\ CanPullUp
        /\ pullup' = TRUE
        /\ mCurrentUsbFunctionsApplied' = TRUE
        /\ IF callback THEN Notify("SUCCESS") ELSE UNCHANGED noticeVars
        /\ Go("core")
        /\ UNCHANGED status
     \/ /\ Fail("ERROR")
        /\ UNCHANGED <<pullup, mCurrentUsbFunctionsApplied, noticeVars>>
  /\ UNCHANGED <<mCurrentUsbFunctions, callback, calls, monitorVars, links, product, coreVars,
                 limitVars, envVars, doubtVars, read>>

\* setupFunctions with FunctionFS: leave it to the monitor thread.
startMonitor ==
  /\ pc = "startMonitor"
  /\ monitor' = "watch"
  /\ Go(IF callback THEN "waitForPullUp" ELSE "core")
  /\ UNCHANGED <<halVars, callVars, gadgetPullup, gadgetVars, coreVars, limitVars, envVars,
                 doubtVars, read, noticeVars>>

NeverTimesOut == FALSE
TimedOut == ~gadgetPullup  \* at any time

\* The monitor's lock is released when the wait ends.
waitForPullUp ==
  /\ pc = "waitForPullUp"
  /\ \/ gadgetPullup /\ Go("pulledUp")
     \/ TimedOut /\ Go("timedOut")
  /\ UNCHANGED <<halVars, callVars, monitorVars, gadgetVars, coreVars, limitVars, envVars,
                 doubtVars, read, noticeVars>>

TimeoutIgnored == "SUCCESS"
WaitResult == IF pc = "pulledUp" THEN "SUCCESS" ELSE "ERROR"

TimeoutFails == refused' \/ pc = "timedOut"
WaitFailed == refused'

\* A callback that fails makes the request fail, a timeout does not.
TellPullUp ==
  /\ pc \in {"pulledUp", "timedOut"}
  /\ Notify(WaitResult)
  /\ IF WaitFailed THEN Fail("ERROR") ELSE Go("core") /\ UNCHANGED status
  /\ UNCHANGED <<halVars, callback, calls, monitorVars, gadgetVars, coreVars, limitVars, envVars,
                 doubtVars, read>>

CoreFor == IF "NCM" \in mCurrentUsbFunctions THEN "big" ELSE "medium"

\* NCM is served by a big core, if the write succeeds.
MoveIrq ==
  /\ pc = "core"
  /\ \/ mGadgetIrqPath /\ core' = CoreFor /\ settled' = settled \cup {"core"}
     \/ UNCHANGED <<core, settled>>
  /\ Go("limit")
  /\ UNCHANGED <<halVars, callVars, monitorVars, gadgetVars, mGadgetIrqPath, limitSet, limitOn,
                 envVars, doubtVars, read, noticeVars>>

\* Set the limit, then vote for it; neither may come to pass.
LimitCurrent ==
  \/ UNCHANGED limitVars
  \/ limitSet' = TRUE /\ UNCHANGED <<limitOn, settled>>
  \/ limitSet' = TRUE /\ limitOn' = TRUE /\ settled' = settled \cup {"limit"}

UnvoteForgotten == settled' = settled \cup {"limit"} /\ UNCHANGED <<limitSet, limitOn>>
Unvote ==
  /\ \/ limitOn' = FALSE /\ settled' = settled \cup {"limit"}
     \/ UNCHANGED <<limitOn, settled>>
  /\ UNCHANGED limitSet

\* An accessory on a charger gets a current limit, others lose it.
AccessoryLimit ==
  /\ pc = "limit"
  /\ ("ACCESSORY" \in mCurrentUsbFunctions /\ LimitCurrent) \/ Unvote
  /\ Go("idle")
  /\ UNCHANGED <<halVars, callVars, monitorVars, gadgetVars, coreVars, envVars, doubtVars, read,
                 noticeVars>>

AfterError == "idle"

\* Label error.
ReturnError ==
  /\ pc = "error"
  /\ IF callback THEN Notify(status) ELSE UNCHANGED noticeVars
  /\ Go(AfterError)
  /\ UNCHANGED <<halVars, callVars, monitorVars, gadgetVars, coreVars, limitVars, envVars,
                 doubtVars, read>>
SetFunctions ==
  \/ resetGadget \/ resetMonitor \/ SetNone \/ validateAndSetVidPid \/ LinkFunctions \/ PullUp
  \/ startMonitor \/ waitForPullUp \/ TellPullUp \/ MoveIrq \/ AccessoryLimit
  \/ ReturnError

-----------------------------------------------------------------------------
(* reset *)

\* Pull the gadget down.
reset ==
  /\ Serve
  /\ \/ /\ pullup' = FALSE
        /\ pulled' = (pulled \/ ~pullup)
        /\ Go("pullUpAgain")
     \/ UNCHANGED <<pullup, pulled, pc>>
  /\ UNCHANGED <<halVars, callback, status, monitorVars, links, product, coreVars, limitVars,
                 envVars, known, late, lost, read, noticeVars>>

\* And up; behind the back of a monitor that has seen its process restart.
PullUpAgain ==
  /\ pc = "pullUpAgain"
  /\ \/ /\ CanPullUp
        /\ pullup' = TRUE
        /\ pulled' = (pulled \/ (monitor # "off" /\ ~gadgetPullup))
     \/ pulled' = TRUE /\ UNCHANGED pullup
  /\ Go("idle")
  /\ UNCHANGED <<halVars, callVars, monitorVars, links, product, coreVars, limitVars, envVars,
                 known, late, lost, read, noticeVars>>

-----------------------------------------------------------------------------
(* The monitor thread *)

MonitorUnchanged == UNCHANGED <<pc, callVars, links, product, coreVars, limitVars, envVars, known,
                                pulled, read, noticeVars>>

\* The descriptors are there: pull the gadget up and announce it.
MonitorPullsUp ==
  /\ monitor = "watch" /\ ~gadgetPullup
  /\ descriptors /\ CanPullUp
  /\ pullup' = TRUE /\ gadgetPullup' = TRUE
  /\ monitor' = "announceUp"
  /\ MonitorUnchanged /\ UNCHANGED <<halVars, late, lost>>

\* The process has gone: pull it down.
MonitorPullsDown ==
  /\ monitor = "watch" /\ gadgetPullup
  /\ ~descriptors
  /\ pullup' = FALSE /\ gadgetPullup' = FALSE
  /\ monitor' = "announceDown"
  /\ lost' = (lost \/ (pc = "pulledUp" /\ pullup))
  /\ MonitorUnchanged /\ UNCHANGED <<halVars, late>>

AlwaysApplied == TRUE
AppliedInRequest == monitor = "announceUp" /\ pc # "idle"
functionsApplied == monitor = "announceUp"

\* Also lets the kernel lower its enumeration timeout.
currentFunctionsAppliedCallback ==
  /\ monitor \in {"announceUp", "announceDown"}
  /\ mCurrentUsbFunctionsApplied' = functionsApplied
  /\ monitor' = "watch"
  /\ late' = (late \/ pc \in {"resetGadget", "resetMonitor"})
  /\ MonitorUnchanged /\ UNCHANGED <<mCurrentUsbFunctions, gadgetPullup, pullup, lost>>

Monitor == MonitorPullsUp \/ MonitorPullsDown \/ currentFunctionsAppliedCallback

-----------------------------------------------------------------------------
(* Others *)

\* The USB HAL pulls the gadget up or down.
UsbHalPulls ==
  /\ \/ CanPullUp /\ pullup' = TRUE
     \/ pullup /\ pullup' = FALSE
  /\ pulled' = TRUE
  /\ UNCHANGED <<halVars, pc, callVars, monitorVars, links, product, coreVars, limitVars, envVars,
                 known, late, lost, read, noticeVars>>

\* Userspace processes come and go, the property is set.
UserspaceChanges ==
  /\ descriptors' \in BOOLEAN /\ vendor' \in Vendors
  /\ UNCHANGED <<halVars, pc, callVars, monitorVars, gadgetVars, coreVars, limitVars, doubtVars,
                 read, noticeVars>>

\* The HAL dies and is started again; what the kernel has stays.
Restart ==
  /\ calls < MaxCalls /\ calls' = calls + 1
  /\ mCurrentUsbFunctions' \in Requests /\ mCurrentUsbFunctionsApplied' \in BOOLEAN
  /\ pc' = "idle" /\ callback' = FALSE /\ status' = "SUCCESS"
  /\ monitor' = "off" /\ gadgetPullup' = FALSE
  /\ known' = FALSE /\ late' = FALSE /\ pulled' = FALSE /\ lost' = FALSE
  /\ read' = {} /\ notified' = 0 /\ told' = "none" /\ refused' = FALSE
  /\ mGadgetIrqPath' = FALSE /\ settled' = {}
  /\ UNCHANGED <<gadgetVars, core, limitSet, limitOn, envVars>>

-----------------------------------------------------------------------------
Next ==
  \/ \E f \in Requests, cb \in BOOLEAN : setCurrentUsbFunctions(f, cb)
  \/ SetFunctions \/ reset \/ PullUpAgain \/ Monitor
  \/ UsbHalPulls \/ UserspaceChanges \/ Restart

Spec == Init /\ [][Next]_vars

\* A call in progress goes on, and so does the monitor thread.
FairSpec == Spec /\ WF_vars(SetFunctions) /\ WF_vars(PullUpAgain) /\ WF_vars(Monitor)

-----------------------------------------------------------------------------
(* Properties *)

Pcs == {"idle", "resetGadget", "resetMonitor", "none", "vidPid", "setup", "pullUp",
        "startMonitor", "waitForPullUp", "pulledUp", "timedOut", "core", "limit", "error",
        "pullUpAgain"}
Statuses == {"SUCCESS", "ERROR", "CONFIGURATION_NOT_SUPPORTED"}

\* Every variable has its type.
TypeOK ==
  /\ mCurrentUsbFunctions \in SUBSET Functions /\ mCurrentUsbFunctionsApplied \in BOOLEAN
  /\ pc \in Pcs /\ callback \in BOOLEAN /\ status \in Statuses /\ calls \in 0..MaxCalls
  /\ monitor \in {"off", "watch", "announceUp", "announceDown"} /\ gadgetPullup \in BOOLEAN
  /\ pullup \in BOOLEAN /\ product \in Products
  /\ links \in Seq(Functions \cup {"acm", "dm", "etr_miu", "uwb_acm"})
  /\ mGadgetIrqPath \in BOOLEAN /\ core \in {"any", "medium", "big"}
  /\ limitSet \in BOOLEAN /\ limitOn \in BOOLEAN /\ settled \subseteq {"core", "limit"}
  /\ descriptors \in BOOLEAN /\ vendor \in Vendors
  /\ known \in BOOLEAN /\ late \in BOOLEAN /\ pulled \in BOOLEAN /\ lost \in BOOLEAN
  /\ read \subseteq Vendors /\ notified \in 0..2 /\ told \in Statuses \cup {"none"}
  /\ refused \in BOOLEAN

\* What getCurrentUsbFunctions reports as applied is what the gadget shows:
\* it is up, but for a monitor that announces otherwise next (lines 121-137).
AppliedMeansUp ==
  (pc = "idle" /\ mCurrentUsbFunctionsApplied /\ known /\ ~late /\ ~pulled)
    => pullup \/ monitor = "announceDown"

\* A gadget that is up shows the functions asked for last, all of them, and a
\* product id that goes with them, never what a failed request left half
\* linked, provided that the vendor functions did not change between the
\* two reads of them; after a request for no function nothing pulls it up any
\* more (lines 174-185, 407-488, 522-531).
PresentedAsAsked ==
  /\ (pc = "idle" /\ mCurrentUsbFunctions = {} /\ known)
       => ~pullup /\ links = <<>> /\ monitor = "off"
  /\ \A v \in Vendors :
       (pc = "idle" /\ pullup /\ known /\ ~pulled /\ read = {v})
         => /\ links = LinksOf(mCurrentUsbFunctions, v)
            /\ <<mCurrentUsbFunctions, product>> \in ProductsOf(v)

\* A request's callback is called once, unless it fails (lines 463-464,
\* 480-486, 522-526, 583-586).
NotifiedOnce ==
  (pc = "idle" /\ ~refused) => notified = (IF callback THEN 1 ELSE 0)

\* Whoever is told SUCCESS has the gadget up, though the monitor may pull it
\* down after the wait has seen it up and before that is told (lines 458-483).
SuccessMeansUp ==
  [][(/\ notified' = notified + 1 /\ told' = "SUCCESS"
      /\ mCurrentUsbFunctions # {} /\ ~pulled /\ ~lost) => pullup']_vars

\* The host and the framework see of the gadget what GadgetView promises them:
\* its configuration never changes while it is connected, and once a request
\* has taken the one before apart it fits that request, with product id and
\* functions of the same vendor functions if these did not change between the
\* two reads of them (lines 407-488, 505-589).
Fitting ==
  UNION {{<<e[1], <<LinksOf(e[1], v), e[2]>>>> : e \in ProductsOf(v)} : v \in Vendors}
View == INSTANCE GadgetView
          WITH asked <- mCurrentUsbFunctions, taken <- known /\ pc # "resetGadget",
               seen <- IF pullup THEN {<<links, product>>} ELSE {},
               answers <- notified, failed <- refused, meddled <- pulled,
               mixed <- \E v, w \in read : v # w
SeenAsAsked == View!Spec

\* What earlier requests left to the power supply and to the interrupt does
\* not outlast a request whose last writes succeeded: the limit is then
\* voted for, at 1.3 A, for an accessory only, and the core is that of the
\* functions the gadget has (lines 507-509, 544-576).
LeftoversGone ==
  /\ limitOn => limitSet
  /\ "limit" \in settled /\ limitOn => "ACCESSORY" \in mCurrentUsbFunctions
  /\ "core" \in settled => core = CoreFor

\* Every request ends, whatever the monitor waits for.
RequestsEnd == pc # "idle" ~> pc = "idle"

\* Descriptors that stay bring the gadget up and have it reported so, also
\* after the request's timeout and after their process was restarted
\* (lines 469-473).
FfsConverges ==
  <>[](descriptors /\ monitor # "off" /\ known /\ ~pulled)
    => <>[](pullup /\ mCurrentUsbFunctionsApplied)

=============================================================================
