------------------------------ MODULE GadgetView ------------------------------
(***************************************************************************)
(* What the host and the framework are promised of a USB gadget whose      *)
(* functions the framework asks for.  The host sees a configuration or     *)
(* none, and never one turn into another while it is connected.  Once the  *)
(* gadget has been taken apart for a request, what the host sees fits that *)
(* request; a request for nothing leaves nothing to see.  A request is     *)
(* answered once, again only if the answer did not get through, and when   *)
(* it is answered with SUCCESS the host sees the gadget, or has lost it    *)
(* between its connection and the answer.                                  *)
(*                                                                         *)
(* Others may connect and disconnect the gadget as well; from then on, for *)
(* the rest of the request, the configuration need not fit; nor need it    *)
(* when it was put together out of settings that did not belong together.  *)
(***************************************************************************)
EXTENDS Naturals

CONSTANT Fitting  \* pairs of a request and a configuration that fits it

VARIABLES
  asked,     \* the functions asked for
  taken,     \* the gadget has been taken apart for them
  seen,      \* the configuration the host sees: a set with it, or {}
  answers, told,  \* how often the request was answered, and how at last
  failed,    \* an answer did not get through
  meddled,   \* others have connected or disconnected the gadget
  lost,      \* the host saw the gadget for the request, and sees it no more
  mixed      \* its settings did not belong together

vars == <<asked, taken, seen, answers, told, failed, meddled, lost, mixed>>

Nothing == {}

Init ==
  /\ taken = FALSE
  /\ seen = {}
  /\ answers = 0 /\ told = "none"
  /\ failed = FALSE /\ meddled = FALSE
  /\ lost = FALSE /\ mixed = FALSE

\* A new request, or a new process that has forgotten the last one.
Ask ==
  /\ taken' = FALSE
  /\ answers' = 0 /\ told' = "none"
  /\ failed' = FALSE /\ meddled' = FALSE
  /\ lost' = FALSE /\ mixed' = FALSE
  /\ UNCHANGED seen

TakeApart ==
  /\ taken' = TRUE
  /\ seen' = {}
  /\ UNCHANGED <<asked, answers, told, failed, meddled, lost, mixed>>

Disconnect ==
  /\ seen' = {}
  /\ UNCHANGED lost \/ (taken /\ seen # {} /\ lost' = TRUE)

Connect ==
  /\ seen = {}
  /\ taken => asked # Nothing
  /\ UNCHANGED lost
  /\ taken /\ ~meddled' /\ ~mixed' => \E c \in seen' : <<asked, c>> \in Fitting

Answer ==
  /\ answers = 0 \/ failed
  /\ answers' = answers + 1
  /\ (told' = "SUCCESS" /\ asked # Nothing /\ ~meddled /\ ~lost) => seen' # {}

\* What is done for the request, step by step.
Serve ==
  /\ UNCHANGED <<asked, taken>>
  /\ UNCHANGED <<seen, lost>> \/ Disconnect \/ Connect
  /\ UNCHANGED <<answers, told>> \/ Answer
  /\ failed' \in {failed, TRUE} /\ meddled' \in {meddled, TRUE}
  /\ mixed' \in {mixed, TRUE}

Next == Ask \/ TakeApart \/ Serve

Spec == Init /\ [][Next]_vars
=============================================================================
