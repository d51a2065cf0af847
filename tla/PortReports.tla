----------------------------- MODULE PortReports -----------------------------
(***************************************************************************)
(* What the framework is promised of the port statuses it is given: they   *)
(* come from one reporter, which looks at the ports, hands on what it has  *)
(* seen, and only then looks again.  So a status never overtakes a newer   *)
(* one, and no callback is given a status from before it was registered.   *)
(***************************************************************************)
CONSTANT Ports

VARIABLES
  partner,      \* per port: is there a partner?
  mCallback,    \* is a callback registered?
  sampled,      \* what the reporter has seen and not yet handed on, if anything
  reported      \* the last status the callback was given, if any

vars == <<partner, mCallback, sampled, reported>>

Connectedness == [Ports -> BOOLEAN]

Init ==
  /\ partner \in Connectedness
  /\ mCallback = FALSE
  /\ sampled = {}
  /\ reported = {}

PartnerChanges ==
  /\ partner' \in Connectedness
  /\ UNCHANGED <<mCallback, sampled, reported>>

\* A callback is registered, replaced or given up between two reports; it has
\* been told nothing.
SetCallback ==
  /\ sampled = {}
  /\ mCallback' \in BOOLEAN
  /\ reported' = {}
  /\ UNCHANGED <<partner, sampled>>

Look ==
  /\ sampled = {}
  /\ sampled' = {partner}
  /\ UNCHANGED <<partner, mCallback, reported>>

HandOn ==
  /\ sampled # {}
  /\ sampled' = {}
  /\ reported' = IF mCallback THEN sampled ELSE reported
  /\ UNCHANGED <<partner, mCallback>>

Next == PartnerChanges \/ SetCallback \/ Look \/ HandOn

Spec == Init /\ [][Next]_vars
=============================================================================
