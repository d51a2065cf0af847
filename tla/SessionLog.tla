------------------------------ MODULE SessionLog ------------------------------
(***************************************************************************)
(* What the stats service is promised of the data sessions it is told of.  *)
(* Sessions follow each other, one at a time.  Each is told of once at     *)
(* most, while it lasts or as it ends, by entries that belong together:    *)
(* of ports of one kind, one entry per port, and of nothing that happened  *)
(* in another session.  What was told is never taken back.                 *)
(*                                                                         *)
(* A session need not be told of at all: the service may be missing.       *)
(***************************************************************************)
EXTENDS Integers, Sequences

CONSTANT Kinds  \* sets of ports that are in use together

VARIABLES
  session,   \* the current one
  told,      \* it has been told of
  log        \* what was told

vars == <<session, told, log>>

Entry(port, states) == [port |-> port, session |-> session, states |-> states]

Init ==
  /\ session = 0
  /\ told = FALSE
  /\ log = {}

\* The entries of the current session are added, all at once.
Add ==
  /\ log \subseteq log'
  /\ \E ports \in Kinds : \A e \in log' \ log :
       /\ e.port \in ports
       /\ e = Entry(e.port, e.states)
       /\ \A i \in DOMAIN e.states : e.states[i] = session
       /\ \A d \in log' \ log : d.port = e.port => d = e

Tell ==
  /\ ~told
  /\ Add
  /\ told' = TRUE
  /\ UNCHANGED session

\* A session that has been told of ends silently.
Begin ==
  /\ session' = session + 1
  /\ told' = FALSE
  /\ UNCHANGED log \/ (~told /\ Add)

Next == Tell \/ Begin

Spec == Init /\ [][Next]_vars
=============================================================================
