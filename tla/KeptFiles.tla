------------------------------ MODULE KeptFiles ------------------------------
(***************************************************************************)
(* What a migration promises of the files it moves.  They have a home,     *)
(* where they are changed, and a spare place; each holds one version whole *)
(* or none.  Files get from one place to the other as they are, and        *)
(* neither place is given up while it holds the last whole version.        *)
(*                                                                         *)
(* As long as nothing goes wrong that version is the newest, and home      *)
(* never gets an older one back.  When home was changed while the spare    *)
(* place was still to be copied there (stale), older files may replace     *)
(* newer ones, but some version stays whole.  When a place was damaged     *)
(* (broken) no more is promised than that this loses nothing by itself.    *)
(***************************************************************************)
EXTENDS Naturals

VARIABLES
  latest,        \* the newest version
  home, spare,   \* the version each place holds: {v}, or {}
  stale, broken

vars == <<latest, home, spare, stale, broken>>

Init ==
  /\ latest = 0
  /\ home = {0}
  /\ spare = {}
  /\ stale = FALSE /\ broken = FALSE

GiveUp ==
  /\ home' \in {home, {}}
  /\ spare' \in {spare, {}}

Copy ==
  \/ spare' = home /\ UNCHANGED home
  \/ home' = spare /\ UNCHANGED spare

Move ==
  /\ GiveUp \/ Copy
  /\ ~broken => home' \cup spare' # {}
  /\ ~broken /\ ~stale => latest \in home' \cup spare' /\ home' \subseteq {latest}
  /\ broken' \in {broken, TRUE}
  /\ UNCHANGED <<latest, stale>>

\* The files are changed at home, whatever is there.
Change ==
  /\ latest' = latest + 1
  /\ home' = {latest'}
  /\ stale' \in {stale, TRUE}
  /\ latest \notin home => stale' \/ broken
  /\ UNCHANGED <<spare, broken>>

Next == Move \/ Change

Spec == Init /\ [][Next]_vars
=============================================================================
