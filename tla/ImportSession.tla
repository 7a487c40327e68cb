--------------------------- MODULE ImportSession ---------------------------
(***************************************************************************)
(* What the client may rely on when it imports something per game (sizes,  *)
(* achievements, ...): its request opens a session; each id of the request *)
(* is reported once; then the end is announced, and only after that may a  *)
(* new session begin.  The notifications carry no session number, so the   *)
(* client can tell sessions apart only because they do not overlap.        *)
(***************************************************************************)
CONSTANT Id     \* what can be imported

VARIABLES
    session,    \* where the current session is
    awaited     \* the ids not yet reported in it

vars == <<session, awaited>>

TypeOK ==
    /\ session \in {"idle", "preparing", "reporting", "aborted"}
    /\ awaited \in SUBSET Id

Init == session = "idle" /\ awaited = {}

(* A request is taken.                                                     *)
Prepare ==
    /\ session = "idle"
    /\ session' = "preparing"
    /\ UNCHANGED awaited

(* There is nothing to report, or the preparation failed.                  *)
Dismiss ==
    /\ session = "preparing"
    /\ session' = "idle"
    /\ UNCHANGED awaited

Begin(ids) ==
    /\ session = "preparing"
    /\ ids # {}
    /\ session' = "reporting"
    /\ awaited' = ids

Report(i) ==
    /\ session = "reporting"
    /\ i \in awaited
    /\ awaited' = awaited \ {i}
    /\ UNCHANGED session

(* The end is announced.                                                   *)
Finish ==
    /\ session = "reporting"
    /\ awaited = {}
    /\ session' = "idle"
    /\ UNCHANGED awaited

(* The plugin is closed: no session begins or ends any more.               *)
Abort ==
    /\ session' = "aborted"
    /\ awaited' = {}

Next ==
    \/ Prepare
    \/ Dismiss
    \/ \E ids \in SUBSET Id : Begin(ids)
    \/ \E i \in Id : Report(i)
    \/ Finish
    \/ Abort

Spec == Init /\ [][Next]_vars

=============================================================================
