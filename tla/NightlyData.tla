---------------------------- MODULE NightlyData ----------------------------
(***************************************************************************)
(* What the nightly job promises to those who read the marts, with no       *)
(* workflow, retry, raw table or order of building in sight: a mart never   *)
(* goes back to older data, and when a night ends without an alert every    *)
(* mart shows at least what the source had when that night began.           *)
(***************************************************************************)
EXTENDS Integers

CONSTANT Models

VARIABLES
    source,   \* the version of what football-data.org publishes
    shown,    \* the oldest version that each mart's rows are of
    night,    \* the version a running night has to show: none or one
    alerted   \* whether the last night, or its trigger, raised an alert

vars == <<source, shown, night, alerted>>

Init ==
    /\ source = 0
    /\ shown = [m \in Models |-> 0]
    /\ night = {} /\ alerted = FALSE

Publish ==
    /\ source' = source + 1
    /\ UNCHANGED <<shown, night, alerted>>

Begin ==
    /\ night = {} /\ night' = {source}
    /\ alerted' = FALSE
    /\ UNCHANGED <<source, shown>>

Show(m) ==
    /\ \E v \in shown[m] .. source : shown' = [shown EXCEPT ![m] = v]
    /\ UNCHANGED <<source, night, alerted>>

Succeed ==
    /\ night # {} /\ night' = {}
    /\ \A v \in night, m \in Models : v <= shown[m]
    /\ UNCHANGED <<source, shown, alerted>>

Fail ==
    /\ night' = {} /\ alerted' = TRUE
    /\ UNCHANGED <<source, shown>>

Next == Publish \/ Begin \/ Succeed \/ Fail \/ \E m \in Models : Show(m)

Spec == Init /\ [][Next]_vars

=============================================================================
