-------------------------- MODULE NightlyPipeline --------------------------
(***************************************************************************)
(* The nightly run in the cloud: the scheduler starts a workflow            *)
(* (terraform/gcp/workflows/nightly_pipeline.yaml) that runs the ingest job *)
(* and then the transform job, each of them football_pipeline/pipeline.py   *)
(* in a container that the platform starts again when it fails.  The Dagster*)
(* assets (orchestration/definitions.py) are the same two steps with one    *)
(* attempt each.                                                            *)
(*                                                                         *)
(* An attempt of the ingest reads the source resource by resource and then  *)
(* loads the raw tables one by one; an attempt of the transform builds the  *)
(* models in the order of their references, and tests each once it is       *)
(* built.  Either may end at any point, by an error or by being killed.     *)
(* What the rows say is left out: a table has the version of the source     *)
(* that it was read from, a model the oldest version it is made of.  A      *)
(* version is one of what the run requests: that a competition still in its *)
(* old season is not requested (football_data_source.py:112-115) does not   *)
(* show here.                                                               *)
(***************************************************************************)
EXTENDS Integers

CONSTANTS
    Sources,      \* the raw tables
    Models,       \* the dbt models that are tables
    Upstream,     \* per model: the raw tables and models it is made of
    Attempts,     \* how often the platform runs a job's task
    MaxVersion,   \* bound: versions of the source
    MaxFaults     \* bound: failures

ASSUME PipelineAssumption ==
    /\ Attempts \in Nat \ {0} /\ MaxVersion \in Nat /\ MaxFaults \in Nat
    /\ Sources \cap Models = {}
    /\ Upstream \in [Models -> SUBSET (Sources \cup Models) \ {{}}]

VARIABLES
    source,     \* the version the source publishes
    raw,        \* the version of each raw table
    built,      \* the version of each model
    job,        \* the job that runs, if any
    attempt,    \* its number
    begun,      \* history: what the source had when this attempt began
    pulled,     \* what the ingest has read: per table, none or one version
    loaded,     \* the tables it has loaded
    done,       \* the models the transform has built, and which passed
    failed,     \* the models that failed to build, or failed a test
    night,      \* history: what the source had when the night began
    loadedBy,   \* history: the attempt of this night that loaded a table, or 0
    alerted,    \* whether the last night raised an alert
    faults      \* how much has failed so far (a bound)

runVars == <<begun, pulled, loaded, done, failed>>
vars == <<source, raw, built, job, attempt, runVars, night, loadedBy, alerted, faults>>

Init ==
    /\ source = 0
    /\ raw = [t \in Sources |-> 0] /\ built = [m \in Models |-> 0]
    /\ job = "none" /\ attempt = 1
    /\ begun = 0 /\ pulled = [t \in Sources |-> {}] /\ loaded = {}
    /\ done = {} /\ failed = {}
    /\ night = {} /\ loadedBy = [t \in Sources |-> 0] /\ alerted = FALSE
    /\ faults = 0

Publish ==
    /\ source < MaxVersion /\ source' = source + 1
    /\ UNCHANGED <<raw, built, job, attempt, runVars, night, loadedBy, alerted,
                   faults>>

Fault == faults < MaxFaults /\ faults' = faults + 1

(* Mutant: what an earlier attempt has read and loaded counts for this one. *)
RunOn(name, n) ==
    /\ job' = name /\ attempt' = n /\ begun' = source
    /\ done' = {} /\ failed' = {}
    /\ UNCHANGED <<pulled, loaded>>

\* main(["ingest"]) or main(["transform"]) in a fresh container.
Run(name, n) ==
    /\ job' = name /\ attempt' = n /\ begun' = source
    /\ pulled' = [t \in Sources |-> {}] /\ loaded' = {}
    /\ done' = {} /\ failed' = {}

\* The scheduler's request creates an execution of the workflow, or fails.
Trigger ==
    /\ job = "none"
    /\ Run("ingest", 1)
    /\ night' = {source} /\ loadedBy' = [t \in Sources |-> 0] /\ alerted' = FALSE
    /\ UNCHANGED <<source, raw, built, faults>>

TriggerFails ==
    /\ job = "none" /\ Fault
    /\ alerted' = TRUE
    /\ UNCHANGED <<source, raw, built, job, attempt, runVars, night, loadedBy>>

\* A resource is drained.  The API may have moved on since the one before,
\* and the run's ResponseCache may still hold an earlier payload of this run,
\* but none of the run before it.
Extract(t) ==
    /\ job = "ingest" /\ pulled[t] = {}
    /\ \E v \in begun .. source : pulled' = [pulled EXCEPT ![t] = {v}]
    /\ UNCHANGED <<source, raw, built, job, attempt, begun, loaded, done, failed,
                   night, loadedBy, alerted, faults>>

\* pipeline.run: nothing is loaded before everything is extracted.
Load(t) ==
    /\ job = "ingest" /\ t \notin loaded
    /\ \A u \in Sources : pulled[u] # {}
    /\ \E v \in pulled[t] : raw' = [raw EXCEPT ![t] = v]
    /\ loaded' = loaded \cup {t}
    /\ loadedBy' = [loadedBy EXCEPT ![t] = attempt]
    /\ UNCHANGED <<source, built, job, attempt, begun, pulled, done, failed,
                   night, alerted, faults>>

IngestSucceeded == job = "ingest" /\ loaded = Sources

RunTransform ==
    /\ IngestSucceeded
    /\ Run("transform", 1)
    /\ UNCHANGED <<source, raw, built, night, loadedBy, alerted, faults>>

Version(u) == IF u \in Sources THEN raw[u] ELSE built[u]

\* The models it refers to have passed, and it is none of those tried.
Ready(m) ==
    /\ job = "transform" /\ m \notin done \cup failed
    /\ Upstream[m] \cap Models \subseteq done

\* A full rebuild from what the upstream tables hold now.
Rebuilt(m) ==
    \E u \in Upstream[m] :
        /\ \A w \in Upstream[m] : Version(u) <= Version(w)
        /\ built' = [built EXCEPT ![m] = Version(u)]

Build(m) ==
    /\ Ready(m) /\ Rebuilt(m)
    /\ done' = done \cup {m}
    /\ UNCHANGED <<source, raw, job, attempt, begun, pulled, loaded, failed,
                   night, loadedBy, alerted, faults>>

\* A test fails once the new table is in place; an error leaves the old one.
\* Models downstream of it are skipped, the others go on.
BuildFails(m) ==
    /\ Ready(m) /\ Fault
    /\ Rebuilt(m) \/ built' = built
    /\ failed' = failed \cup {m}
    /\ UNCHANGED <<source, raw, job, attempt, begun, pulled, loaded, done,
                   night, loadedBy, alerted>>

(* Mutant: the exit code of dbt is not looked at. *)
Exited == job = "transform" /\ \A m \in Models : ~ Ready(m)

\* dbt build exits with 0.
TransformSucceeded == job = "transform" /\ done = Models

Finish ==
    /\ TransformSucceeded
    /\ job' = "none" /\ night' = {}
    /\ UNCHANGED <<source, raw, built, attempt, runVars, loadedBy, alerted, faults>>

\* The attempt is killed or raises; dbt build exits with 1 only when no more
\* model is ready.
AttemptFails ==
    \/ job \in {"ingest", "transform"} /\ Fault
    \/ /\ job = "transform" /\ failed # {} /\ \A m \in Models : ~ Ready(m)
       /\ UNCHANGED faults

\* The platform runs the task again, from its beginning.
Retry ==
    /\ AttemptFails
    /\ attempt < Attempts /\ Run(job, attempt + 1)
    /\ UNCHANGED <<source, raw, built, night, loadedBy, alerted>>

\* jobs.run raises: the execution ends as FAILED, which the alert policy sees.
GiveUp ==
    /\ AttemptFails
    /\ attempt = Attempts
    /\ job' = "none" /\ night' = {} /\ alerted' = TRUE
    /\ UNCHANGED <<source, raw, built, attempt, runVars, loadedBy>>

Progress ==
    \/ Trigger \/ RunTransform \/ Finish \/ Retry \/ GiveUp
    \/ \E t \in Sources : Extract(t) \/ Load(t)
    \/ \E m \in Models : Build(m)

Next == Progress \/ Publish \/ TriggerFails \/ \E m \in Models : BuildFails(m)

\* Every night is triggered, and no attempt hangs for ever.
Spec == Init /\ [][Next]_vars /\ WF_vars(Progress)

-----------------------------------------------------------------------------
(* Properties *)

(* Seen from the marts, the nightly run is NightlyData, for all retries,    *)
(* partial loads and skipped models: no mart goes back, and no night ends   *)
(* in silence with a mart older than the night                              *)
(* (nightly_pipeline.yaml, scheduling.tf:115-155, pipeline.py:93-107).      *)
Promise == INSTANCE NightlyData WITH shown <- built

KeepsNightlyData == Promise!Spec

(* When the transform runs, one attempt of this night's ingest has loaded   *)
(* every raw table, with nothing older than the night.  An attempt that     *)
(* died between two tables leaves a mixture, and one that was retried       *)
(* counts for nothing: no model is ever built from either                   *)
(* (pipeline.py:64-75, nightly_pipeline.yaml:26-46).                        *)
BuiltFromWholeLoads ==
    job = "transform" =>
        /\ \E a \in 1 .. Attempts : \A t \in Sources : loadedBy[t] = a
        /\ \A t \in Sources, v \in night : v <= raw[t]

(* Once nothing fails any more, the marts show every version the source has *)
(* published: no failure leaves a state that later nights do not repair.    *)
CatchesUp ==
    \A v \in 1 .. MaxVersion :
        source >= v ~> \A m \in Models : built[m] >= v

=============================================================================
