----------------------- MODULE NightlyPipeline_proofs -----------------------
(***************************************************************************)
(* Theorems about NightlyPipeline, for any raw tables and models, any       *)
(* references between them, any number of attempts and of failures.         *)
(***************************************************************************)
EXTENDS NightlyPipeline, TLAPS

TypeOK ==
    /\ source \in Nat /\ begun \in Nat /\ faults \in Nat
    /\ attempt \in 1 .. Attempts
    /\ raw \in [Sources -> Nat] /\ built \in [Models -> Nat]
    /\ job \in {"none", "ingest", "transform"}
    /\ pulled \in [Sources -> SUBSET Nat]
    /\ loaded \subseteq Sources /\ done \subseteq Models /\ failed \subseteq Models
    /\ night \subseteq Nat /\ alerted \in BOOLEAN
    /\ loadedBy \in [Sources -> Nat]

(* A night has a beginning while a job runs, and only then.                 *)
NightRuns == job = "none" <=> night = {}

(* An attempt begins in its night, and with everything that the attempts    *)
(* before it have read.                                                     *)
AttemptBegun ==
    /\ begun <= source
    /\ job # "none" => \A n \in night : n <= begun
    /\ \A t \in Sources \ loaded : raw[t] <= begun

(* What was read in this attempt is of this night, and no older than what   *)
(* the table holds.                                                         *)
PulledFresh ==
    \A t \in Sources : \A v \in pulled[t] :
        /\ raw[t] <= v /\ v <= source
        /\ \A w \in pulled[t] : w = v
        /\ job # "none" => \A n \in night : n <= v

(* A table that this attempt has loaded, and every table once the ingest    *)
(* has succeeded, is of this night.                                         *)
LoadedFresh ==
    \A t \in Sources : \A n \in night :
        t \in loaded \/ job = "transform" => n <= raw[t]

(* This attempt of the ingest has read and loaded what counts as loaded,    *)
(* and one attempt has loaded everything once the transform runs.           *)
LoadedOnce ==
    /\ job = "ingest" => \A t \in loaded : loadedBy[t] = attempt /\ pulled[t] # {}
    /\ job = "transform" => \E a \in 1 .. Attempts : \A t \in Sources : loadedBy[t] = a

(* A model that passed is of this night.                                    *)
DoneFresh == \A m \in done : \A n \in night : n <= built[m]

(* Nothing is newer than what it is made of.                                *)
NothingAhead ==
    /\ \A t \in Sources : raw[t] <= source
    /\ \A m \in Models : built[m] <= source
    /\ \A m \in Models : \A u \in Upstream[m] : built[m] <= Version(u)

NightBegun == \A n \in night : n <= source

(* A night has one beginning.                                               *)
NightOnce == \A v, w \in night : v = w

IInv ==
    /\ TypeOK /\ NightRuns /\ NightBegun /\ NightOnce /\ AttemptBegun
    /\ PulledFresh /\ LoadedFresh /\ LoadedOnce /\ DoneFresh /\ NothingAhead

-----------------------------------------------------------------------------
(* Rebuilding a model *)

LEMMA VersionType ==
    ASSUME TypeOK, NEW m \in Models, NEW u \in Upstream[m]
    PROVE  u \in Sources \cup Models /\ Version(u) \in Nat
<1>1. Upstream[m] \subseteq Sources \cup Models
  BY PipelineAssumption
<1> QED BY <1>1 DEF TypeOK, Version

(* A rebuilt model is no older than it was, no newer than what it is made   *)
(* of and, once the ingest has succeeded, of this night.                    *)
LEMMA RebuiltForward ==
    ASSUME IInv, NEW m \in Models, Ready(m), Rebuilt(m)
    PROVE  /\ built' = [built EXCEPT ![m] = built'[m]]
           /\ built'[m] \in Nat
           /\ built[m] <= built'[m] /\ built'[m] <= source
           /\ \A u \in Upstream[m] : built'[m] <= Version(u)
           /\ \A n \in night : n <= built'[m]
           /\ m \notin Upstream[m]
<1>1. PICK u \in Upstream[m] :
        /\ \A w \in Upstream[m] : Version(u) <= Version(w)
        /\ built' = [built EXCEPT ![m] = Version(u)]
  BY DEF Rebuilt
<1>2. built'[m] = Version(u) /\ Version(u) \in Nat /\ u \in Sources \cup Models
  BY <1>1, VersionType DEF IInv, TypeOK
<1>3. built[m] <= Version(u)
  BY DEF IInv, NothingAhead
<1>4. Version(u) <= source
  BY <1>2 DEF IInv, NothingAhead, Version
<1>5. \A n \in night : n <= Version(u)
  <2> SUFFICES ASSUME NEW n \in night PROVE n <= Version(u)
    OBVIOUS
  <2>1. CASE u \in Sources
    BY <2>1 DEF IInv, LoadedFresh, Version, Ready
  <2>2. CASE u \in Models /\ u \notin Sources
    BY <2>2 DEF IInv, DoneFresh, Version, Ready
  <2> QED BY <1>2, <2>1, <2>2
<1>6. m \notin Upstream[m]
  BY DEF Ready
<1> QED BY <1>1, <1>2, <1>3, <1>4, <1>5, <1>6 DEF IInv, TypeOK

(* What the models are made of stays ahead of them when one is rebuilt.     *)
LEMMA RebuiltNothingAhead ==
    ASSUME IInv, NEW m \in Models, Ready(m), Rebuilt(m), UNCHANGED <<source, raw>>
    PROVE  NothingAhead'
<1> USE RebuiltForward
<1>1. \A t \in Sources : (raw[t] <= source)'
  BY DEF IInv, NothingAhead
<1>2. \A k \in Models : built'[k] \in Nat /\ built[k] <= built'[k] /\ built'[k] <= source
  BY DEF IInv, TypeOK, NothingAhead
<1>3. ASSUME NEW k \in Models, NEW u \in Upstream[k] PROVE built'[k] <= Version(u)'
  <2>1. u \in Sources \cup Models /\ Version(u) \in Nat
    BY VersionType DEF IInv
  <2>2. Version(u) <= Version(u)' /\ Version(u)' \in Nat
    BY <2>1, <1>2 DEF Version, IInv, TypeOK
  <2>3. built[k] <= Version(u)
    BY DEF IInv, NothingAhead
  <2>4. k = m \/ built'[k] = built[k]
    BY DEF IInv, TypeOK
  <2>5. k = m => built'[k] <= Version(u)
    OBVIOUS
  <2> QED BY <2>1, <2>2, <2>3, <2>4, <2>5, <1>2 DEF IInv, TypeOK
<1> QED BY <1>1, <1>2, <1>3 DEF NothingAhead

LEMMA RebuiltInvariant ==
    ASSUME IInv, NEW m \in Models, Ready(m), Rebuilt(m),
           UNCHANGED <<source, raw, job, attempt, begun, pulled, loaded, night, loadedBy>>,
           done' \in {done, done \cup {m}}, failed' \subseteq Models,
           faults' \in Nat, alerted' \in BOOLEAN
    PROVE  IInv'
<1> USE RebuiltForward
<1>1. TypeOK'
  BY DEF IInv, TypeOK
<1>2. /\ NightRuns' /\ NightBegun' /\ NightOnce' /\ AttemptBegun'
      /\ PulledFresh' /\ LoadedFresh' /\ LoadedOnce'
  BY DEF IInv, NightRuns, NightBegun, NightOnce, AttemptBegun, PulledFresh, LoadedFresh,
     LoadedOnce
<1>3. DoneFresh'
  <2> SUFFICES ASSUME NEW k \in done', NEW n \in night PROVE n <= built'[k]
    BY DEF DoneFresh
  <2>1. CASE k = m
    BY <2>1
  <2>2. CASE k # m
    BY <2>2 DEF IInv, DoneFresh, TypeOK
  <2> QED BY <2>1, <2>2
<1> QED BY <1>1, <1>2, <1>3, RebuiltNothingAhead DEF IInv

-----------------------------------------------------------------------------
(* The inductive invariant *)

LEMMA InitInvariant == Init => IInv
<1> SUFFICES ASSUME Init PROVE IInv
  OBVIOUS
<1>1. TypeOK
  <2>1. attempt \in 1 .. Attempts
    BY PipelineAssumption DEF Init
  <2> QED BY <2>1 DEF Init, TypeOK
<1>2. NothingAhead
  <2>1. ASSUME NEW m \in Models, NEW u \in Upstream[m] PROVE built[m] <= Version(u)
    BY <1>1, VersionType DEF Init, Version
  <2> QED BY <2>1 DEF Init, NothingAhead
<1> QED BY <1>1, <1>2 DEF Init, IInv, NightRuns, NightBegun, NightOnce,
       AttemptBegun, PulledFresh, LoadedFresh, LoadedOnce, DoneFresh

(* A fresh container has read, loaded, built and failed nothing.            *)
LEMMA RunInvariant ==
    ASSUME IInv, NEW name \in {"ingest", "transform"}, NEW n \in 1 .. Attempts, Run(name, n),
           UNCHANGED <<source, raw, built>>, loadedBy' \in [Sources -> Nat],
           faults' \in Nat, alerted' \in BOOLEAN,
           \E v \in Nat : night' = {v} /\ v <= source,
           name = "transform" =>
              /\ \A t \in Sources : \A v \in night' : v <= raw[t]
              /\ \E a \in 1 .. Attempts : \A t \in Sources : loadedBy'[t] = a
    PROVE  IInv'
<1>1. TypeOK'
  BY DEF IInv, TypeOK, Run
<1>2. NightRuns' /\ NightBegun' /\ NightOnce' /\ PulledFresh'
  BY DEF Run, NightRuns, NightBegun, NightOnce, PulledFresh
<1>3. LoadedFresh' /\ LoadedOnce' /\ DoneFresh'
  BY DEF Run, LoadedFresh, LoadedOnce, DoneFresh
<1>5. AttemptBegun'
  BY DEF Run, AttemptBegun, IInv, TypeOK, NothingAhead
<1>4. NothingAhead'
  BY DEF IInv, NothingAhead, Version
<1> QED BY <1>1, <1>2, <1>3, <1>4, <1>5 DEF IInv

LEMMA NextInvariant == IInv /\ [Next]_vars => IInv'
<1> SUFFICES ASSUME IInv, [Next]_vars PROVE IInv'
  OBVIOUS
<1>1. CASE Trigger
  <2>1. source \in Nat /\ night' = {source}
    BY <1>1 DEF Trigger, IInv, TypeOK
  <2>2. \E v \in Nat : night' = {v} /\ v <= source
    BY <2>1
  <2>3. 1 \in 1 .. Attempts /\ [t \in Sources |-> 0] \in [Sources -> Nat]
    BY PipelineAssumption
  <2> QED BY <1>1, <2>2, <2>3, RunInvariant DEF Trigger, IInv, TypeOK
<1>2. CASE TriggerFails
  <2>1. TypeOK'
    BY <1>2 DEF TriggerFails, Fault, runVars, IInv, TypeOK
  <2> QED BY <1>2, <2>1 DEF TriggerFails, runVars, IInv, NightOnce, NightRuns, NightBegun,
             AttemptBegun, PulledFresh, LoadedFresh, LoadedOnce, DoneFresh, NothingAhead,
             Version
<1>3. ASSUME NEW t \in Sources, Extract(t) PROVE IInv'
  <2>1. TypeOK'
    BY <1>3 DEF Extract, IInv, TypeOK
  <2>2. PulledFresh'
    <3>1. PICK v \in begun .. source : pulled' = [pulled EXCEPT ![t] = {v}]
      BY <1>3 DEF Extract
    <3>2. t \notin loaded
      BY <1>3 DEF Extract, IInv, LoadedOnce
    <3>3. v \in Nat /\ raw[t] <= v /\ v <= source /\ \A n \in night : n <= v
      BY <1>3, <3>2 DEF Extract, IInv, TypeOK, AttemptBegun
    <3> QED BY <1>3, <3>1, <3>3 DEF Extract, IInv, TypeOK, PulledFresh
  <2>3. /\ NightRuns' /\ NightBegun' /\ NightOnce' /\ AttemptBegun'
        /\ LoadedFresh' /\ LoadedOnce' /\ DoneFresh' /\ NothingAhead'
    BY <1>3 DEF Extract, IInv, NightOnce, NightRuns, NightBegun, AttemptBegun, LoadedFresh,
       LoadedOnce, DoneFresh, NothingAhead, Version
  <2> QED BY <2>1, <2>2, <2>3 DEF IInv
<1>4. ASSUME NEW t \in Sources, Load(t) PROVE IInv'
  <2>1. PICK v \in pulled[t] : raw' = [raw EXCEPT ![t] = v]
    BY <1>4 DEF Load
  <2>2. /\ v \in Nat /\ raw[t] <= v /\ v <= source
        /\ \A w \in pulled[t] : w = v
        /\ \A n \in night : n <= v
    BY <1>4 DEF Load, IInv, TypeOK, PulledFresh
  <2>3. TypeOK'
    BY <1>4, <2>1, <2>2 DEF Load, IInv, TypeOK
  <2>4. NightRuns' /\ NightBegun' /\ DoneFresh' /\ NightOnce'
    BY <1>4 DEF Load, IInv, NightRuns, NightBegun, DoneFresh, NightOnce
  <2>8. AttemptBegun' /\ LoadedOnce'
    BY <1>4, <2>1, <2>2 DEF Load, IInv, TypeOK, AttemptBegun, LoadedOnce
  <2>5. PulledFresh'
    BY <1>4, <2>1, <2>2 DEF Load, IInv, TypeOK, PulledFresh
  <2>6. LoadedFresh'
    BY <1>4, <2>1, <2>2 DEF Load, IInv, TypeOK, LoadedFresh
  <2>7. NothingAhead'
    <3>1. ASSUME NEW m \in Models, NEW u \in Upstream[m] PROVE built[m] <= Version(u)'
      <4>1. built[m] <= Version(u) /\ built[m] \in Nat
        BY DEF IInv, NothingAhead, TypeOK
      <4>2. u \in Sources \cup Models /\ Version(u) \in Nat
        BY VersionType DEF IInv
      <4>3. Version(u)' \in Nat /\ Version(u) <= Version(u)'
        BY <1>4, <2>1, <2>2, <4>2 DEF Load, IInv, TypeOK, Version
      <4> QED BY <4>1, <4>2, <4>3
    <3> QED BY <1>4, <2>1, <2>2, <3>1 DEF Load, IInv, TypeOK, NothingAhead
  <2> QED BY <2>3, <2>4, <2>5, <2>6, <2>7, <2>8 DEF IInv
<1>5. CASE RunTransform
  <2>1. night # {} /\ night \subseteq Nat
    BY <1>5 DEF RunTransform, IngestSucceeded, IInv, NightRuns, TypeOK
  <2>2. PICK v \in Nat : night = {v} /\ v <= source
    BY <2>1 DEF NightOnce, IInv, NightBegun
  <2>3. \A t \in Sources : \A n \in night : n <= raw[t]
    BY <1>5 DEF RunTransform, IngestSucceeded, IInv, LoadedFresh
  <2>4. attempt \in 1 .. Attempts /\ \A t \in Sources : loadedBy[t] = attempt
    BY <1>5 DEF RunTransform, IngestSucceeded, IInv, LoadedOnce, TypeOK
  <2>5. 1 \in 1 .. Attempts
    BY PipelineAssumption
  <2> QED BY <1>5, <2>2, <2>3, <2>4, <2>5, RunInvariant DEF RunTransform, IInv, TypeOK
<1>6. ASSUME NEW m \in Models, Build(m) PROVE IInv'
  BY <1>6, RebuiltInvariant DEF Build, IInv, TypeOK
<1>7. ASSUME NEW m \in Models, BuildFails(m) PROVE IInv'
  <2>1. faults' \in Nat /\ failed' \subseteq Models /\ alerted' \in BOOLEAN
    BY <1>7 DEF BuildFails, Fault, IInv, TypeOK
  <2>2. CASE Rebuilt(m)
    BY <1>7, <2>1, <2>2, RebuiltInvariant DEF BuildFails
  <2>3. CASE built' = built
    <3>1. TypeOK'
      BY <1>7, <2>1, <2>3 DEF BuildFails, IInv, TypeOK
    <3> QED BY <1>7, <2>3, <3>1 DEF BuildFails, IInv, NightOnce, NightRuns, NightBegun,
               AttemptBegun, PulledFresh, LoadedFresh, LoadedOnce, DoneFresh, NothingAhead,
               Version
  <2> QED BY <1>7, <2>2, <2>3 DEF BuildFails
<1>8. CASE Finish
  <2>1. TypeOK'
    BY <1>8 DEF Finish, runVars, IInv, TypeOK
  <2> QED BY <1>8, <2>1 DEF Finish, runVars, IInv, NightOnce, NightRuns, NightBegun,
             AttemptBegun, PulledFresh, LoadedFresh, LoadedOnce, DoneFresh, NothingAhead,
             Version
<1>9. CASE Retry
  <2>1. /\ faults' \in Nat /\ attempt + 1 \in 1 .. Attempts
        /\ job \in {"ingest", "transform"}
    BY <1>9, PipelineAssumption DEF Retry, AttemptFails, Fault, IInv, TypeOK
  <2>2. night # {} /\ night \subseteq Nat
    BY <2>1 DEF IInv, NightRuns, TypeOK
  <2>3. PICK v \in Nat : night = {v} /\ v <= source
    BY <2>2 DEF NightOnce, IInv, NightBegun
  <2>4. job = "transform" =>
            /\ \A t \in Sources : \A n \in night : n <= raw[t]
            /\ \E a \in 1 .. Attempts : \A t \in Sources : loadedBy[t] = a
    BY DEF IInv, LoadedFresh, LoadedOnce
  <2> QED BY <1>9, <2>1, <2>3, <2>4, RunInvariant DEF Retry, IInv, TypeOK
<1>10. CASE GiveUp
  <2>1. TypeOK'
    BY <1>10 DEF GiveUp, AttemptFails, Fault, runVars, IInv, TypeOK
  <2> QED BY <1>10, <2>1 DEF GiveUp, runVars, IInv, NightOnce, NightRuns, NightBegun,
             AttemptBegun, PulledFresh, LoadedFresh, LoadedOnce, DoneFresh, NothingAhead,
             Version
<1>11. CASE Publish
  <2>1. TypeOK' /\ source <= source' /\ source \in Nat /\ source' \in Nat
    BY <1>11 DEF Publish, runVars, IInv, TypeOK
  <2>2. PulledFresh' /\ NightBegun'
    BY <1>11, <2>1 DEF Publish, runVars, IInv, TypeOK, PulledFresh, NightBegun
  <2>4. AttemptBegun'
    BY <1>11, <2>1 DEF Publish, runVars, IInv, TypeOK, AttemptBegun
  <2>3. NothingAhead'
    BY <1>11, <2>1 DEF Publish, IInv, TypeOK, NothingAhead, Version
  <2> QED BY <1>11, <2>1, <2>2, <2>3, <2>4 DEF Publish, runVars, IInv, NightOnce,
             NightRuns, LoadedFresh, LoadedOnce, DoneFresh
<1>12. CASE UNCHANGED vars
  BY <1>12 DEF vars, runVars, IInv, NightOnce, TypeOK, NightRuns, NightBegun,
     AttemptBegun, PulledFresh, LoadedFresh, LoadedOnce, DoneFresh, NothingAhead, Version
<1> QED BY <1>1, <1>2, <1>3, <1>4, <1>5, <1>6, <1>7, <1>8, <1>9, <1>10, <1>11, <1>12
    DEF Next, Progress

LEMMA Invariance == Spec => []IInv
BY InitInvariant, NextInvariant, PTL DEF Spec

-----------------------------------------------------------------------------
(* Theorems *)

(* What the transform reads was loaded by one attempt of this night's       *)
(* ingest, every table of it, whatever the attempts before it left in the   *)
(* raw tables, and is no older than the night.                              *)
THEOREM BuiltFromWholeLoadsHolds == Spec => []BuiltFromWholeLoads
<1>1. IInv => BuiltFromWholeLoads
  BY DEF IInv, LoadedFresh, LoadedOnce, BuiltFromWholeLoads
<1> QED BY <1>1, Invariance, PTL

LEMMA RebuiltShown ==
    ASSUME IInv, NEW m \in Models, Ready(m), Rebuilt(m), UNCHANGED <<source, night, alerted>>
    PROVE  Promise!Show(m)
<1>1. built'[m] \in built[m] .. source
  BY RebuiltForward DEF IInv, TypeOK
<1> QED BY <1>1, RebuiltForward DEF Promise!Show

(* The nightly run implements NightlyData: through every retry, kill and    *)
(* failing test no mart goes back to older data, and a night that leaves a  *)
(* mart older than itself has raised an alert.                              *)
THEOREM ImplementsNightlyData == Spec => KeepsNightlyData
<1>1. Init => Promise!Init
  BY DEF Init, Promise!Init
<1>2. IInv /\ [Next]_vars => [Promise!Next]_(Promise!vars)
  <2> SUFFICES ASSUME IInv, [Next]_vars PROVE Promise!Next \/ UNCHANGED Promise!vars
    OBVIOUS
  <2>1. CASE Publish
    BY <2>1 DEF Publish, Promise!Next, Promise!Publish
  <2>2. CASE Trigger
    <3>1. night = {}
      BY <2>2 DEF Trigger, IInv, NightRuns
    <3> QED BY <2>2, <3>1 DEF Trigger, Promise!Next, Promise!Begin
  <2>3. CASE TriggerFails
    <3>1. night = {}
      BY <2>3 DEF TriggerFails, IInv, NightRuns
    <3> QED BY <2>3, <3>1 DEF TriggerFails, Promise!Next, Promise!Fail
  <2>4. ASSUME NEW m \in Models, Build(m) \/ BuildFails(m)
        PROVE  Promise!Next \/ UNCHANGED Promise!vars
    <3>1. CASE Rebuilt(m)
      BY <2>4, <3>1, RebuiltShown DEF Build, BuildFails, Promise!Next
    <3>2. CASE built' = built
      BY <2>4, <3>2 DEF Build, BuildFails, Promise!vars
    <3> QED BY <2>4, <3>1, <3>2 DEF Build, BuildFails
  <2>5. CASE Finish
    <3>1. night # {}
      BY <2>5 DEF Finish, TransformSucceeded, IInv, NightRuns
    <3>2. \A v \in night, m \in Models : v <= built[m]
      BY <2>5 DEF Finish, TransformSucceeded, IInv, DoneFresh
    <3>3. Promise!Succeed
      BY <2>5, <3>1, <3>2 DEF Finish, Promise!Succeed
    <3> QED BY <3>3 DEF Promise!Next
  <2>6. CASE GiveUp
    BY <2>6 DEF GiveUp, Promise!Next, Promise!Fail
  <2>7. CASE RunTransform \/ Retry \/ \E t \in Sources : Extract(t) \/ Load(t)
    BY <2>7 DEF RunTransform, Retry, Extract, Load, Promise!vars
  <2>8. CASE UNCHANGED vars
    BY <2>8 DEF vars, Promise!vars
  <2> QED BY <2>1, <2>2, <2>3, <2>4, <2>5, <2>6, <2>7, <2>8 DEF Next, Progress
<1> QED BY <1>1, <1>2, Invariance, PTL DEF Spec, KeepsNightlyData, Promise!Spec

=============================================================================
