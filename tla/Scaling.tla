------------------------------ MODULE Scaling ------------------------------
(***************************************************************************)
(* Who decides the number of replicas: the replica rule of mutateDeployment,  *)
(* the HorizontalPodAutoscaler and PodDisruptionBudget intents and their      *)
(* validation (internal/resource/deployment.go, autoscaling.go,               *)
(* availability.go), applied in childOrder while users edit the workload, the *)
(* cluster's autoscaler scales the Deployment and its rollouts complete; and  *)
(* what observeAndReportStatus, observeAutoscaling and observeAvailability    *)
(* (internal/controller) then publish about them.                             *)
(*                                                                           *)
(* All three children are read from caches that lag and written under an      *)
(* optimistic lock.  Ownership is the subject of ChildEngine; the status is   *)
(* read and patched in one piece, its races are the subject of StatusReport.  *)
(***************************************************************************)
EXTENDS Integers

CONSTANTS
    Images,       \* values of spec.image
    Replicas,     \* values of spec.replicas
    MaxCount,     \* the largest count in an autoscaling or availability block
    Autoscaling,  \* the autoscaling blocks of this instance
    Availability, \* the availability blocks of this instance
    MaxRev,       \* bound on the Deployment's revisions
    MaxFuel,      \* bound on disturbances
    Disturbances, \* the disturbances of this instance
    Nil

\* The CRD admits enabled blocks with min <= max and minAvailable (at least 1) or
\* maxUnavailable.
ASSUME BoundsAssumption ==
    /\ 1 \in Images /\ Replicas \subseteq Nat /\ MaxCount \in Nat \ {0}
    /\ MaxRev \in Nat /\ MaxFuel \in Nat
    /\ \A a \in Autoscaling : a.min \in 1..MaxCount /\ a.max \in a.min..MaxCount
    /\ \A b \in Availability : b.n \in 0..MaxCount /\ (b.shape = "min" => b.n > 0)

VARIABLES
    fuel,     \* disturbances left
    spec,     \* the spec of the AIWorkload
    dep,      \* its Deployment in the API server
    policy,   \* its HorizontalPodAutoscaler and PodDisruptionBudget
    dcache,   \* the cached Deployment
    copy,     \* the cached policies
    behind,   \* the policies that were written since they were cached
    status,   \* the published conditions
    queued,   \* the workqueue holds the workload
    work      \* the reconcile in progress: a step and the spec in hand

vars == <<fuel, spec, dep, policy, dcache, copy, behind, status, queued, work>>

hpa == policy.hpa
pdb == policy.pdb

Specs == [image : Images, replicas : Replicas, autoscaling : Autoscaling \cup {Nil},
          availability : Availability \cup {Nil}, generation : 1..(MaxFuel + 1)]

Counts == Replicas \cup 0..MaxCount

\* ready is the number of Pods, all updated and available, or Nil while the
\* Deployment's controller has not caught up with its generation.
Deployments == [image : Images, replicas : Counts, ready : Counts \cup {Nil}, rv : Nat]

\* A policy is the block of the spec that it was rendered from.  active: the HPA's
\* status has ScalingActive=True.
HPAs == [block : Autoscaling, active : BOOLEAN]
PDBs == [block : Availability, active : {FALSE}]
Policies == [hpa : HPAs \cup {Nil}, pdb : PDBs \cup {Nil}]
NoPolicies == [hpa |-> Nil, pdb |-> Nil]

Assessments == {"ScaledToZero", "WorkloadReady", "Reconciling", "failure"}

Conditions == [rollout : Assessments \cup {Nil}, autoscaling : {"True", "False", Nil},
               availability : {"True", "False", Nil}]

Idle == [pc |-> "idle", spec |-> Nil]

TypeOK ==
    /\ fuel \in Nat /\ spec \in Specs
    /\ dep \in Deployments \cup {Nil} /\ dcache \in Deployments \cup {Nil}
    /\ policy \in Policies /\ copy \in Policies
    /\ behind \subseteq {"hpa", "pdb"} /\ status \in Conditions
    /\ queued \in BOOLEAN
    /\ work \in [pc : {"idle", "invalid", "deployment", "hpa", "pdb", "status"},
                 spec : Specs \cup {Nil}]

Init ==
    /\ fuel = MaxFuel /\ spec \in {s \in Specs : s.image = 1 /\ s.generation = 1}
    /\ dep = Nil /\ policy = NoPolicies /\ dcache = Nil /\ copy = NoPolicies /\ behind = {}
    /\ status = [rollout |-> Nil, autoscaling |-> Nil, availability |-> Nil]
    /\ queued = TRUE /\ work = Idle

-----------------------------------------------------------------------------
(* The builders *)

AutoscalingEnabled(s) == s.autoscaling # Nil

AvailabilityReplicaFloorStatic(s) == s.replicas

\* The lowest replica count that the spec promises.
AvailabilityReplicaFloor(s) ==
    IF AutoscalingEnabled(s) THEN s.autoscaling.min ELSE s.replicas

validateAvailability(s) ==
    LET floor == AvailabilityReplicaFloor(s)
        b == s.availability
    IN  /\ floor >= 1
        /\ b.shape = "min" => b.n \in 1..floor
        /\ b.shape = "max" => b.n \in 0..(floor - 1)

\* WorkloadBuilder.Build succeeds.
Buildable(s) == s.availability # Nil => validateAvailability(s)

mutateReplicasAlways(s, d) == s.replicas

mutateReplicasUnset(s, d) ==
    IF ~AutoscalingEnabled(s) THEN s.replicas
    ELSE IF d = Nil THEN Nil ELSE d.replicas

\* The replicas that mutateDeployment leaves in d (Nil: an object to create).
mutateReplicas(s, d) ==
    IF ~AutoscalingEnabled(s) THEN s.replicas
    ELSE IF d = Nil THEN s.autoscaling.min ELSE d.replicas

-----------------------------------------------------------------------------
(* The reconcile *)

Fault(d) == d \in Disturbances /\ fuel > 0 /\ fuel' = fuel - 1

childVars == <<dep, policy, behind>>
cacheVars == <<dcache, copy>>

Goto(pc) == work' = [work EXCEPT !.pc = pc]

\* A patch of the status is dropped if the spec has moved on.
Publish(conditions) ==
    status' = IF work.spec.generation = spec.generation THEN conditions ELSE status

\* reportFailure: any error ends the reconcile; it comes back with backoff or
\* after a minute.  The conditions of the autoscaler and the budget stay.
Fail ==
    /\ Publish([status EXCEPT !.rollout = "failure"])
    /\ work' = Idle /\ queued' = TRUE

\* The builders see nothing but the spec; no child is written unless the whole
\* plan builds.
Start ==
    /\ queued /\ work.pc = "idle"
    /\ queued' = FALSE
    /\ work' = [pc |-> IF Buildable(spec) THEN "deployment" ELSE "invalid", spec |-> spec]
    /\ UNCHANGED <<fuel, spec, childVars, cacheVars, status>>

Invalid ==
    /\ work.pc = "invalid"
    /\ Fail
    /\ UNCHANGED <<fuel, spec, childVars, cacheVars>>

\* The merge patch carries replicas only where mutateDeployment changed the
\* cached value.
Rendered(d) ==
    [image |-> work.spec.image, replicas |-> mutateReplicas(work.spec, d),
     ready |-> Nil, rv |-> IF d = Nil THEN 1 ELSE d.rv + 1]

InPlace(d) == Rendered(d).image = d.image /\ Rendered(d).replicas = d.replicas

\* The optimistic lock, as in ChildEngine.
Unmodified == dep # Nil /\ dep.rv = dcache.rv

\* Create or patch the Deployment, leave it, or fail: it exists, or has changed
\* since it was read.
ApplyDeployment ==
    /\ work.pc = "deployment"
    /\ \/ /\ \/ dcache = Nil /\ dep = Nil
             \/ dcache # Nil /\ ~InPlace(dcache) /\ Unmodified /\ dep.rv < MaxRev
          /\ dep' = Rendered(dcache)
          /\ Goto("hpa") /\ UNCHANGED <<queued, status>>
       \/ /\ dcache # Nil /\ InPlace(dcache)
          /\ Goto("hpa") /\ UNCHANGED <<dep, queued, status>>
       \/ /\ IF dcache = Nil THEN dep # Nil ELSE ~InPlace(dcache) /\ ~Unmodified
          /\ Fail /\ UNCHANGED dep
    /\ UNCHANGED <<fuel, spec, policy, behind, cacheVars>>

Block(k, s) == IF k = "hpa" THEN s.autoscaling ELSE s.availability

\* Nothing to do: the cache has no child that is not wanted, or the one that is.
InForce(c, want) == IF c = Nil THEN want = Nil ELSE c.block = want

\* Engine.Apply of an optional child, from its cached copy c: create, patch or
\* delete it, leave it, or fail, because it exists although the cache has none, or
\* has changed or gone since it was cached.  What is to be deleted may be gone.
ApplyPolicy(k, next) ==
    LET c == copy[k]
        want == Block(k, work.spec)
        current == IF c = Nil THEN policy[k] = Nil ELSE k \notin behind
        gone == want = Nil /\ policy[k] = Nil
    IN  /\ work.pc = k
        /\ \/ /\ ~InForce(c, want) /\ current
              /\ policy' = [policy EXCEPT ![k] =
                               IF want = Nil THEN Nil
                               ELSE [block |-> want, active |-> @ # Nil /\ @.active]]
              /\ behind' = behind \cup {k}
              /\ Goto(next) /\ UNCHANGED <<status, queued>>
           \/ /\ InForce(c, want) \/ (~current /\ gone)
              /\ Goto(next) /\ UNCHANGED <<policy, behind, status, queued>>
           \/ /\ ~InForce(c, want) /\ ~current /\ ~gone
              /\ Fail /\ UNCHANGED <<policy, behind>>
        /\ UNCHANGED <<fuel, spec, dep, cacheVars>>

ApplyHPA == ApplyPolicy("hpa", "pdb")

ApplyPDB == ApplyPolicy("pdb", "status")

assessDeploymentCounts(s, d) ==
    IF d.ready = s.replicas THEN "WorkloadReady" ELSE "Reconciling"

\* Readiness is measured against spec.replicas, autoscaled or not.
assessDeployment(s, d) ==
    CASE s.replicas = 0 -> "ScaledToZero"
      [] s.replicas # 0 /\ d.ready = s.replicas -> "WorkloadReady"
      [] OTHER -> "Reconciling"

Truth(b) == IF b THEN "True" ELSE "False"

observeAutoscaling(s) ==
    IF ~AutoscalingEnabled(s) THEN Nil
    ELSE Truth(copy.hpa # Nil /\ copy.hpa.active)

observeAvailability(s) ==
    IF s.availability = Nil THEN Nil
    ELSE Truth(copy.pdb # Nil /\ AvailabilityReplicaFloor(s) # 1)

\* observeAndReportStatus, from the cached Deployment.
ObserveStatus ==
    /\ work.pc = "status"
    /\ \/ dcache = Nil /\ Fail
       \/ /\ dcache # Nil
          /\ Publish([rollout |-> assessDeployment(work.spec, dcache),
                      autoscaling |-> observeAutoscaling(work.spec),
                      availability |-> observeAvailability(work.spec)])
          /\ work' = Idle
          /\ queued' = (queued \/ work.spec.generation # spec.generation)
    /\ UNCHANGED <<fuel, spec, childVars, cacheVars>>

\* An API call fails without effect.
ApiError ==
    /\ work.pc # "idle" /\ Fault("apiError")
    /\ Fail
    /\ UNCHANGED <<spec, childVars, cacheVars>>

Reconcile == Start \/ Invalid \/ ApplyDeployment \/ ApplyHPA \/ ApplyPDB \/ ObserveStatus

WakeNever == queued

\* Owns(Deployment, HPA, PDB): every change wakes the controller.
Wake == TRUE

SyncDeployment ==
    /\ dcache # dep
    /\ dcache' = dep
    /\ queued' = Wake
    /\ UNCHANGED <<fuel, spec, childVars, copy, status, work>>

SyncPolicy(k) ==
    /\ k \in behind
    /\ copy' = [copy EXCEPT ![k] = policy[k]]
    /\ behind' = behind \ {k}
    /\ queued' = Wake
    /\ UNCHANGED <<fuel, spec, dep, policy, dcache, status, work>>

SyncPolicies == \E k \in {"hpa", "pdb"} : SyncPolicy(k)

-----------------------------------------------------------------------------
(* The user and the cluster's controllers *)

Fields == {"image", "replicas", "autoscaling", "availability"}

\* A bound of the model: one edit changes one field.
EditSpec ==
    /\ Fault("edit")
    /\ \E s \in Specs :
          /\ s.generation = spec.generation + 1
          /\ \E f \in Fields : \A g \in Fields : (s[g] # spec[g]) = (g = f)
          /\ spec' = s
    /\ queued' = TRUE
    /\ UNCHANGED <<childVars, cacheVars, status, work>>

Scale(n) ==
    /\ dep.rv < MaxRev
    /\ dep' = [dep EXCEPT !.replicas = n, !.ready = Nil, !.rv = dep.rv + 1]
    /\ UNCHANGED <<spec, policy, behind, cacheVars, status, queued, work>>

\* The Deployment's controller completes the rollout.
Rollout ==
    /\ dep # Nil /\ dep.ready # dep.replicas /\ dep.rv < MaxRev
    /\ dep' = [dep EXCEPT !.ready = dep.replicas, !.rv = dep.rv + 1]
    /\ UNCHANGED <<fuel, spec, policy, behind, cacheVars, status, queued, work>>

\* The autoscaler brings the replicas into its range, unless they are zero,
\* which switches it off.
HPAEnforces ==
    /\ hpa # Nil /\ dep # Nil /\ dep.replicas # 0
    /\ dep.replicas \notin hpa.block.min..hpa.block.max
    /\ Scale(IF dep.replicas < hpa.block.min THEN hpa.block.min ELSE hpa.block.max)
    /\ UNCHANGED fuel

HPAScales ==
    /\ hpa # Nil /\ dep # Nil /\ dep.replicas \in hpa.block.min..hpa.block.max
    /\ Fault("load")
    /\ \E n \in (hpa.block.min..hpa.block.max) \ {dep.replicas} : Scale(n)

SetActive(b) ==
    /\ hpa # Nil /\ hpa.active = ~b
    /\ policy' = [policy EXCEPT !.hpa.active = b]
    /\ behind' = behind \cup {"hpa"}
    /\ UNCHANGED <<spec, dep, cacheVars, status, queued, work>>

\* The autoscaler, unless it is off, obtains its metrics; they may go away again.
HPAActive == dep # Nil /\ dep.replicas # 0 /\ SetActive(TRUE) /\ UNCHANGED fuel

MetricsLost == Fault("metrics") /\ SetActive(FALSE)

\* Someone else scales the Deployment.  A bound of the model: to one Pod.
Drift ==
    /\ dep # Nil /\ dep.replicas # 1 /\ Fault("drift")
    /\ Scale(1)

Cluster == Rollout \/ HPAEnforces

Next ==
    \/ Reconcile \/ ApiError \/ SyncDeployment \/ SyncPolicies
    \/ EditSpec \/ Cluster \/ HPAScales \/ HPAActive \/ MetricsLost \/ Drift

Spec == Init /\ [][Next]_vars

\* The worker, the informers and the cluster's controllers keep going.
Fairness ==
    /\ WF_vars(Reconcile) /\ WF_vars(SyncDeployment)
    /\ \A k \in {"hpa", "pdb"} : WF_vars(SyncPolicy(k))
    /\ WF_vars(Rollout) /\ WF_vars(HPAEnforces) /\ WF_vars(HPAActive)

FairSpec == Spec /\ Fairness

-----------------------------------------------------------------------------
(* Properties *)

\* A step of the controller that writes the Deployment.
Writes == work' # work /\ dep' # dep

AtBound == dep # Nil /\ dep.rv = MaxRev

\* docs/autoscaling.md: "HPA is therefore the sole writer of the Deployment scale":
\* while the spec in hand enables autoscaling, no patch of the Deployment moves
\* replicas, although it is computed from a cached copy that may hold an older
\* count.
ScaleKept ==
    [][Writes /\ dep # Nil /\ AutoscalingEnabled(work.spec) =>
           dep'.replicas = dep.replicas]_vars

\* Autoscaling was switched on while the Deployment had no replicas: the replica
\* rule keeps the zero, which switches the autoscaler off.
Dormant == AutoscalingEnabled(spec) /\ dep # Nil /\ dep.replicas = 0

Applied ==
    Buildable(spec) =>
        /\ IF AutoscalingEnabled(spec) THEN hpa # Nil /\ hpa.block = spec.autoscaling
                                       ELSE hpa = Nil
        /\ IF spec.availability = Nil THEN pdb = Nil
           ELSE pdb # Nil /\ pdb.block = spec.availability
        /\ dep # Nil /\ dep.image = spec.image
        /\ IF AutoscalingEnabled(spec)
           THEN Dormant \/ dep.replicas \in spec.autoscaling.min..spec.autoscaling.max
           ELSE dep.replicas = spec.replicas

\* The children settle on a spec that builds; in particular static replicas come
\* back after autoscaling is switched off, although the Deployment is patched
\* before the HPA is deleted and the autoscaler may undo the patch in between, and
\* an autoscaled count ends in the range that the spec declares unless it is zero.
ScaleConverges == <>[](Applied \/ AtBound)

\* How many Pods the budget wants to keep.
Keeps(b, n) == IF b.shape = "min" THEN b.n <= n ELSE b.n < n

\* availability.go, AvailabilityReplicaFloor: "A PDB above that count would
\* permanently block voluntary eviction ... so it is rejected": for a spec that
\* builds, the budget in force does not forever ask for more Pods than the
\* Deployment, whoever scales it, has.  A dormant Deployment is the exception: its
\* budget was accepted for a floor that nothing brings about.
BudgetSatisfiable ==
    <>[](Buildable(spec) /\ pdb # Nil /\ dep # Nil =>
           Keeps(pdb.block, dep.replicas) \/ Dormant \/ AtBound)

\* The conditions that docs/status.md, docs/autoscaling.md and docs/availability.md
\* give to the cluster as it is.  The rollout of an autoscaled workload is the subject
\* of AutoscaledReady.
Reported ==
    IF ~Buildable(spec) THEN status.rollout = "failure"
    ELSE /\ ~AutoscalingEnabled(spec) =>
                status.rollout = IF spec.replicas = 0 THEN "ScaledToZero" ELSE "WorkloadReady"
         /\ status.autoscaling =
               IF AutoscalingEnabled(spec) THEN Truth(hpa # Nil /\ hpa.active) ELSE Nil
         /\ status.availability =
               IF spec.availability = Nil THEN Nil
               ELSE Truth(IF AutoscalingEnabled(spec) THEN spec.autoscaling.min > 1
                          ELSE spec.replicas > 1)

\* docs/status.md, the condition contract: once edits, scaling and rollouts end, the
\* three conditions describe the current spec, the finished rollout of static replicas
\* and the autoscaler's latest report, although each was computed from caches that may
\* not have shown the HPA, the PDB or the new count yet, a failed reconcile leaves the
\* last two alone, and a status of an older generation is dropped.
StatusSettles == <>[](Reported \/ AtBound)

\* docs/autoscaling.md: "When it is on, `spec.replicas` only initializes a new
\* Deployment", and docs/status.md: "Current rollout complete | True | False | False |
\* WorkloadReady": an autoscaled workload all of whose Pods are up to date and
\* available is in the end reported ready, whatever count the autoscaler chose.
AutoscaledReady ==
    <>[](Buildable(spec) /\ AutoscalingEnabled(spec) /\ dep # Nil
             /\ dep.ready = dep.replicas /\ dep.replicas > 0 =>
           status.rollout = "WorkloadReady" \/ AtBound)

=============================================================================
