# AI Workload Control Plane: a TLA+ verification project

The repository is a Kubernetes operator.  A user writes an `AIWorkload`; the
controller turns it into a ServiceAccount, a Deployment and up to five optional
children, and reports what it observed in the workload's status.  This project
models the controller together with what makes it hard: caches that lag,
conflicting writers, lost replies, restarts, objects deleted and recreated under
one name, and cluster controllers that write to the same objects.

Properties are stated in the modules, each with the code or documentation it is
about.  `PROJECT.json` lists runs, mutants, the map from definitions to source
lines, hazards, findings and theorems.

## Inventory

| Part | Source | State it keeps | Operations |
| --- | --- | --- | --- |
| Reconcile loop | `internal/controller/aiworkload_controller.go` | the workqueue (one entry per workload name), the workload in memory | get, tenant gate, external-Secret gate, exposure gate, build, apply, Secret check, observe, requeue |
| Apply engine | `internal/controller/engine.go` | none of its own: the children in the API server | `ValidatePlan`, `owns`, `Apply` (create, patch, delete, leave alone) |
| Builders | `internal/resource/*.go` | none (pure) | one `Intent` per child: an identity, `Mutate`, `Absent` |
| Failure and status reporting | `failures.go`, `status.go`, `secrets.go` | `status` of the workload | `assessDeployment`, `observeAndReportStatus`, `reportFailure`, `patchStatus` and its retry |
| Watches | `watches.go`, `SetupWithManager` | informer caches | primary predicate, `Owns` of six kinds, Secret mapping |
| Exposure | `internal/controller/exposure.go`, `internal/resource/exposure.go` | the `ExposureReady` condition, the HTTPRoute | `validateExposure`, route intent, `observeExposure` |
| Scaling | `mutateDeployment`, `autoscaling.go`, `availability.go` | Deployment replicas, HPA, PDB | the replica rule, budget validation |
| Observation of scaling | `internal/controller/autoscaling.go`, `availability.go` | the `AutoscalingReady` and `AvailabilityReady` conditions | `observeAutoscaling`, `observeAvailability` |
| Tenant gate | `validateTenant` | the `TenantReady` condition | read and compare the tenant profile |
| External Secrets gate | `external_secrets.go` | the `ExternalSecretsReady` condition, a template annotation | validate, decorate |
| Capability catalog | `internal/capability` | none | `RequirementFor`, `HasResource`, `Detect` |
| Manager process | `internal/manager`, `cmd/main.go`, `config/manager/manager.yaml` | leadership, readiness | `Validate`, `New`, `startupReadiness`, exit, rollout |
| Telemetry, API types, generated code | `internal/telemetry`, `api` | metrics | wiring |

How the parts interact.  Reconcile calls the gates, the builder, the engine and the
observers in that order, on one in-memory workload.  Between the gates and at the
end it patches status under an optimistic lock.  The engine reads the six typed
children from the informer cache and the HTTPRoute (unstructured) from the API
server; all writes go to the API server.  Events of the workload (new generation,
UID or deletion timestamp), of the owned typed children and of the referenced
Secrets put the workload back on the queue.  HTTPRoutes, Gateways and tenant
profiles are not watched.  One workload is never reconciled by two workers of one
manager; after a change of leader two managers may overlap.

What is hard: every decision is taken on cached data; the plan is not a
transaction; a status write wakes nobody; the retry after a Conflict re-reads a
cache; the memory of a route is a condition in the status; HPA and controller
share `spec.replicas`.  `PROJECT.json` lists these as hazards with their lines.

What makes each part correct:

- engine: never touch what the current parent UID does not control; create in
  dependency order; converge on the live spec after any finite disturbance;
- status: never put an old observation over a newer generation; keep other
  controllers' conditions; become truthful;
- exposure: the route exists exactly when asked for, and `ExposureReady` follows
  the Gateway's verdict;
- scaling: never revert the autoscaler, return to static replicas, keep budgets
  satisfiable;
- gates: a workload that does not pass writes no child; a rotated Secret reaches the
  Pod template;
- builders: a repaired child equals a new one in the owned fields, foreign fields are
  kept, defaults cause no patches;
- manager: one leader at a time, always again a ready one, and rollouts that end.

## Modules

| Module | Models | Composes |
| --- | --- | --- |
| `ChildEngine` | `Engine.Apply` and the apply loop, for several managers and kinds | caches, watches, garbage collector, users, other clients |
| `AtomicEngine` | what the engine promises, without caches and steps; `ChildEngine` implements it | |
| `ChildEngineProofs` | theorems about `ChildEngine`, its refinement of `AtomicEngine` included | |
| `StatusReport` | status publication of one manager | Deployment controller, Secret, another status writer |
| `StatusPatch` | the frame of `Reconcile` around the gates: `patchStatus`, `reportFailure`, conditions | extended by `Exposure` and `Gates` |
| `Capability` | the catalog of optional APIs | used by `Exposure` and `Gates` |
| `Exposure` | the HTTPRoute and its condition | Gateway controller, optional API |
| `Gates` | the tenant and External Secrets gates and the Deployment behind them | platform, External Secrets Operator, target Secret |
| `Scaling` | who decides the replicas; budgets; what status says of them | Deployment controller, autoscaler, users |
| `Builders` | the `Mutate` callbacks of all typed children | API defaulting, other writers |
| `Manager` | leader election, readiness and rollout of the manager itself | Lease, kubelet, Deployment controller |
| `ManagerProofs` | theorems about `Manager` | |
| `StatusReportProofs`, `ScalingProofs`, `BuildersProofs` | theorems about `StatusReport`, `Scaling` and `Builders` | |
| `StatusPatchProofs` | what the frame of `StatusPatch` preserves, for any specs and steps | |
| `GatesProofs`, `ExposureProofs` | theorems about `Gates` and `Exposure` | extend `StatusPatchProofs` |
| `MC*` | the constants of the runs | |

### ChildEngine and AtomicEngine

`parent` and `store` are the API server: the workload (UID, deletion mark, spec)
and at most one child per kind, since all children share the name `ChildName`.
Kinds are the numbers of `childOrder`.  A spec is an opaque `content` (all fields
that `Mutate` owns) and the set `on` of optional kinds.  An object records the UID of
its controller reference; `fit` is false when `Mutate` refuses it (immutable
selector, Service allocation).  `pcache` and `cache` are the informer caches, moved
to the current state by `SyncParent` and `SyncChild` at any time; `events` remembers
for which kinds an event that names an AIWorkload controller is undelivered, so that
intermediate states may be missed and wake-ups are not.

`ApplyRead` is `Apply` up to its first write with every early return; `ApplyCreate`,
`ApplyPatch` and `ApplyDelete` are the API calls, each of which may succeed, be
refused (AlreadyExists, Conflict, failed precondition), or take effect while its
reply is lost (`Answered`).  `ApiError` is any call that fails without effect.
`Fail` stops the loop and requeues, which stands for the two-second recheck, the
one-minute recheck and the backoff alike: time is not modelled.  `Restart` replaces
a manager by one whose caches are freshly listed.  `made` is a history variable.

`AtomicEngine` has no caches, revisions, processes or intermediate steps: a change of a
child is one decision on the live object, for a version of the workload that a user
asked for.  The refinement mapping (`Atomic` in `ChildEngine`, property
`AtomicDecisions`) keeps `fuel` and `parent`, drops the revisions from the store, and
takes as `versions` the workloads that caches and reconciles still hold.  Since
disturbances cost fuel, a step that costs none must be one of the engine's decisions
or the cluster's own.

### StatusReport

A status is `observedGeneration` and the condition list: one `phase` for the
Ready/Progressing/Degraded triple, its observed generation, the transition time of
Ready and one foreign condition.  A merge patch carries the fields that differ from
the copy the diff was taken from, the condition list as one field
(`MergePatch`); this is why a patch can leave `observedGeneration` out.
`Patch`, `Reread` and `Repatch` are the three steps of `patchStatus`, and
`PatchFails` is the path from its error to `reportFailure`, which patches once
more on top of the in-memory status.  The Deployment carries the workload
generation of its template (`img`), its own generation and the one its controller
observed.  The workload has no tenant, external Secret or exposure, so the gates
write nothing.  `earned` is a history variable.

A reconcile may start while the cached workload is out of date.  Two statements
separate what this costs.  `PromptStatusConverges` is about the behaviours in which no
reconcile started before the controller's own last status write had reached its cache
(the history variable `own`); the cache may lag in everything else: edits,
recreations, other controllers' conditions, the Deployment and the Secret.
`StatusConverges` drops the condition and fails (`StatusStuck`).

### StatusPatch, Exposure and Gates

`StatusPatch` is the part of `Reconcile` between its gates: conditions are set on the
in-memory workload and handed to `patchStatus`, whose success, refusal, lost reply and
retry decide whether and with which object in memory the reconcile goes on.  A
condition is its status and observed generation.

In `Exposure`, `validateExposure`, `ApplyRoute`, `observeExposure` and `Report` are the
steps that concern the route, with a `patchStatus` after the first, the third and
the fourth.  The Deployment is healthy, the Service and NetworkPolicy switches are
the flag `ok` of a spec.  A route records the routing fields it carries and the
entry of `status.parents`, with the fields that the verdict is about.  `owed` is a
history variable.

In `Gates`, `validateTenant` compares the live profile with the spec in hand,
`DiscoverExternalSecrets`, `ReadExternalSecret` and `ReadTarget` are the stages of
`validateExternalSecrets` between which the platform may change, and
`ApplyDeployment` writes the template with the revision annotation.  One
ExternalSecret stands for the list.  `seen` is a history variable: what the gates were
open for at some moment of the reconcile, the strongest thing a check-then-act gate
can promise.

### Scaling

The Deployment is read from a cache and patched under a lock on its revision
(`Unmodified`).  HPA and PDB follow in `childOrder`, from lagging caches of their own
(`copy`; `behind` has those that were written since they were cached, the HPA's status by
the autoscaler included).  `ApplyPolicy` has every outcome of `Engine.Apply` for them:
create, patch or delete under the lock, nothing to do, a failure because the child
exists or has changed, and the skipped deletion of a child that is not in the cache
yet.  `Rollout` is the Deployment's controller, `HPAEnforces`, `HPAScales` and `SetActive`
are the autoscaler.  The status is written in one step; a status of an older
generation is dropped.  `Reported` is what the documentation says of the conditions;
the rollout of an autoscaled workload, where the code disagrees, is stated by
`AutoscaledReady`.

### Builders

One child of one kind is created or repaired by its callback from the live object,
stored with the API server's defaults, and edited by users and others in between.  A
group of fields that a callback sets to constants (security context, selectors, rules)
is one field with the values managed and other.  `OwnedPart` and `ForeignPart` split
an object for the properties; they are written from the documented field ownership,
not from the callbacks.  Labels and resource lists are functions on the keys present;
labels, images, ports, quantities and Secret names come from one set `Values`, of which
TLC gets two.  Foreign containers and ports are compared with their positions in the
list, so a repair that moved a sidecar would be seen.  A spec that does not build
(`Buildable`: a refused resources block, a budget beyond the replica floor) touches no
child, neither to repair nor to delete it (`Refuse`).  Stale caches and ownership are in
`ChildEngine`.

### Manager

Time passes in seconds (`Tick`).  A leader renews every RetryPeriod and gives up
RenewDeadline after its first failed try.  A candidate takes a Lease that is free or that
it has not seen renewed for LeaseDuration, counted from when it saw the last change
(`watched`), as client-go does, which trusts no other clock.  client-go also demands
RenewDeadline > 1.2 RetryPeriod; neither `Validate` nor the model does, and the settings
of the runs satisfy it.
Losing leadership ends the process and the kubelet starts a new one, as `main` has it.
`strategy` and the sizes 1 (documentation) and 2 (manifest) drive the Deployment
controller, whose scale-up and scale-down rules are modelled with the readiness that
`startupReadiness` grants to the leader alone.

## Runs

Each run takes less than four minutes with two workers.

| Run | Bounds | States | Shows |
| --- | --- | --- | --- |
| `ChildEngine` | kinds 2 and 6, two contents, 2 disturbances, 6 revisions | 713k | `TypeOK`, `DependencyOrder`, `OwnWritesOnly`, refinement `AtomicDecisions`, `Convergence` |
| `StatusReport` | 1 disturbance of any kind, 8 revisions of the workload, 7 of the Deployment | 1,969k | `TypeOK`, `GenerationGuard`, `UnrelatedKept`, `GenerationTracked`, `PromptStatusConverges` |
| `Exposure` | 2 routing fields, 2 disturbances, 8 revisions | 1,368k | `TypeOK`, `RouteRemembered`, `RecordedRouteRemoved`, `ExposureConverges` |
| `Gates` | 2 tenants, with and without external Secret, 2 disturbances, 7 revisions | 871k | `TypeOK`, `ChildrenGated`, `RotationRollsOut` |
| `Scaling` | replicas 0 and 3, range 1..2, budgets min 2 and max 0, 2 disturbances, 7 revisions | 1,824k | `TypeOK`, `ScaleKept`, `ScaleConverges`, `BudgetSatisfiable`, `StatusSettles` |
| `Builders` | six kinds, every single change of a spec, two budgets that do not build, 3 edits | 811k | `TypeOK`, `LikeNew`, `ForeignKept`, `Quiet` |
| `Manager` | 3 Pod names, sizes 1 and 2, default and short times, 3 disturbances | 606k | `TypeOK`, `ExclusiveLeader`, `LeaderReturns`, `SingletonRolls` |

Why the bounds are enough to be interesting.  Two disturbances allow a deletion and a
recreation, an edit and a lost reply, an ownership loss and a name taken, a profile
that changes away and back, an edit of a field and its reversal.  A creation and two
patches of a child, or a failure report and its correction, fit in the revisions; in
`StatusReport` a finished rollout, an edit or a recreation after it, a premature Ready,
its correction and the second rollout do, in `Scaling` static replicas that the
autoscaler undoes and their return.
Conflicts need no disturbance in the status modules: the controller's own status writes
and the lag of the cache suffice.  The two kinds show an order between a cached and
an uncached child.  The run has one manager; the theorems lift the safety results to all kinds,
contents, bounds and any number of managers.  Replicas 0 and 3 around a range 1..2 put
every count below, inside and above the range; budgets reach both sides of every
comparison of `validateAvailability`.  Three edits of a child reach a spec change on top
of a foreign edit and back.  Three disturbances of the manager include an outage during
a rollout after a crash; the third Pod name is the surge.

Liveness properties excuse behaviours that use up the revision counter (the
disjuncts `clock = MaxRev`, `drev = MaxDepRev`, `AtBound`, `parent.rv = MaxRev`), because there the model
stops, not the system.  Each liveness property has a mutant that refutes it, so
the excuse does not swallow everything.  All configurations but those of `Manager`
switch the deadlock check off: a settled system has nothing to do.

### Fairness

Weak fairness of the worker's next step (controller-runtime serves a queued
key; requeues and backoff fire), of each informer (a watch delivers or is
re-established), and of the cluster's own controllers (garbage collector, finalizers,
Deployment rollout, Gateway, autoscaler enforcing its range).  In `Manager`: time
passes, outages end, processes start and the Deployment controller works.  Users,
outsiders and faults have no fairness and are bounded by `MaxFuel`: the liveness
statements are about what happens once they stop.

### Disagreements with the documentation

These runs are expected to end in a violation; the findings quote the statement that
the code does not keep.

| Run | Property | In short |
| --- | --- | --- |
| `StatusStuck` | `StatusConverges` | the early return of `patchStatus` trusts a cached status; a wrong stored status may stay |
| `StatusEarned` | `ReadyIsEarned` | Ready for a new generation from a cached Deployment that lacks its template |
| `ExposureLeak` | `RouteRemoved` | a route created by a reconcile whose status patch is refused is forgotten |
| `ScalingReady` | `AutoscaledReady` | an autoscaled workload with a complete rollout is not Ready unless its count happens to be `spec.replicas` |
| `ManagerRollout` | `ManagerRolls` | two replicas of which only the leader is ready are never rolled out |

Further observations, visible in the models but without a run of their own:

- The conflict retry stores the condition list of an older read.  Conditions of an older
  generation may replace those that were published for the live one meanwhile
  (`failures.go:166`, against the comment at `failures.go:155`); another controller's
  condition that was changed or removed meanwhile gets its old value back
  (`failures.go:181`, against `docs/status.md:42`; `UnrelatedKept` is what remains
  true); and the transition times are those of the older read (`docs/status.md:12`).
- The retry compares generations, not UIDs: a workload recreated under its name can
  receive its predecessor's observation (`failures.go:162`).  `PromptStatusConverges`,
  whose run has recreations, says that it does not stay.
- A failure report after a failed status patch omits `observedGeneration`, because the
  in-memory status already has it (`failures.go:101`, against
  `docs/reconciliation.md:76`).
- `httpRouteConditions` ignores the `observedGeneration` of a verdict
  (`exposure.go:193`), so `ExposureReady` may for a while be about replaced routing
  fields; `ExposureConverges` says that it ends.
- `Detect` reports the Gateway feature absent when only the gateways CRD is gone; a
  workload that then leaves the mode drops its condition although its HTTPRoute lives
  (`exposure.go:60`, whose comment assumes that the HTTPRoute CRD is the missing one).
- Autoscaling switched on at zero replicas stays at zero: the replica rule keeps the
  live value, at which the HPA is off (`deployment.go:120`), so the floor of
  `AvailabilityReplicaFloor` is not reached.  `Dormant` is this exception in
  `ScaleConverges` and `BudgetSatisfiable`.
- A new autoscaled Deployment starts at `minReplicas` (`deployment.go:121`), where
  `docs/autoscaling.md:10` names `spec.replicas`; and static replicas are written
  before the HPA is deleted (`engine.go:52`), where `docs/autoscaling.md:12` has the
  other order.
- `mutateHPA` writes a behavior with the scale-down window only, which the API server
  completes (`autoscaling.go:50`): such an HPA is patched on every reconcile, against
  `plan.go:25`, "preserving API defaults".  `Quiet` shows that the patch leaves the stored object as it was, so that no event loop
  arises (`Stabilized` in `Builders`).
- The revision annotation stays on the Pod template after the last external Secret
  left the spec (`external_secrets.go:151`).
- `Options.Validate` accepts times with RetryPeriod + RenewDeadline >= LeaseDuration
  (lease 4, renew 3, retry 2 seconds, for instance, which client-go accepts, too), for
  which the model has two leaders for a moment when the API is away
  (`manager.go:95`, against `docs/availability.md:33`); the defaults and the times of the
  run keep a distance.

## Proofs

Every theorem holds for all values of the constants that satisfy the named
assumptions of its module.  TLC checked the invariants below on small instances, too.

### The engine

`ChildEngineProofs`, for every set of managers, every subset of the seven kinds, every
set of contents and every bound:

- `TypeCorrect`: `Spec => []TypeOK`.
- `Ownership`: `Spec => OwnWritesOnly`.  The property alone is not inductive: a patch
  is decided on a cached copy and checked by revision only.  The invariant `OwnInv`
  adds that a manager at a write step has read an object owned by its parent and
  not terminating (`Engaged`), that no copy anywhere is newer than the revision
  counter and that a copy with the revision of the stored object is that object
  (`Coherent`), and what a reconcile in progress holds (`Pending`).  Equality of
  revisions then gives equality of owner, UID and deletion mark at the moment of the
  write.
- `DependencyOrdered`: `Spec => []DependencyOrder`.  `DepInv` adds that every object,
  stored or cached, that names a controller is recorded in `made` (`History`), and what
  a reconcile has established on its way (`Passed`): each wanted kind behind it is
  recorded for its parent, a pending create or patch is of a wanted kind, a pending
  patch of an object that `Mutate` accepts, a pending delete of a kind not wanted.

- `Refinement`: `Spec => AtomicDecisions`.  Under `DepInv` every step of `ChildEngine`
  is, through the refinement mapping, a step of `AtomicEngine` or a stutter: a write
  that takes effect is `Apply` (by `Passed` the decision fits the version of the workload
  in hand, by `Coherent` the object it was taken on is the live one), a read, a failure
  or a cache event at most loses old versions (`Forget`), and the users, outsiders and
  the garbage collector are their abstract counterparts.

Assumptions: `Kinds` is a subset of 0..6, the bounds are naturals, `Nil` is none of
the objects, with or without their revisions.  Nothing is assumed of the number of
managers or of the contents.

### Status

`StatusReportProofs`, for every bound, all replica counts and all foreign values:

- `TypeCorrect`: `Spec => []TypeOK`.
- `GenerationGuarded`: `Spec => GenerationGuard`.
- `UnrelatedConditionsKept`: `Spec => UnrelatedKept`.

All three rest on `ReportInv`.  A cached copy, the object in hand and the one read for
a retry are never newer than the revision counter, and while one has the stored
revision it has the stored generation and the stored foreign condition (`Copies`; more
cannot be said of the object in hand, whose status `reportFailure` replaces by what
could not be written).  The status to be written is about the generation in hand and
carries its foreign condition (`Composed`).  A patch succeeds only under the lock, so
what it writes is about the stored generation.

### Scaling

`ScalingProofs`, for every set of replica counts, autoscaling ranges, budgets and
bounds: `TypeCorrect`, and `AutoscalerOwnsScale`, `Spec => ScaleKept`.  The invariant
`ScaleInv` adds that the cached Deployment is not newer than the stored one and equals
it while the revisions are equal (`Coherent`), so that the count that the replica rule
copies from the cache is the live one whenever the patch passes the lock.

### Gates and exposure

`StatusPatchProofs` has the lemmas about the shared frame: every step of `patchStatus`,
every report and every failure either ends the reconcile or leaves it at the position
its caller asked for, with the same generation of the same spec in hand (`Resumed`).

`GatesProofs`, for every set of tenants and every bound: `TypeCorrect`, and `GatesHold`,
`Spec => ChildrenGated`.  `GatesInv` says that during a reconcile the history has
everything the gates are open for now (`Watched`), and that a reconcile which is at a
step, or will be once `patchStatus` has returned, has every gate before that step in
its history (`Passed`).

`ExposureProofs`, for every number of routing fields and every bound: `TypeCorrect`, and
`RouteIsRemembered`, `Spec => []RouteRemembered`, the safety part of
`RecordedRouteRemoved`.  `ExposureInv` needs four facts:

- `Snapshots`: cache, object in hand and object of a retry are old or current states of
  the workload up to their conditions; the cache is not behind the reconcile that
  started from it;
- `Whole`: a route lives only while its API is served, and (the hypothesis) the API is
  served whole or not at all;
- `Deleted`: after the apply of a spec without exposure there is no route;
- `Remembered`: once a removal is owed and the condition is missing in the stored
  workload, in a cached copy of its generation or in the object in hand, the route is
  gone and no older spec that asks for a route is left in the cache or in hand to bring
  it back.

The hypothesis is that no CRD of Gateway API is removed alone (`"crd"` is not among the
disturbances).  The code needs it: see the observation about `exposure.go:60`.

### Builders

`BuildersProofs`, for every set of specs, every set of values, every subset of the six
kinds and any number of edits:

- `TypeCorrect`: `Spec => []TypeOK`.
- `RepairComplete`: `Spec => []LikeNew`.
- `NoUpdateStorm`: `Spec => []Quiet`.
- `ForeignPreserved`: `Spec => ForeignKept`.

They rest on `BuildersInv`, which adds `Tidy` to the three invariants: a stored
Deployment has at most one container of the workload's name, each container at most
one port named http, and a request for every limit.  The type alone would not do.  The
callback looks for its container and its port by name and takes the first it finds, so
with a second one the owned part would not be that of a new child; and a limit that
another client set without a request would be completed by the API server in the middle
of a repair, a change of the requests that the callback did not make.  Edits keep `Tidy`
because a tampered Deployment is defaulted before it is stored, and so is a planted one.

The argument has three layers.  About operators: what `Over` leaves after a restriction
(`Merged`: the owned keys are those desired, the foreign ones those found, and merging
twice is merging once) and what `Put` does to a list of named elements (`Placed`: the
element is there once, the others are where they were, a second `Put` changes nothing).
About one apply: for each kind, `Default` after `Mutate` gives an object of the right
type whose owned part depends on the spec alone, whose foreign part is that of the
object it started from, and on which `Mutate` has nothing left to do (`Applied`).  About
the system: `Create` and `Repair` are such an apply, from the empty object or from a
stored one; `Delete` and `Refuse` are immediate; edits make the outcome stale, so that
only type and `Tidy` are left to show.

Assumptions (`BuildersAssumption`): the kinds are among the six, the values are naturals
with 1 and 2 among them (the edits by others use these two), the specs have the fields
and types that the CRD gives them, and the bound is a natural.  Nothing is assumed of
`Nil`.

### Manager

`ManagerProofs`, for every set of Pods, sizes, options and bounds:

- `TypeCorrect`: `Spec => []TypeOK`.
- `LeaderExclusive`: `Spec => []ExclusiveLeader`, if every accepted setting has
  RetryPeriod + RenewDeadline < LeaseDuration (`Spaced`).  The invariant `LeaderHolds`
  says that a leader holds the Lease and that no candidate has been watching it unchanged
  for longer than the time since the leader's last known renewal; a lost reply makes the
  renewal younger than the leader knows, never older, so a candidate's wait ends only
  after the leader gave up.  The hypothesis is needed:
  `Validate` alone does not give it (see the observations), the defaults satisfy it
  (`DefaultsSpaced`).

### Only model-checked

All liveness, since fairness and `ENABLED` are out of the prover's reach: `Convergence`,
`GenerationTracked`, `PromptStatusConverges`, `RecordedRouteRemoved`,
`ExposureConverges`, `RotationRollsOut`, `ScaleConverges`, `BudgetSatisfiable`,
`StatusSettles`, `LeaderReturns`, `SingletonRolls`.  Every invariant and every action
property of the passing runs is stated by a theorem.

## Not modelled

Telemetry (counters and gauges that no decision reads); generated deep copies; Events,
messages, the endpoint and the replica counts copied into status; the parsing of
quantities; CRD admission, which is assumed; endpoints, TLS and cache options of the
manager; manifests other than the manager's Deployment, GitOps and Terraform assets,
the demo application; durations outside `Manager`.  No single module has all steps of
`Reconcile`: each has those that share state with its subject.

## Plan

1. (done) `ChildEngine`, its run and its three theorems.
2. (done) `StatusReport`, `Exposure`, `Scaling` with their runs.
3. (done) `StatusPatch`, `Capability`, `Gates`: the gates and the status patches in the
   middle of a reconcile.
4. (done) `Builders`: the callbacks against a child created anew.
5. (done) Status of scaling in `Scaling`.
6. (done) `AtomicEngine` and its refinement, checked.
7. (done) `Manager`.
8. (done) `ManagerProofs`.
9. (done) Type correctness; `GenerationGuard` and `UnrelatedKept`, `ScaleKept`,
   `ChildrenGated`, `RouteRemembered`; the refinement of `AtomicEngine`.
10. (done) `BuildersProofs`: type correctness, `LikeNew`, `Quiet` and `ForeignKept`.
11. Safety parts of the remaining liveness properties, where there are any (a budget that
    `validateAvailability` accepted, a rotated Secret); a property for the removal of the
    gateways CRD alone (`exposure.go:60`), once the code says what it wants there.
