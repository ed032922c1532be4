---------------------------- MODULE StatusReport ----------------------------
(***************************************************************************)
(* How the controller publishes status: observeAndReportStatus and           *)
(* assessDeployment (internal/controller/status.go), reportFailure and the   *)
(* conflict handling of patchStatus (internal/controller/failures.go), for   *)
(* one AIWorkload name and one manager.                                      *)
(*                                                                           *)
(* The workload, its Deployment and the Secret that it references are read   *)
(* from informer caches that lag the API server.  Status is written by merge *)
(* patch under an optimistic lock; after a Conflict patchStatus re-reads the *)
(* (cached) workload once.  The workload names no tenant, no ExternalSecret  *)
(* and no exposure, so the checks of Reconcile before the apply loop write   *)
(* nothing; the apply loop is reduced to the Deployment (ChildEngine has the *)
(* rest), and objects are deleted at once.                                   *)
(***************************************************************************)
EXTENDS Naturals

CONSTANTS
    MaxRev,     \* bound on the revisions of workloads
    MaxDepRev,  \* bound on the revisions of Deployments
    MaxFuel,    \* bound on disturbances
    MaxExt,     \* values of another controller's condition: 1..MaxExt
    Replicas,   \* values of spec.replicas
    Disturbances, \* the disturbances of this instance
    Nil

ASSUME BoundsAssumption ==
    /\ MaxRev \in Nat /\ MaxDepRev \in Nat /\ MaxFuel \in Nat /\ MaxExt \in Nat \ {0}
    /\ Replicas \subseteq Nat

VARIABLES
    clock,    \* revision counter of workloads, also the source of UIDs and times
    drev,     \* revision counter of Deployments
    fuel,     \* disturbances left
    parent,   \* the AIWorkload in the API server
    dep,      \* its Deployment in the API server
    secret,   \* whether the Secret that the workload references exists
    pcache, dcache, scache,   \* the informer caches
    queued,   \* the workqueue holds the workload
    work,     \* the reconcile in progress
    earned,   \* history: the rollout of the live generation has been complete
    own       \* history: whether the cache has the controller's last status write;
              \* "missed" once a reconcile began without it

vars == <<clock, drev, fuel, parent, dep, secret, pcache, dcache, scache, queued,
          work, earned, own>>

\* The triple Ready/Progressing/Degraded with its reason: "Ready" is
\* WorkloadReady, "Progressing" Reconciling or DeploymentUnavailable, "Stalled"
\* ProgressDeadlineExceeded, "Zero" ScaledToZero, "Permanent" and "Transient"
\* the two kinds of failure.
Phases == {"None", "Ready", "Progressing", "Stalled", "Zero", "Permanent",
           "Transient"}

\* The list status.conditions: what the managed ones say, of which generation,
\* Ready's lastTransitionTime, and the condition of another controller (0: none).
Conditions == [gen : Nat, phase : Phases, since : Nat, ext : Nat]

Statuses == [obs : Nat, conds : Conditions]

Parents == [uid : Nat, gen : Nat, replicas : Replicas, rv : Nat, st : Statuses]

\* img is the workload generation whose template the Deployment carries; "up"
\* says that Available is True and all counts equal its own replicas.
Deployments == [owner : Nat, img : Nat, replicas : Replicas, gen : Nat, obs : Nat,
                rv : Nat, state : {"down", "up", "stuck"}]

NoStatus ==
    [obs |-> 0, conds |-> [gen |-> 0, phase |-> "None", since |-> 0, ext |-> 0]]

Idle == [pc |-> "idle", obj |-> Nil, next |-> NoStatus, fresh |-> Nil,
         failing |-> FALSE]

TypeOK ==
    /\ clock \in Nat /\ drev \in Nat /\ fuel \in Nat
    /\ parent \in Parents \cup {Nil} /\ pcache \in Parents \cup {Nil}
    /\ dep \in Deployments \cup {Nil} /\ dcache \in Deployments \cup {Nil}
    /\ secret \in BOOLEAN /\ scache \in BOOLEAN /\ queued \in BOOLEAN
    /\ work \in [pc : {"idle", "apply", "secrets", "observe", "patch", "reread",
                       "repatch"},
                 obj : Parents \cup {Nil}, next : Statuses,
                 fresh : Parents \cup {Nil}, failing : BOOLEAN]
    /\ earned \in BOOLEAN
    /\ own \in {"cached", "uncached", "missed"}

Init ==
    /\ clock = 1 /\ drev = 0 /\ fuel = MaxFuel
    /\ \E n \in Replicas :
         parent = [uid |-> 1, gen |-> 1, replicas |-> n, rv |-> 1, st |-> NoStatus]
    /\ dep = Nil /\ secret = TRUE
    /\ pcache = Nil /\ dcache = Nil /\ scache = TRUE
    /\ queued = FALSE /\ work = Idle /\ earned = FALSE /\ own = "cached"

-----------------------------------------------------------------------------
(* Conditions *)

ReadyOf(phase) ==
    CASE phase = "Ready" -> "True"
      [] phase = "Transient" -> "Unknown"
      [] phase = "None" -> "Missing"
      [] OTHER -> "False"

\* meta.SetStatusCondition moves lastTransitionTime when the status changes.
Transition(old, new) == ReadyOf(old) # ReadyOf(new)

\* The status st with the managed conditions of phase set for generation g.
Assess(st, g, phase) ==
    [obs |-> g,
     conds |-> [st.conds EXCEPT
                  !.gen = g, !.phase = phase,
                  !.since = IF Transition(st.conds.phase, phase)
                            THEN clock + 1 ELSE st.conds.since]]

deploymentReady(d, desired) ==
    d.state = "up" /\ d.replicas = desired /\ d.obs >= d.gen

assessDeployment(p, d) ==
    CASE p.replicas = 0 -> "Zero"
      [] p.replicas # 0 /\ d.state = "stuck" -> "Stalled"
      [] p.replicas # 0 /\ deploymentReady(d, p.replicas) -> "Ready"
      [] OTHER -> "Progressing"

preserveNothing(desired, current) == [desired EXCEPT !.ext = 0]

\* The retried list keeps what it says itself of the foreign condition and
\* takes over the fresh object's when it has none.
preserveUnmanagedConditions(desired, current) ==
    [desired EXCEPT !.ext = IF desired.ext = 0 THEN current.ext ELSE desired.ext]

MergePatchClears(st, before, after) ==
    [obs |-> IF before.obs # after.obs THEN after.obs ELSE Nil,
     conds |-> IF before.conds # after.conds THEN after.conds ELSE st.conds]

\* A merge patch carries the fields in which after differs from before; the
\* conditions are one list.
MergePatch(st, before, after) ==
    [obs |-> IF before.obs # after.obs THEN after.obs ELSE st.obs,
     conds |-> IF before.conds # after.conds THEN after.conds ELSE st.conds]

-----------------------------------------------------------------------------
(* The reconcile *)

apiVars == <<parent, dep, drev, secret, earned>>
cacheVars == <<pcache, dcache, scache>>

Fault(d) == d \in Disturbances /\ fuel > 0 /\ fuel' = fuel - 1

\* A reconcile may start before the cache has caught up with the workload.
Start ==
    /\ queued /\ work.pc = "idle"
    /\ queued' = FALSE
    /\ work' = IF pcache = Nil THEN Idle
               ELSE [Idle EXCEPT !.pc = "apply", !.obj = pcache]
    /\ own' = IF own = "cached" THEN own ELSE "missed"
    /\ UNCHANGED <<clock, fuel, apiVars, cacheVars>>

\* reportFailure: assess the failure on top of the in-memory status st, then
\* patch the difference.
reportFailure(st, phase) ==
    work' = [work EXCEPT
               !.pc = "patch", !.failing = TRUE, !.fresh = Nil,
               !.obj = [work.obj EXCEPT !.st = st],
               !.next = Assess(st, work.obj.gen, phase)]

\* The reconcile ends; a failure comes back after a minute or with backoff.
Finish ==
    /\ work' = Idle
    /\ queued' = (queued \/ work.failing)

\* An error of patchStatus is reported once; a second one is returned.
PatchFails ==
    \/ /\ ~work.failing
       /\ reportFailure(work.next, "Transient") /\ UNCHANGED queued
    \/ /\ work.failing
       /\ Finish

Tick == clock < MaxRev /\ clock' = clock + 1

WriteDeployment(d) ==
    /\ drev < MaxDepRev /\ drev' = drev + 1
    /\ dep' = [d EXCEPT !.rv = drev + 1]
    /\ UNCHANGED clock

\* Engine.Apply of the Deployment intent, from the cached Deployment.
Apply ==
    LET p == work.obj
        fresh == [owner |-> p.uid, img |-> p.gen, replicas |-> p.replicas,
                  gen |-> 1, obs |-> 0, rv |-> 0, state |-> "down"]
        current == dep # Nil /\ dep.rv = dcache.rv
        proceed == work' = [work EXCEPT !.pc = "secrets"]
        fails(phase) == /\ reportFailure(p.st, phase)
                        /\ UNCHANGED <<clock, drev, dep>>
    IN  /\ work.pc = "apply"
        /\ \/ dcache = Nil /\ dep = Nil /\ WriteDeployment(fresh) /\ proceed
           \/ dcache = Nil /\ dep # Nil /\ fails("Transient")
           \/ dcache # Nil /\ dcache.owner # p.uid /\ fails("Permanent")
           \/ /\ dcache # Nil /\ dcache.owner = p.uid /\ dcache.img = p.gen
              /\ proceed /\ UNCHANGED <<clock, drev, dep>>
           \/ /\ dcache # Nil /\ dcache.owner = p.uid /\ dcache.img # p.gen
              /\ \/ /\ current
                    /\ WriteDeployment([dep EXCEPT !.img = p.gen,
                                                   !.replicas = p.replicas,
                                                   !.gen = dep.gen + 1])
                    /\ proceed
                 \/ ~current /\ fails("Transient")
        /\ UNCHANGED <<fuel, parent, secret, earned, cacheVars, queued>>

\* validateSecretReferences: an absent Secret is a permanent failure, any other
\* error of the read is not.
CheckSecrets ==
    /\ work.pc = "secrets"
    /\ \/ scache /\ work' = [work EXCEPT !.pc = "observe"] /\ UNCHANGED fuel
       \/ ~scache /\ reportFailure(work.obj.st, "Permanent") /\ UNCHANGED fuel
       \/ Fault("apiError") /\ reportFailure(work.obj.st, "Transient")
    /\ UNCHANGED <<clock, apiVars, cacheVars, queued>>

\* observeAndReportStatus up to its patch.
Observe ==
    /\ work.pc = "observe"
    /\ \/ dcache = Nil /\ reportFailure(work.obj.st, "Transient")
       \/ /\ dcache # Nil
          /\ work' = [work EXCEPT
                        !.pc = "patch",
                        !.next = Assess(work.obj.st, work.obj.gen,
                                        assessDeployment(work.obj, dcache))]
    /\ UNCHANGED <<clock, fuel, apiVars, cacheVars, queued>>

Lock(o) == parent # Nil /\ parent.rv = o.rv

\* Status().Patch of object o from before to after: it takes effect and is
\* answered, takes effect and is answered by a timeout, or has no effect.
StatusPatch(o, before, after) ==
    \/ /\ Lock(o) /\ Tick
       /\ parent' = [parent EXCEPT !.rv = clock + 1,
                                   !.st = MergePatch(parent.st, before, after)]
       /\ UNCHANGED <<dep, drev, secret, earned>>
       /\ \/ Finish /\ UNCHANGED fuel
          \/ Fault("lostReply") /\ PatchFails
    \/ Fault("apiError") /\ PatchFails /\ UNCHANGED <<clock, apiVars>>
    \/ parent = Nil /\ PatchFails /\ UNCHANGED <<clock, fuel, apiVars>>

Conflict(o) == parent # Nil /\ ~Lock(o)

\* patchStatus, first attempt.
Patch ==
    LET before == work.obj.st
    IN  /\ work.pc = "patch"
        /\ \/ /\ before = work.next
              /\ Finish /\ UNCHANGED <<clock, fuel, apiVars>>
           \/ /\ before # work.next
              /\ StatusPatch(work.obj, before, work.next)
           \/ /\ before # work.next /\ Conflict(work.obj)
              /\ work' = [work EXCEPT !.pc = "reread"]
              /\ UNCHANGED <<clock, fuel, apiVars, queued>>
        /\ UNCHANGED cacheVars

SameGenerationUnchecked(o) == TRUE

SameGeneration(o) == o.gen = work.obj.gen

\* The status of the retry: the observation, with what the fresh object says
\* of conditions that the observation does not have.
Merged(fresh) ==
    [obs |-> work.next.obs,
     conds |-> preserveUnmanagedConditions(work.next.conds, fresh.st.conds)]

\* patchStatus after a Conflict: re-read through the cache.
Reread ==
    /\ work.pc = "reread"
    /\ \/ pcache = Nil /\ PatchFails
       \/ pcache # Nil /\ ~SameGeneration(pcache) /\ PatchFails
       \/ /\ pcache # Nil /\ SameGeneration(pcache)
          /\ \/ Merged(pcache) = pcache.st /\ Finish
             \/ /\ Merged(pcache) # pcache.st
                /\ work' = [work EXCEPT !.pc = "repatch", !.fresh = pcache]
                /\ UNCHANGED queued
    /\ UNCHANGED <<clock, fuel, apiVars, cacheVars>>

\* The second attempt; another Conflict is an error.
Repatch ==
    /\ work.pc = "repatch"
    /\ \/ StatusPatch(work.fresh, work.fresh.st, Merged(work.fresh))
       \/ Conflict(work.fresh) /\ PatchFails /\ UNCHANGED <<clock, fuel, apiVars>>
    /\ UNCHANGED cacheVars

Steps ==
    /\ Apply \/ CheckSecrets \/ Observe \/ Patch \/ Reread \/ Repatch
    /\ own' = IF parent' # parent /\ own = "cached" THEN "uncached" ELSE own

Reconcile == Start \/ Steps

-----------------------------------------------------------------------------
(* Watches *)

PredicateGenerationOnly(old, new) ==
    old # Nil /\ new # Nil /\ old.gen # new.gen

\* primaryPredicate: creation, deletion, or an update of UID or generation; a
\* status write wakes nobody.
primaryPredicate(old, new) ==
    old # Nil /\ new # Nil => old.uid # new.uid \/ old.gen # new.gen

SyncParent ==
    /\ pcache # parent
    /\ pcache' = parent
    /\ queued' = (queued \/ primaryPredicate(pcache, parent))
    /\ own' = IF own = "uncached" THEN "cached" ELSE own
    /\ UNCHANGED <<clock, fuel, apiVars, dcache, scache, work>>

SyncDeployment ==
    /\ dcache # dep
    /\ dcache' = dep
    /\ queued' = TRUE
    /\ UNCHANGED <<clock, fuel, apiVars, pcache, scache, work, own>>

RequestsForSecretNever == FALSE

\* The workloads in the cache that reference the Secret of an event.
RequestsForSecret == pcache # Nil

SyncSecret ==
    /\ scache # secret
    /\ scache' = secret
    /\ queued' = (queued \/ RequestsForSecret)
    /\ UNCHANGED <<clock, fuel, apiVars, pcache, dcache, work, own>>

-----------------------------------------------------------------------------
(* The Deployment controller, the garbage collector, users, other controllers *)

managerVars == <<cacheVars, queued, work, own>>

\* d completes the rollout of the live workload's generation.
Completes(d) ==
    /\ parent # Nil /\ d.owner = parent.uid /\ d.img = parent.gen
    /\ deploymentReady(d, d.replicas)

\* The Deployment controller picks up a template, then completes or gives up.
RolloutBegins ==
    /\ dep # Nil /\ dep.obs < dep.gen
    /\ WriteDeployment([dep EXCEPT !.obs = dep.gen, !.state = "down"])
    /\ UNCHANGED <<fuel, parent, secret, earned, managerVars>>

RolloutEnds ==
    /\ dep # Nil /\ dep.obs = dep.gen /\ dep.state = "down"
    /\ \E s \in {"up", "stuck"} : WriteDeployment([dep EXCEPT !.state = s])
    /\ earned' = (earned \/ Completes(dep'))
    /\ UNCHANGED <<fuel, parent, secret, managerVars>>

\* The owner of the Deployment is gone.
CollectGarbage ==
    /\ dep # Nil /\ (parent # Nil => parent.uid # dep.owner)
    /\ dep' = Nil
    /\ UNCHANGED <<clock, drev, fuel, parent, secret, earned, managerVars>>

PodsFail ==
    /\ dep # Nil /\ dep.state = "up" /\ Fault("podsFail")
    /\ WriteDeployment([dep EXCEPT !.state = "down"])
    /\ UNCHANGED <<parent, secret, earned, managerVars>>

EditSpec ==
    /\ parent # Nil /\ Fault("edit")
    /\ Tick
    /\ \E n \in Replicas :
         parent' = [parent EXCEPT !.gen = parent.gen + 1, !.replicas = n,
                                  !.rv = clock + 1]
    /\ earned' = FALSE
    /\ UNCHANGED <<dep, drev, secret, managerVars>>

DeleteParent ==
    /\ parent # Nil /\ Fault("recreate")
    /\ parent' = Nil /\ earned' = FALSE
    /\ UNCHANGED <<clock, dep, drev, secret, managerVars>>

CreateParent ==
    /\ parent = Nil
    /\ Tick
    /\ \E n \in Replicas :
         parent' = [uid |-> clock + 1, gen |-> 1, replicas |-> n, rv |-> clock + 1,
                    st |-> NoStatus]
    /\ UNCHANGED <<fuel, dep, drev, secret, earned, managerVars>>

\* Another controller sets or removes its own condition.
ForeignCondition ==
    /\ parent # Nil /\ Fault("foreign")
    /\ Tick
    /\ \E v \in (0..MaxExt) \ {parent.st.conds.ext} :
         parent' = [parent EXCEPT !.rv = clock + 1, !.st.conds.ext = v]
    /\ UNCHANGED <<dep, drev, secret, earned, managerVars>>

SecretChanges ==
    /\ Fault("secret")
    /\ secret' = ~secret
    /\ UNCHANGED <<clock, parent, dep, drev, earned, managerVars>>

Environment ==
    \/ RolloutBegins \/ RolloutEnds \/ CollectGarbage \/ PodsFail
    \/ EditSpec \/ DeleteParent \/ CreateParent \/ ForeignCondition \/ SecretChanges

Next == Reconcile \/ SyncParent \/ SyncDeployment \/ SyncSecret \/ Environment

Spec == Init /\ [][Next]_vars

\* The worker, the informers, the Deployment controller and the garbage
\* collector keep going; nothing else is owed.
Fairness ==
    /\ WF_vars(Reconcile)
    /\ WF_vars(SyncParent) /\ WF_vars(SyncDeployment) /\ WF_vars(SyncSecret)
    /\ WF_vars(RolloutBegins) /\ WF_vars(RolloutEnds) /\ WF_vars(CollectGarbage)

FairSpec == Spec /\ Fairness

-----------------------------------------------------------------------------
(* Properties *)

\* The controller writes the workload's status.
Reports == work' # work /\ parent' # parent /\ parent # Nil

\* patchStatus never puts an old generation's observation over a newer desired
\* spec, on either attempt and whatever the caches hold: what it writes is
\* about the generation that the API server holds at that moment.
GenerationGuard ==
    [][Reports => /\ parent'.st.conds # parent.st.conds =>
                         parent'.st.conds.gen = parent.gen
                  /\ parent'.st.obs \in {parent.st.obs, parent.gen}]_vars

\* A status write never drops the condition of another controller, even if
\* that condition appeared after the workload was read.
UnrelatedKept ==
    [][Reports /\ parent.st.conds.ext # 0 => parent'.st.conds.ext # 0]_vars

\* The live generation is rolled out to a Deployment of the live UID and recorded
\* as observed.
Tracked ==
    parent # Nil =>
        /\ parent.st.obs = parent.gen /\ parent.st.conds.gen = parent.gen
        /\ dep # Nil /\ dep.owner = parent.uid /\ dep.img = parent.gen

\* Moreover the status tells the state of the rollout, or that the Secret is
\* missing.
Truthful ==
    parent # Nil =>
        /\ Tracked
        /\ parent.st.conds.phase =
               IF secret THEN assessDeployment(parent, dep) ELSE "Permanent"

\* docs/status.md, the condition contract: "Current rollout complete | True |
\* False | False | WorkloadReady", and so on: whatever conflicts, lost replies,
\* failures and recreations happened, once they end the published status becomes
\* and remains truthful, although no status write wakes the controller and a
\* failed patch leaves the in-memory status ahead of the stored one.
\* (Behaviours that use up the revision bound are excused: while the Deployment
\* stays out of the cache every retry may move lastTransitionTime again.)
StatusConverges == <>[](Truthful \/ clock = MaxRev \/ drev = MaxDepRev)

\* The same for behaviours in which no reconcile started before the controller's
\* last status write had reached its cache.  The cache may lag in everything else:
\* edits, recreations, other controllers' conditions, the Deployment and the Secret.
PromptStatusConverges ==
    <>[](own # "missed" => Truthful \/ clock = MaxRev \/ drev = MaxDepRev)

\* docs/status.md: "observedGeneration means that generation was evaluated": once
\* the disturbances end, each generation is applied and reported, from caches of
\* any age.
GenerationTracked == <>[](Tracked \/ clock = MaxRev \/ drev = MaxDepRev)

\* docs/status.md: "An old Available condition cannot make a newly changed
\* image Ready": Ready is written for a generation only after the rollout of
\* that generation's template completed.
ReadyIsEarned ==
    [][Reports /\ parent'.st.conds # parent.st.conds
               /\ parent'.st.conds.phase = "Ready" =>
           earned]_vars

=============================================================================
