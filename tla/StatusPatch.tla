---------------------------- MODULE StatusPatch ----------------------------
(***************************************************************************)
(* The frame of Reconcile that Exposure and Gates share: one AIWorkload, its  *)
(* cache, the reconcile in progress, and patchStatus and reportFailure       *)
(* (internal/controller/failures.go), which Reconcile calls after each gate. *)
(*                                                                           *)
(* A module that extends this one says what a spec is, which steps a         *)
(* reconcile has and what else there is in the cluster.  StatusReport has    *)
(* the rest of the status: observations of the Deployment, transition times, *)
(* foreign conditions and recreated workloads.                               *)
(***************************************************************************)
EXTENDS Naturals

CONSTANTS
    MaxRev,       \* bound on the revision counter of the workload
    MaxFuel,      \* bound on disturbances
    Disturbances, \* the disturbances of this instance
    Nil

ASSUME StatusAssumption == MaxRev \in Nat /\ MaxFuel \in Nat

VARIABLES
    fuel,      \* disturbances left
    parent,    \* the AIWorkload in the API server
    pcache,    \* the cached AIWorkload
    queued,    \* the workqueue holds the workload, or will
    work       \* the reconcile in progress

\* The list status.conditions: a status and an observedGeneration for each type
\* that is there.  "Ready" stands for Ready, Progressing and Degraded: True when
\* the Deployment is healthy, False after a permanent failure and Unknown after
\* any other.  Reasons and messages are left out.
ConditionTypes == {"TenantReady", "ExternalSecretsReady", "ExposureReady", "Ready"}
Condition == [s : {"none", "False", "True", "Unknown"}, gen : Nat]
Conditions == [ConditionTypes -> Condition]

NoCondition == [s |-> "none", gen |-> 0]
NoConditions == [c \in ConditionTypes |-> NoCondition]

Parents(specs) == [gen : Nat, rv : Nat, spec : specs, conds : Conditions]

\* obj is the workload in memory, fresh the one that a retry has read; cont is
\* where the reconcile goes on after a patch ("again": it ends and comes back),
\* and failing says that it is reporting a failure.
Idle == [pc |-> "idle", obj |-> Nil, fresh |-> Nil, cont |-> "idle",
         failing |-> FALSE]

Works(specs, steps) ==
    [pc : steps \cup {"idle", "patch", "reread", "repatch"},
     obj : Parents(specs) \cup {Nil}, fresh : Parents(specs) \cup {Nil},
     cont : steps \cup {"idle", "again"}, failing : BOOLEAN]

StatusOK(specs, steps) ==
    /\ fuel \in Nat /\ queued \in BOOLEAN
    /\ parent \in Parents(specs) /\ pcache \in Parents(specs)
    /\ work \in Works(specs, steps)

\* A new workload, which the manager has just listed.
StatusInit(specs) ==
    /\ fuel = MaxFuel
    /\ parent \in [gen : {1}, rv : {1}, spec : specs, conds : {NoConditions}]
    /\ pcache = parent /\ queued = TRUE /\ work = Idle

Fault(d) == d \in Disturbances /\ fuel > 0 /\ fuel' = fuel - 1

-----------------------------------------------------------------------------
(* Conditions *)

SetConditionUndated(p, type, status) ==
    [p.conds EXCEPT ![type] = [s |-> status, gen |-> Nil]]

\* meta.SetStatusCondition and meta.RemoveStatusCondition on the list of p.
SetCondition(p, type, status) ==
    [p.conds EXCEPT ![type] = [s |-> status, gen |-> p.gen]]

RemoveCondition(p, type) == [p.conds EXCEPT ![type] = NoCondition]

-----------------------------------------------------------------------------
(* The reconcile *)

\* The reconcile ends; it comes back on request, and after a failure.
Finish(again) ==
    /\ work' = Idle
    /\ queued' = (queued \/ again)

\* The reconcile goes on with o in memory.
Continue(o, cont, failing) ==
    \/ cont \in {"idle", "again"} /\ Finish(failing \/ cont = "again")
    \/ /\ cont \notin {"idle", "again"}
       /\ work' = [Idle EXCEPT !.pc = cont, !.obj = o]
       /\ UNCHANGED queued

\* Change the conditions in memory and call patchStatus, which has nothing to do
\* when they are the same.
Submit(conds, cont, failing) ==
    \/ conds = work.obj.conds /\ Continue(work.obj, cont, failing)
    \/ /\ conds # work.obj.conds
       /\ work' = [pc |-> "patch", obj |-> [work.obj EXCEPT !.conds = conds],
                   fresh |-> Nil, cont |-> cont, failing |-> failing]
       /\ UNCHANGED queued

\* Any error, and the configuration error of a gate, which also sets the
\* condition of the gate.  Both are retried.
reportFailure == Submit(SetCondition(work.obj, "Ready", "Unknown"), "idle", TRUE)

reportGateError(type) ==
    LET failed == [s |-> "False", gen |-> work.obj.gen]
    IN  Submit([work.obj.conds EXCEPT !["Ready"] = failed, ![type] = failed],
               "idle", TRUE)

\* An error of patchStatus is reported once; a second one is returned.
PatchFails ==
    \/ ~work.failing /\ reportFailure
    \/ work.failing /\ Finish(TRUE)

Lock(o) == parent.rv = o.rv

\* Status().Patch under the lock of an object, after which o is the workload in
\* memory: it succeeds, succeeds with a lost reply, or fails without effect.
Attempt(lock, o) ==
    \/ /\ Lock(lock) /\ parent.rv < MaxRev
       /\ parent' = [parent EXCEPT !.rv = parent.rv + 1, !.conds = work.obj.conds]
       /\ \/ Continue(o, work.cont, work.failing) /\ UNCHANGED fuel
          \/ Fault("lostReply") /\ PatchFails
    \/ Fault("apiError") /\ PatchFails /\ UNCHANGED parent

\* patchStatus: a first attempt, or a Conflict.  A success refreshes the object in
\* memory.
Patch ==
    /\ work.pc = "patch"
    /\ \/ Attempt(work.obj, [work.obj EXCEPT !.rv = parent.rv + 1])
       \/ /\ ~Lock(work.obj)
          /\ work' = [work EXCEPT !.pc = "reread"]
          /\ UNCHANGED <<fuel, parent, queued>>
    /\ UNCHANGED pcache

SameGenerationUnchecked(o) == TRUE

SameGeneration(o) == o.gen = work.obj.gen

\* The retry from the cached workload, of the same generation.
Reread ==
    /\ work.pc = "reread"
    /\ \/ ~SameGeneration(pcache) /\ PatchFails
       \/ /\ SameGeneration(pcache) /\ pcache.conds = work.obj.conds
          /\ Continue(work.obj, work.cont, work.failing)
       \/ /\ SameGeneration(pcache) /\ pcache.conds # work.obj.conds
          /\ work' = [work EXCEPT !.pc = "repatch", !.fresh = pcache]
          /\ UNCHANGED queued
    /\ UNCHANGED <<fuel, parent, pcache>>

\* The object in memory keeps its old revision; another Conflict is an error.
Repatch ==
    /\ work.pc = "repatch"
    /\ \/ Attempt(work.fresh, work.obj)
       \/ ~Lock(work.fresh) /\ PatchFails /\ UNCHANGED <<fuel, parent>>
    /\ UNCHANGED pcache

patchStatus == Patch \/ Reread \/ Repatch

\* A reconcile starts at the step first.
Begin(first) ==
    /\ queued /\ work.pc = "idle"
    /\ queued' = FALSE
    /\ work' = [Idle EXCEPT !.pc = first, !.obj = pcache]
    /\ UNCHANGED <<fuel, parent, pcache>>

\* observeAndReportStatus of a healthy Deployment.
Report(cont) ==
    /\ work.pc = "report"
    /\ Submit(SetCondition(work.obj, "Ready", "True"), cont, FALSE)
    /\ UNCHANGED <<fuel, parent, pcache>>

Goto(pc) == work' = [work EXCEPT !.pc = pc] /\ UNCHANGED queued

\* The manager dies; its replacement lists the workload.
Restart ==
    /\ Fault("restart")
    /\ work' = Idle /\ queued' = TRUE /\ pcache' = parent
    /\ UNCHANGED parent

\* Only a new generation wakes the controller.
SyncParent ==
    /\ pcache # parent
    /\ pcache' = parent
    /\ queued' = (queued \/ pcache.gen # parent.gen)
    /\ UNCHANGED <<fuel, parent, work>>

\* The user asks for spec s.
Edit(s) ==
    /\ Fault("edit") /\ parent.rv < MaxRev
    /\ parent' = [parent EXCEPT !.gen = parent.gen + 1, !.rv = parent.rv + 1,
                                !.spec = s]
    /\ UNCHANGED <<pcache, queued, work>>

=============================================================================
