---------------------------- MODULE GatesProofs ----------------------------
(***************************************************************************)
(* Proofs about Gates, for any tenants, any disturbances and any bounds.      *)
(***************************************************************************)
EXTENDS Gates, StatusPatchProofs

Steps == {"tenant", "discover", "external", "target", "apply", "report"}

\* During a reconcile the history has everything that the gates are open for.
Watched == work.pc # "idle" => Open(profile, served, synced) \subseteq seen

TenantPassed == work.obj.spec.tenant # Nil => work.obj.spec.tenant \in seen
ApiPassed == work.obj.spec.external => "served" \in seen
SyncPassed == work.obj.spec.external => "synced" \in seen

\* A reconcile that is at a step, or will be when patchStatus has returned, has
\* seen every gate before that step open for the spec in hand.
Passed ==
    LET at == Position(work)
    IN  /\ at \in {"discover", "external", "target", "apply"} => TenantPassed
        /\ at \in {"external", "target", "apply"} => ApiPassed
        /\ at \in {"target", "apply"} => SyncPassed

GatesInv == TypeOK /\ Engaged(Specs) /\ Watched /\ Passed

-----------------------------------------------------------------------------
(* The operators of the model *)

\* Discovery answers Available only if every resource of the feature is served.
LEMMA DetectAvailable ==
    ASSUME NEW s, NEW lost, NEW f, s \subseteq Needs(f),
           Detect(s, lost, f) = "Available"
    PROVE  s = Needs(f)
<1> DEFINE need == RequirementFor(f)
           has(i) == HasResource(s, lost, need[i])
           bad == {i \in DOMAIN need : has(i) # "found"}
<1>1. bad = {}
  BY DEF Detect
<1>2. \A i \in DOMAIN need : HasResource(s, lost, need[i]) = "found"
  BY <1>1
<1>3. \A i \in DOMAIN need : need[i] \in s
  BY <1>2 DEF HasResource
<1> QED BY <1>3 DEF Needs

\* What the gates are open for is in the type of the history.
LEMMA OpenType ==
    ASSUME NEW p \in Profiles, NEW s, NEW y
    PROVE  Open(p, s, y) \subseteq Tenants \cup {"served", "synced"}
  BY DEF Open, Profiles

\* The steps have names of their own.
LEMMA StepsProper == Proper(Steps)
  BY DEF Proper, Steps, Waiting

\* The invariant in the terms of StatusPatchProofs.
LEMMA GatesFrame ==
    ASSUME GatesInv
    PROVE  /\ StatusInv(Specs, Steps)
           /\ work.pc # "idle" => work.obj \in Parents(Specs) /\ work.obj.spec \in Specs
  BY DEF GatesInv, TypeOK, StatusInv, Steps, Engaged, Parents

-----------------------------------------------------------------------------
(* The steps *)

\* What a step of a reconcile keeps: the cluster and the history, and the types
\* of the rest.
Kept ==
    /\ UNCHANGED <<clusterVars, target, tcache, seen>>
    /\ dep' \in Deployments \cup {Nil} /\ external' \in Nat

\* A step that goes on at a position whose gates have been passed keeps the
\* invariant.
LEMMA ResumedKeeps ==
    ASSUME GatesInv, Kept, parent' \in Parents(Specs), fuel' \in Nat, pcache' = pcache,
           work.pc # "idle", NEW cont, Resumed(Specs, Steps, cont),
           cont \in {"discover", "external", "target", "apply"} => TenantPassed,
           cont \in {"external", "target", "apply"} => ApiPassed,
           cont \in {"target", "apply"} => SyncPassed
    PROVE  GatesInv'
<1>1. StatusInv(Specs, Steps)'
  BY GatesFrame, ResumedInv DEF StatusInv, StatusOK
<1>2. TypeOK'
  BY <1>1 DEF GatesInv, TypeOK, Kept, clusterVars, StatusInv, Steps
<1>3. Watched'
  BY DEF GatesInv, Watched, Kept, clusterVars, Open
<1>4. Passed'
  <2>1. CASE work' = Idle
    <3>1. Position(work') = "idle"
      BY <2>1, IdleType DEF Position, Waiting
    <3> QED BY <3>1 DEF Passed
  <2>2. CASE work'.obj.spec = work.obj.spec /\ Position(work') = cont
    BY <2>2 DEF Passed, TenantPassed, ApiPassed, SyncPassed, Kept
  <2> QED BY <2>1, <2>2 DEF Resumed
<1> QED BY <1>1, <1>2, <1>3, <1>4 DEF GatesInv, StatusInv

\* A new reconcile starts with the gates that are open.
LEMMA StartStep ==
    ASSUME GatesInv, Start
    PROVE  GatesInv'
<1>1. /\ work' \in Works(Specs, Steps) /\ queued' \in BOOLEAN
      /\ work'.obj = pcache /\ Position(work') = "tenant"
      /\ UNCHANGED <<fuel, parent, pcache>>
  BY GatesFrame, StepsProper, BeginStep DEF Start, Steps
<1>2. seen' = Open(profile', served', synced')
  BY DEF Start, clusterVars
<1>3. TypeOK'
  <2>1. seen' \subseteq Tenants \cup {"served", "synced"}
    BY OpenType DEF Start, GatesInv, TypeOK
  <2> QED BY <1>1, <2>1 DEF GatesInv, TypeOK, StatusOK, Start, clusterVars, Steps
<1>4. Engaged(Specs)'
  BY <1>1 DEF GatesInv, TypeOK, StatusOK, Engaged
<1>5. Watched' /\ Passed'
  BY <1>1, <1>2 DEF Watched, Passed
<1> QED BY <1>3, <1>4, <1>5 DEF GatesInv

\* The tenant gate: it goes on only without a tenant, or for the tenant of a
\* profile of known size, which the history then has.
LEMMA TenantStep ==
    ASSUME GatesInv, validateTenant
    PROVE  GatesInv'
<1>1. /\ StatusInv(Specs, Steps) /\ work.pc # "idle" /\ work.obj \in Parents(Specs)
      /\ Proper(Steps) /\ parent \in Parents(Specs) /\ fuel \in Nat
  BY GatesFrame, StepsProper DEF validateTenant, GatesInv, TypeOK, StatusOK
<1>2. Kept /\ UNCHANGED <<parent, pcache>>
  BY DEF validateTenant, otherVars, Kept, GatesInv, TypeOK
<1>3. CASE work.obj.spec.tenant = Nil /\ UNCHANGED fuel
           /\ Submit(RemoveCondition(work.obj, "TenantReady"), "discover", FALSE)
  <2>1. RemoveCondition(work.obj, "TenantReady") \in Conditions
    BY <1>1, RemoveConditionType DEF ConditionTypes
  <2>2. Resumed(Specs, Steps, "discover")
    BY <1>1, <1>3, <2>1, SubmitResumes DEF Steps
  <2> QED BY <1>1, <1>2, <1>3, <2>2, ResumedKeeps DEF TenantPassed
<1>4. CASE Admits(work.obj) /\ UNCHANGED fuel
           /\ Submit(SetCondition(work.obj, "TenantReady", "True"), "discover", FALSE)
  <2>1. SetCondition(work.obj, "TenantReady", "True") \in Conditions
    BY <1>1, SetConditionType DEF ConditionTypes
  <2>2. Resumed(Specs, Steps, "discover")
    BY <1>1, <1>4, <2>1, SubmitResumes DEF Steps
  <2>3. TenantPassed
    BY <1>1, <1>4 DEF GatesInv, Watched, Open, Admits, TenantPassed
  <2> QED BY <1>1, <1>2, <1>4, <2>2, <2>3, ResumedKeeps
<1>5. CASE reportGateError("TenantReady") /\ UNCHANGED fuel
  <2>1. Resumed(Specs, Steps, "idle")
    BY <1>1, <1>5, GateErrorResumes DEF ConditionTypes
  <2> QED BY <1>1, <1>2, <1>5, <2>1, ResumedKeeps
<1>6. CASE Fault("apiError") /\ reportFailure
  <2>1. Resumed(Specs, Steps, "idle") /\ fuel' \in Nat
    BY <1>1, <1>6, FailureResumes, FaultType
  <2> QED BY <1>1, <1>2, <2>1, ResumedKeeps
<1> QED BY <1>3, <1>4, <1>5, <1>6 DEF validateTenant

\* Discovery: it goes on only without an ExternalSecret, or while the whole API
\* is served.
LEMMA DiscoverStep ==
    ASSUME GatesInv, DiscoverExternalSecrets
    PROVE  GatesInv'
<1>1. /\ StatusInv(Specs, Steps) /\ work.pc # "idle" /\ work.obj \in Parents(Specs)
      /\ Proper(Steps) /\ parent \in Parents(Specs) /\ fuel \in Nat
  BY GatesFrame, StepsProper DEF DiscoverExternalSecrets, GatesInv, TypeOK, StatusOK
<1>2. Kept /\ UNCHANGED <<parent, pcache>>
  BY DEF DiscoverExternalSecrets, otherVars, Kept, GatesInv, TypeOK
<1>3. TenantPassed
  BY DEF GatesInv, Passed, Position, DiscoverExternalSecrets, Waiting
<1>4. CASE ~work.obj.spec.external /\ UNCHANGED fuel
           /\ Submit(RemoveCondition(work.obj, "ExternalSecretsReady"), "apply", FALSE)
  <2>1. RemoveCondition(work.obj, "ExternalSecretsReady") \in Conditions
    BY <1>1, RemoveConditionType DEF ConditionTypes
  <2>2. Resumed(Specs, Steps, "apply")
    BY <1>1, <1>4, <2>1, SubmitResumes DEF Steps
  <2> QED BY <1>1, <1>2, <1>3, <1>4, <2>2, ResumedKeeps DEF ApiPassed, SyncPassed
<1>5. ASSUME NEW lost \in SUBSET Needs("ExternalSecrets"),
             IF lost = {} THEN UNCHANGED fuel ELSE Fault("apiError"),
             \/ reportGateError("ExternalSecretsReady") \/ reportFailure
             \/ /\ Detect(served, lost, "ExternalSecrets") = "Available"
                /\ Goto("external")
      PROVE  GatesInv'
  <2>1. fuel' \in Nat
    BY <1>1, <1>5, FaultType
  <2>2. CASE reportGateError("ExternalSecretsReady") \/ reportFailure
    <3>1. Resumed(Specs, Steps, "idle")
      BY <1>1, <2>2, GateErrorResumes, FailureResumes DEF ConditionTypes
    <3> QED BY <1>1, <1>2, <2>1, <3>1, ResumedKeeps
  <2>3. CASE /\ Detect(served, lost, "ExternalSecrets") = "Available"
             /\ Goto("external")
    <3>1. served = Needs("ExternalSecrets")
      BY <2>3, DetectAvailable DEF GatesInv, TypeOK
    <3>2. ApiPassed
      BY <1>1, <3>1 DEF GatesInv, Watched, Open, ApiPassed
    <3>3. Resumed(Specs, Steps, "external")
      BY <1>1, <2>3, GotoResumes DEF Steps
    <3> QED BY <1>1, <1>2, <1>3, <2>1, <3>2, <3>3, ResumedKeeps
  <2> QED BY <1>5, <2>2, <2>3
<1> QED BY <1>4, <1>5 DEF DiscoverExternalSecrets

\* The ExternalSecret is passed only while it is synced.
LEMMA ReadExternalStep ==
    ASSUME GatesInv, ReadExternalSecret
    PROVE  GatesInv'
<1>1. /\ StatusInv(Specs, Steps) /\ work.pc # "idle" /\ work.obj \in Parents(Specs)
      /\ Proper(Steps) /\ parent \in Parents(Specs) /\ fuel \in Nat
  BY GatesFrame, StepsProper DEF ReadExternalSecret, GatesInv, TypeOK, StatusOK
<1>2. Kept /\ UNCHANGED <<parent, pcache>>
  BY DEF ReadExternalSecret, otherVars, Kept, GatesInv, TypeOK
<1>3. TenantPassed /\ ApiPassed
  BY DEF GatesInv, Passed, Position, ReadExternalSecret, Waiting
<1>4. fuel' \in Nat
  BY <1>1, FaultType DEF ReadExternalSecret
<1>5. CASE synced /\ Goto("target")
  <2>1. Resumed(Specs, Steps, "target")
    BY <1>1, <1>5, GotoResumes DEF Steps
  <2>2. SyncPassed
    BY <1>1, <1>5 DEF GatesInv, Watched, Open, SyncPassed
  <2> QED BY <1>1, <1>2, <1>3, <1>4, <2>1, <2>2, ResumedKeeps
<1>6. CASE reportGateError("ExternalSecretsReady") \/ reportFailure
  <2>1. Resumed(Specs, Steps, "idle")
    BY <1>1, <1>6, GateErrorResumes, FailureResumes DEF ConditionTypes
  <2> QED BY <1>1, <1>2, <1>4, <2>1, ResumedKeeps
<1> QED BY <1>5, <1>6 DEF ReadExternalSecret

\* The target's metadata is read after all gates.
LEMMA ReadTargetStep ==
    ASSUME GatesInv, ReadTarget
    PROVE  GatesInv'
<1>1. /\ StatusInv(Specs, Steps) /\ work.pc # "idle" /\ work.obj \in Parents(Specs)
      /\ Proper(Steps) /\ parent \in Parents(Specs) /\ fuel \in Nat
  BY GatesFrame, StepsProper DEF ReadTarget, GatesInv, TypeOK, StatusOK
<1>2. UNCHANGED <<parent, pcache, fuel>>
  BY DEF ReadTarget, otherVars
<1>3. Kept
  BY DEF ReadTarget, otherVars, Kept, GatesInv, TypeOK, Secrets
<1>4. TenantPassed /\ ApiPassed /\ SyncPassed
  BY DEF GatesInv, Passed, Position, ReadTarget, Waiting
<1>5. CASE Submit(SetCondition(work.obj, "ExternalSecretsReady", "True"), "apply", FALSE)
  <2>1. SetCondition(work.obj, "ExternalSecretsReady", "True") \in Conditions
    BY <1>1, SetConditionType DEF ConditionTypes
  <2>2. Resumed(Specs, Steps, "apply")
    BY <1>1, <1>5, <2>1, SubmitResumes DEF Steps
  <2> QED BY <1>1, <1>2, <1>3, <1>4, <2>2, ResumedKeeps
<1>6. CASE reportGateError("ExternalSecretsReady")
  <2>1. Resumed(Specs, Steps, "idle")
    BY <1>1, <1>6, GateErrorResumes DEF ConditionTypes
  <2> QED BY <1>1, <1>2, <1>3, <2>1, ResumedKeeps
<1> QED BY <1>5, <1>6 DEF ReadTarget

\* The Deployment keeps its type.
LEMMA ApplyStep ==
    ASSUME GatesInv, ApplyDeployment
    PROVE  GatesInv'
<1>1. /\ StatusInv(Specs, Steps) /\ work.pc # "idle" /\ work.obj \in Parents(Specs)
      /\ Proper(Steps) /\ parent \in Parents(Specs) /\ fuel \in Nat
  BY GatesFrame, StepsProper DEF ApplyDeployment, GatesInv, TypeOK, StatusOK
<1>2. /\ UNCHANGED <<parent, pcache, clusterVars, target, tcache, seen, external>>
      /\ external \in Nat /\ dep \in Deployments \cup {Nil}
  BY DEF ApplyDeployment, otherVars, GatesInv, TypeOK
<1>3. CASE Fault("apiError") /\ reportFailure /\ UNCHANGED dep
  <2>1. Resumed(Specs, Steps, "idle") /\ fuel' \in Nat
    BY <1>1, <1>3, FailureResumes, FaultType
  <2> QED BY <1>1, <1>2, <1>3, <2>1, ResumedKeeps DEF Kept
<1>4. CASE /\ dep' = decorateExternalSecretRevision(
                       [gen |-> work.obj.gen,
                        revision |-> IF dep = Nil THEN 0 ELSE dep.revision])
           /\ Goto("report") /\ UNCHANGED fuel
  <2>1. [gen |-> work.obj.gen, revision |-> IF dep = Nil THEN 0 ELSE dep.revision]
          \in Deployments
    BY <1>1, <1>2 DEF Parents, Deployments
  <2>2. \A d \in Deployments : decorateExternalSecretRevision(d) \in Deployments
    BY <1>2 DEF decorateExternalSecretRevision, Deployments
  <2>3. dep' \in Deployments
    BY <1>4, <2>1, <2>2
  <2>4. Resumed(Specs, Steps, "report")
    BY <1>1, <1>4, GotoResumes DEF Steps
  <2> QED BY <1>1, <1>2, <1>4, <2>3, <2>4, ResumedKeeps DEF Kept
<1> QED BY <1>3, <1>4 DEF ApplyDeployment

\* patchStatus and the last report leave the gates alone and go on, if at all,
\* where the step before them wanted to.
LEMMA StatusStep ==
    ASSUME GatesInv, patchStatus \/ Report("idle"), UNCHANGED frameVars
    PROVE  GatesInv'
<1>1. /\ StatusInv(Specs, Steps) /\ Proper(Steps) /\ parent \in Parents(Specs)
      /\ fuel \in Nat /\ Passed
  BY GatesFrame, StepsProper DEF GatesInv, TypeOK, StatusOK
<1>2. Kept
  BY DEF GatesInv, TypeOK, frameVars, historyVars, Kept
<1>3. CASE patchStatus
  <2>1. /\ Resumed(Specs, Steps, Position(work)) \/ Resumed(Specs, Steps, "idle")
        /\ parent' \in Parents(Specs) /\ fuel' \in Nat /\ pcache' = pcache
    BY <1>1, <1>3, PatchStatusStep
  <2>2. work.pc # "idle"
    BY <1>3 DEF patchStatus, Patch, Reread, Repatch
  <2>3. CASE Resumed(Specs, Steps, "idle")
    BY <1>2, <2>1, <2>2, <2>3, ResumedKeeps
  <2>4. CASE Resumed(Specs, Steps, Position(work))
    <3> DEFINE at == Position(work)
    <3>1. /\ at \in {"discover", "external", "target", "apply"} => TenantPassed
          /\ at \in {"external", "target", "apply"} => ApiPassed
          /\ at \in {"target", "apply"} => SyncPassed
      BY <1>1 DEF Passed
    <3> HIDE DEF at
    <3> QED BY <1>2, <2>1, <2>2, <2>4, <3>1, ResumedKeeps DEF at
  <2> QED BY <2>1, <2>3, <2>4
<1>4. CASE Report("idle")
  <2>1. Resumed(Specs, Steps, "idle") /\ UNCHANGED <<fuel, parent, pcache>>
    BY <1>1, <1>4, ReportStep DEF Ends
  <2>2. work.pc # "idle"
    BY <1>4 DEF Report
  <2> QED BY <1>1, <1>2, <2>1, <2>2, ResumedKeeps
<1> QED BY <1>3, <1>4

\* Watches, users and the platform move no reconcile forward, and the history
\* only grows.
LEMMA OutsideKeeps ==
    ASSUME GatesInv,
           \/ (Restart \/ SyncParent) /\ UNCHANGED frameVars
           \/ EditSpec \/ SyncTarget \/ PlatformChanges \/ TargetChanges
    PROVE  GatesInv'
<1>1. /\ StatusInv(Specs, Steps) /\ TypeOK /\ Watched /\ Passed
      /\ Engaged(Specs) /\ fuel \in Nat
  BY GatesFrame DEF GatesInv, TypeOK, StatusOK
<1>2. ASSUME work' = work \/ work' = Idle, seen \subseteq seen'
      PROVE  Passed'
  <2>1. CASE work' = work
    BY <1>1, <1>2, <2>1 DEF Passed, TenantPassed, ApiPassed, SyncPassed
  <2>2. CASE work' = Idle
    <3>1. Position(work') = "idle"
      BY <2>2, IdleType DEF Position, Waiting
    <3> QED BY <3>1 DEF Passed
  <2> QED BY <1>2, <2>1, <2>2
<1>3. CASE (Restart \/ SyncParent \/ EditSpec) /\ UNCHANGED frameVars
  <2>1. StatusInv(Specs, Steps)' /\ (work' = work \/ work' = Idle)
    BY <1>1, <1>3, OutsideStep DEF EditSpec
  <2>2. TypeOK'
    BY <1>1, <1>3, <2>1 DEF TypeOK, frameVars, clusterVars, historyVars, StatusInv, Steps
  <2>3. Watched'
    BY <1>1, <1>3, <2>1, IdleType
    DEF Watched, frameVars, clusterVars, historyVars, Open
  <2> QED BY <1>2, <1>3, <2>1, <2>2, <2>3 DEF GatesInv, StatusInv, frameVars, historyVars
<1>4. CASE SyncTarget \/ TargetChanges
  <2>1. /\ UNCHANGED <<parent, pcache, work, dep, clusterVars, historyVars>>
        /\ queued' \in BOOLEAN
    BY <1>1, <1>4 DEF SyncTarget, TargetChanges, TypeOK, StatusOK
  <2>2. target' \in Secrets /\ tcache' \in Secrets
    BY <1>1, <1>4 DEF SyncTarget, TargetChanges, TypeOK, Secrets
  <2>3. fuel' \in Nat
    BY <1>1, <1>4, FaultType DEF SyncTarget, TargetChanges
  <2>4. TypeOK'
    BY <1>1, <2>1, <2>2, <2>3 DEF TypeOK, StatusOK, clusterVars, historyVars
  <2>5. Watched' /\ Engaged(Specs)'
    BY <1>1, <2>1 DEF Watched, Engaged, clusterVars, historyVars, Open
  <2> QED BY <1>2, <2>1, <2>4, <2>5 DEF GatesInv, historyVars
<1>5. CASE PlatformChanges
  <2>1. /\ UNCHANGED <<parent, pcache, queued, work, dep, target, tcache, external>>
        /\ seen' = seen \cup Open(profile', served', synced') /\ fuel' \in Nat
    BY <1>1, <1>5, FaultType DEF PlatformChanges
  <2>2. /\ profile' \in Profiles /\ served' \subseteq Needs("ExternalSecrets")
        /\ synced' \in BOOLEAN
    BY <1>1, <1>5 DEF PlatformChanges, TypeOK
  <2>3. seen' \subseteq Tenants \cup {"served", "synced"}
    BY <1>1, <2>1, <2>2, OpenType DEF TypeOK
  <2>4. TypeOK'
    BY <1>1, <2>1, <2>2, <2>3 DEF TypeOK, StatusOK
  <2>5. Watched' /\ Engaged(Specs)'
    BY <1>1, <2>1 DEF Watched, Engaged
  <2> QED BY <1>2, <2>1, <2>4, <2>5 DEF GatesInv
<1>6. EditSpec => UNCHANGED frameVars
  BY DEF EditSpec
<1> QED BY <1>3, <1>4, <1>5, <1>6

-----------------------------------------------------------------------------
(* The theorems *)

\* The invariant holds initially.
LEMMA GatesInit == Init => GatesInv
<1> SUFFICES ASSUME Init PROVE GatesInv
  OBVIOUS
<1>1. StatusInv(Specs, Steps) /\ work = Idle
  BY StatusInitInv DEF Init, StatusInit
<1>2. target \in Secrets
  BY DEF Init, Secrets
<1>3. TypeOK
  BY <1>1, <1>2 DEF Init, TypeOK, StatusInv, Steps
<1>4. work.pc = "idle" /\ Position(work) = "idle"
  BY <1>1, IdleType DEF Position, Waiting
<1> QED BY <1>1, <1>3, <1>4 DEF GatesInv, StatusInv, Watched, Passed

\* Every step preserves the invariant.
LEMMA GatesStep == GatesInv /\ [Next]_vars => GatesInv'
<1> SUFFICES ASSUME GatesInv, [Next]_vars PROVE GatesInv'
  OBVIOUS
<1>1. CASE UNCHANGED vars
  BY <1>1
  DEF vars, clusterVars, historyVars, GatesInv, TypeOK, StatusOK, Engaged, Watched, Open,
      Passed, TenantPassed, ApiPassed, SyncPassed
<1>2. CASE Next
  BY <1>2, StartStep, TenantStep, DiscoverStep, ReadExternalStep, ReadTargetStep,
     ApplyStep, StatusStep, OutsideKeeps
  DEF Next, Reconcile
<1> QED BY <1>1, <1>2

\* Every reachable state of the gates is well typed.
THEOREM TypeCorrect == Spec => []TypeOK
<1>1. GatesInv => TypeOK
  BY DEF GatesInv
<1> QED BY GatesInit, GatesStep, <1>1, PTL DEF Spec

\* The Deployment is written only behind open gates: whatever the profile, the API
\* and the operator do meanwhile, and however often patchStatus fails and is
\* repeated in between, each gate was open for the spec in hand at some moment of
\* this very reconcile.
THEOREM GatesHold == Spec => ChildrenGated
<1>1. GatesInv /\ [Next]_vars =>
        [dep' # dep =>
           /\ work.obj.spec.tenant # Nil => work.obj.spec.tenant \in seen
           /\ work.obj.spec.external => {"served", "synced"} \subseteq seen]_vars
  <2> SUFFICES ASSUME GatesInv, Next, dep' # dep
               PROVE  TenantPassed /\ ApiPassed /\ SyncPassed
    BY DEF TenantPassed, ApiPassed, SyncPassed
  <2>1. ApplyDeployment
    BY DEF Next, Reconcile, Start, validateTenant, DiscoverExternalSecrets,
           ReadExternalSecret, ReadTarget, frameVars, SyncTarget, EditSpec,
           PlatformChanges, TargetChanges
  <2>2. Position(work) = "apply"
    BY <2>1 DEF ApplyDeployment, Position, Waiting
  <2> QED BY <2>2 DEF GatesInv, Passed
<1> QED BY <1>1, GatesInit, GatesStep, PTL DEF Spec, ChildrenGated
=============================================================================
