------------------------------- MODULE Gates -------------------------------
(***************************************************************************)
(* The gates that Reconcile puts before the children of one AIWorkload:      *)
(* validateTenant (internal/controller/aiworkload_controller.go) and          *)
(* validateExternalSecrets (external_secrets.go), the status patches between  *)
(* them, and the Deployment that is written behind them, with the revision   *)
(* annotation of decorateExternalSecretRevision.                             *)
(*                                                                           *)
(* The tenant profile and the objects of the External Secrets Operator are   *)
(* read from the API server and not watched; the metadata of the target      *)
(* Secret is read from a cache and watched.  The workload asks for no route  *)
(* (Exposure has that).  Applying the Deployment is one decision on the live *)
(* object or an error, as ChildEngine shows; nobody else writes it.          *)
(***************************************************************************)
EXTENDS StatusPatch, Capability

CONSTANTS
    Tenants,     \* the tenants that a spec or a profile may name
    Externals    \* the values of "the spec names an ExternalSecret"

ASSUME GatesAssumption == Externals \subseteq BOOLEAN /\ Nil \notin Tenants

VARIABLES
    dep,         \* the Deployment
    profile,     \* the ConfigMap awcp-tenant-profile
    served,      \* the resources of the External Secrets API that are served
    synced,      \* ExternalSecret and SecretStore pass all checks of the loop
    target,      \* the target Secret
    tcache,      \* the cached metadata of the target Secret
    external,    \* the target's revision that this reconcile has resolved
    seen         \* history: what the gates were open for during this reconcile

clusterVars == <<profile, served, synced>>
historyVars == <<external, seen>>
vars == <<fuel, parent, pcache, queued, work, dep, clusterVars, target, tcache,
          historyVars>>

\* The tenant is Nil in a spec that names none.
Specs == [tenant : Tenants \cup {Nil}, external : Externals]

\* A profile names a tenant and a size, which is known or not.
Profiles == [tenant : Tenants, known : BOOLEAN] \cup {Nil}

\* The generation of the template and the revision annotation (0: none).
Deployments == [gen : Nat, revision : Nat]

Secrets == [rv : Nat, live : BOOLEAN]

TypeOK ==
    /\ StatusOK(Specs, {"tenant", "discover", "external", "target", "apply",
                        "report"})
    /\ dep \in Deployments \cup {Nil}
    /\ profile \in Profiles /\ served \subseteq Needs("ExternalSecrets")
    /\ synced \in BOOLEAN
    /\ target \in Secrets /\ tcache \in Secrets /\ external \in Nat
    /\ seen \subseteq Tenants \cup {"served", "synced"}

\* What the gates are open for: a tenant with a known size, and the two parts of
\* the External Secrets gate.
Open(p, s, y) ==
    (IF p # Nil /\ p.known THEN {p.tenant} ELSE {})
        \cup (IF s = Needs("ExternalSecrets") THEN {"served"} ELSE {})
        \cup (IF y THEN {"synced"} ELSE {})

Init ==
    /\ StatusInit(Specs)
    /\ dep = Nil
    /\ profile \in Profiles /\ served = Needs("ExternalSecrets") /\ synced = TRUE
    /\ target = [rv |-> 1, live |-> TRUE] /\ tcache = target
    /\ external = 0 /\ seen = {}

-----------------------------------------------------------------------------
(* The gates *)

Start ==
    /\ Begin("tenant")
    /\ external' = 0 /\ seen' = Open(profile, served, synced)
    /\ UNCHANGED <<dep, clusterVars, target, tcache>>

otherVars == <<parent, pcache, clusterVars, target, tcache, seen>>

\* A workload that has passed the gate is not looked at again.
AdmitsOnce(p) ==
    \/ p.conds["TenantReady"].s = "True"
    \/ profile # Nil /\ profile.known /\ profile.tenant = p.spec.tenant

Admits(p) == profile # Nil /\ profile.known /\ profile.tenant = p.spec.tenant

validateTenant ==
    LET p == work.obj
    IN  /\ work.pc = "tenant"
        /\ \/ /\ p.spec.tenant = Nil /\ UNCHANGED fuel
              /\ Submit(RemoveCondition(p, "TenantReady"), "discover", FALSE)
           \/ /\ p.spec.tenant # Nil
              /\ \/ /\ Admits(p) /\ UNCHANGED fuel
                    /\ Submit(SetCondition(p, "TenantReady", "True"), "discover",
                              FALSE)
                 \/ ~Admits(p) /\ reportGateError("TenantReady") /\ UNCHANGED fuel
                 \/ Fault("apiError") /\ reportFailure
        /\ UNCHANGED <<otherVars, dep, external>>

\* validateExternalSecrets begins with discovery, in which a request may fail.
DiscoverExternalSecrets ==
    LET p == work.obj
    IN  /\ work.pc = "discover"
        /\ \/ /\ ~p.spec.external /\ UNCHANGED fuel
              /\ Submit(RemoveCondition(p, "ExternalSecretsReady"), "apply", FALSE)
           \/ /\ p.spec.external
              /\ \E lost \in SUBSET Needs("ExternalSecrets") :
                   LET state == Detect(served, lost, "ExternalSecrets")
                   IN  /\ IF lost = {} THEN UNCHANGED fuel ELSE Fault("apiError")
                       /\ \/ /\ state = "Unavailable"
                             /\ reportGateError("ExternalSecretsReady")
                          \/ state = "Unknown" /\ reportFailure
                          \/ state = "Available" /\ Goto("external")
        /\ UNCHANGED <<otherVars, dep, external>>

\* Then it reads ExternalSecret and SecretStore,
ReadExternalSecret ==
    /\ work.pc = "external"
    /\ \/ synced /\ Goto("target") /\ UNCHANGED fuel
       \/ ~synced /\ reportGateError("ExternalSecretsReady") /\ UNCHANGED fuel
       \/ Fault("apiError") /\ reportFailure
    /\ UNCHANGED <<otherVars, dep, external>>

\* and the target's metadata from the cache, whose revision goes into the
\* Deployment later.
ReadTarget ==
    /\ work.pc = "target"
    /\ \/ /\ tcache.live
          /\ external' = tcache.rv
          /\ Submit(SetCondition(work.obj, "ExternalSecretsReady", "True"), "apply",
                    FALSE)
       \/ /\ ~tcache.live /\ UNCHANGED external
          /\ reportGateError("ExternalSecretsReady")
    /\ UNCHANGED <<otherVars, dep, fuel>>

-----------------------------------------------------------------------------
(* The Deployment *)

\* An earlier annotation stays when no external Secret is left.
decorateExternalSecretRevision(d) ==
    IF external = 0 THEN d ELSE [d EXCEPT !.revision = external]

ApplyDeployment ==
    LET old == IF dep = Nil THEN 0 ELSE dep.revision
    IN  /\ work.pc = "apply"
        /\ \/ /\ dep' = decorateExternalSecretRevision(
                            [gen |-> work.obj.gen, revision |-> old])
              /\ Goto("report") /\ UNCHANGED fuel
           \/ Fault("apiError") /\ reportFailure /\ UNCHANGED dep
        /\ UNCHANGED <<otherVars, external>>

frameVars == <<dep, clusterVars, target, tcache, historyVars>>

Reconcile ==
    \/ Start \/ validateTenant \/ DiscoverExternalSecrets \/ ReadExternalSecret
    \/ ReadTarget \/ ApplyDeployment
    \/ (patchStatus \/ Report("idle")) /\ UNCHANGED frameVars

-----------------------------------------------------------------------------
(* Watches, the user and the platform *)

secretIndexDirect(p) == FALSE

\* Whether the index of p holds the name of the target Secret.
secretIndex(p) == p.spec.external

\* RequestsForSecret lists the cached workloads by the index.
SyncTarget ==
    /\ tcache # target
    /\ tcache' = target
    /\ queued' = (queued \/ secretIndex(pcache))
    /\ UNCHANGED <<fuel, parent, pcache, work, dep, clusterVars, target,
                   historyVars>>

EditSpec ==
    /\ \E s \in Specs \ {parent.spec} : Edit(s)
    /\ UNCHANGED frameVars

\* The platform changes the profile, the API or the state of the operator.
PlatformChanges ==
    /\ Fault("platform")
    /\ \/ profile' \in Profiles \ {profile} /\ UNCHANGED <<served, synced>>
       \/ /\ served' \in SUBSET Needs("ExternalSecrets") \ {served}
          /\ UNCHANGED <<profile, synced>>
       \/ synced' = ~synced /\ UNCHANGED <<profile, served>>
    /\ seen' = seen \cup Open(profile', served', synced')
    /\ UNCHANGED <<parent, pcache, queued, work, dep, target, tcache, external>>

\* The operator writes the target Secret again, or someone deletes it.
TargetChanges ==
    /\ Fault("target")
    /\ target' \in [rv : {target.rv + 1}, live : BOOLEAN]
    /\ target.live \/ target'.live
    /\ UNCHANGED <<parent, pcache, queued, work, dep, clusterVars, tcache,
                   historyVars>>

Next ==
    \/ Reconcile
    \/ (Restart \/ SyncParent) /\ UNCHANGED frameVars
    \/ SyncTarget \/ EditSpec \/ PlatformChanges \/ TargetChanges

Spec == Init /\ [][Next]_vars

\* The worker and the informers keep going.
Fairness ==
    /\ WF_vars(Reconcile)
    /\ WF_vars(SyncParent /\ UNCHANGED frameVars)
    /\ WF_vars(SyncTarget)

FairSpec == Spec /\ Fairness

-----------------------------------------------------------------------------
(* Properties *)

\* docs/tenancy.md: AWCP "requires an exact tenant match before creating" a child:
\* the Deployment is written only by a reconcile during which the profile named
\* the tenant of the spec it writes and, if that spec names an ExternalSecret, the
\* API was served and ExternalSecret and store passed, even though the profile
\* and the operator may change behind each check and TenantReady=True may be
\* left from an earlier spec or profile.
ChildrenGated ==
    [][dep' # dep =>
          /\ work.obj.spec.tenant # Nil => work.obj.spec.tenant \in seen
          /\ work.obj.spec.external => {"served", "synced"} \subseteq seen]_vars

Admissible(p) ==
    /\ p.spec.tenant # Nil => Admits(p)
    /\ p.spec.external =>
           served = Needs("ExternalSecrets") /\ synced /\ target.live

\* docs/external-secrets.md: "an ESO target update causes a standard Deployment
\* rollout": once the disturbances end, an admissible workload has its live
\* generation in the Deployment, with the live revision of the target Secret,
\* although the revision is taken from a cache before status patches that may fail,
\* and neither the profile nor the operator's objects wake the controller.
RotationRollsOut ==
    <>[](Admissible(parent) =>
            \/ parent.rv = MaxRev
            \/ /\ dep # Nil /\ dep.gen = parent.gen
               /\ parent.spec.external => dep.revision = target.rv)

=============================================================================
