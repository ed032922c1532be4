------------------------------ MODULE Exposure ------------------------------
(***************************************************************************)
(* The life of the optional HTTPRoute of one AIWorkload: validateExposure and *)
(* observeExposure (internal/controller/exposure.go), the route intent of    *)
(* internal/resource/exposure.go and the status patches between them.        *)
(*                                                                           *)
(* The controller does not watch HTTPRoutes or Gateways: it reads them from  *)
(* the API server, looks again after 15 seconds or a minute while exposure is *)
(* asked for, and remembers that it has a route to clean up only by the      *)
(* ExposureReady condition in the workload's status.  The workload names no  *)
(* tenant and no ExternalSecret (Gates has those); its Deployment is healthy. *)
(***************************************************************************)
EXTENDS StatusPatch, Capability

CONSTANT MaxRoute     \* the routing fields of a spec: 1..MaxRoute

ASSUME RouteAssumption == MaxRoute \in Nat \ {0}

VARIABLES
    route,     \* the workload's HTTPRoute in the API server
    served,    \* the resources of Gateway API v1 that the cluster serves
    gateway,   \* the Gateway that the workload names
    owed       \* history: exposure was switched off while ExposureReady was stored

clusterVars == <<route, served, gateway, owed>>
vars == <<fuel, parent, pcache, queued, work, clusterVars>>

\* Mode HTTPRoute with these routing fields, or ClusterLocal.
ClusterLocal == 0
Routes == 1..MaxRoute

\* Odd and even routing fields name different listeners; those of one listener
\* differ in hostname or path.
Listener(r) == r % 2

\* ok: the Service is enabled and the NetworkPolicy is not.
Specs == [route : Routes \cup {ClusterLocal}, ok : BOOLEAN]

\* What the entry of a listener in status.parents says; seen are the routing
\* fields it is about.
Verdicts == {"pending", "rejected", "unresolved", "ready"}
Entries == [listener : {0, 1}, verdict : Verdicts, seen : Routes]

HTTPRoutes == [spec : Routes, entry : Entries \cup {Nil}]

TypeOK ==
    /\ StatusOK(Specs, {"validate", "apply", "observe", "report"})
    /\ route \in HTTPRoutes \cup {Nil}
    /\ served \subseteq Needs("GatewayAPI")
    /\ gateway \in {"absent", "waiting", "programmed"}
    /\ owed \in BOOLEAN

Init ==
    /\ StatusInit(Specs)
    /\ route = Nil /\ served = Needs("GatewayAPI") /\ gateway = "programmed"
    /\ owed = FALSE

-----------------------------------------------------------------------------
(* The reconcile *)

HTTPRouteEnabled(p) == p.spec.route # ClusterLocal

setExposureCondition(p, status) == SetCondition(p, "ExposureReady", status)

Forget(p) == RemoveCondition(p, "ExposureReady")

Start == Begin("validate") /\ UNCHANGED clusterVars

\* A condition of this type in the status is the memory of a route.
Previous(p) == p.conds["ExposureReady"].s # "none"

\* What discovery says of Gateway API; a request may fail.
Discovered(state) ==
    \E lost \in SUBSET Needs("GatewayAPI") :
        /\ IF lost = {} THEN UNCHANGED fuel ELSE Fault("apiError")
        /\ state = Detect(served, lost, "GatewayAPI")

validateExposure ==
    LET p == work.obj
        active == HTTPRouteEnabled(p)
    IN  /\ work.pc = "validate"
        /\ \/ ~active /\ ~Previous(p) /\ Goto("report") /\ UNCHANGED fuel
           \/ /\ active \/ Previous(p)
              /\ \/ /\ Discovered("Unavailable")
                    /\ \/ ~active /\ Submit(Forget(p), "report", FALSE)
                       \/ active /\ reportGateError("ExposureReady")
                 \/ Discovered("Unknown") /\ reportFailure
                 \/ Discovered("Available") /\ ~active /\ Goto("apply")
                 \/ /\ Discovered("Available") /\ active
                    /\ \/ /\ ~p.spec.ok \/ gateway # "programmed"
                          /\ reportGateError("ExposureReady")
                       \/ p.spec.ok /\ gateway = "programmed" /\ Goto("apply")
                 \/ /\ active /\ p.spec.ok /\ served = Needs("GatewayAPI")
                    /\ Fault("apiError") /\ reportFailure
        /\ UNCHANGED <<parent, pcache, clusterVars>>

\* Engine.Apply of HTTPRouteIntent, which reads the route from the API server: one
\* decision on the live object (ChildEngine), or an error.
ApplyRoute ==
    LET p == work.obj
        active == HTTPRouteEnabled(p)
        possible == "httproutes" \in served
    IN  /\ work.pc = "apply"
        /\ \/ /\ possible /\ active
              /\ route' = [spec |-> p.spec.route,
                           entry |-> IF route = Nil THEN Nil ELSE route.entry]
              /\ Goto("observe") /\ UNCHANGED fuel
           \/ /\ possible /\ ~active
              /\ route' = Nil
              /\ Goto("observe") /\ UNCHANGED fuel
           \/ ~possible /\ reportFailure /\ UNCHANGED <<fuel, route>>
           \/ Fault("apiError") /\ reportFailure /\ UNCHANGED route
        /\ UNCHANGED <<parent, pcache, served, gateway, owed>>

\* A status entry of the workload's listener with Accepted and ResolvedRefs True.
httpRouteReady(listener) ==
    /\ route # Nil /\ route.entry # Nil
    /\ route.entry.listener = listener /\ route.entry.verdict = "ready"

observeExposure ==
    LET p == work.obj
        verdict == IF httpRouteReady(Listener(p.spec.route)) THEN "True" ELSE "False"
    IN  /\ work.pc = "observe"
        /\ \/ /\ ~HTTPRouteEnabled(p) /\ UNCHANGED fuel
              /\ Submit(Forget(p), "report", FALSE)
           \/ /\ HTTPRouteEnabled(p) /\ UNCHANGED fuel
              /\ Submit(setExposureCondition(p, verdict), "report", FALSE)
           \/ HTTPRouteEnabled(p) /\ Fault("apiError") /\ reportFailure
        /\ UNCHANGED <<parent, pcache, clusterVars>>

RequeueNever(p) == "idle"

\* A workload that asks for a route is looked at again after 15 seconds or a
\* minute.
Requeue(p) == IF HTTPRouteEnabled(p) THEN "again" ELSE "idle"

Reconcile ==
    \/ Start \/ validateExposure \/ ApplyRoute \/ observeExposure
    \/ (patchStatus \/ Report(Requeue(work.obj))) /\ UNCHANGED clusterVars

-----------------------------------------------------------------------------
(* The user, the platform's Gateway controller and its administrator *)

managerVars == <<parent, pcache, queued, work>>

EditSpec ==
    /\ \E s \in Specs \ {parent.spec} :
         /\ Edit(s)
         /\ owed' = (s.route = ClusterLocal /\ (owed \/ Previous(parent)))
    /\ UNCHANGED <<route, served, gateway>>

\* The Gateway controller's verdict about the routing fields it sees.
Judge(v) ==
    /\ route' = [route EXCEPT
                   !.entry = [listener |-> Listener(route.spec), verdict |-> v,
                              seen |-> route.spec]]
    /\ UNCHANGED <<served, gateway, owed, managerVars>>

GatewayObserves ==
    /\ route # Nil /\ (route.entry # Nil => route.entry.seen # route.spec)
    /\ \E v \in Verdicts : Judge(v)
    /\ UNCHANGED fuel

GatewayReconsiders ==
    /\ route # Nil /\ route.entry # Nil /\ Fault("gateway")
    /\ \E v \in Verdicts : Judge(v)

\* Someone deletes the route.
RouteDeleted ==
    /\ route # Nil /\ Fault("gateway")
    /\ route' = Nil
    /\ UNCHANGED <<served, gateway, owed, managerVars>>

GatewayChanges ==
    /\ Fault("gateway")
    /\ gateway' \in {"absent", "waiting", "programmed"} \ {gateway}
    /\ UNCHANGED <<route, served, owed, managerVars>>

\* The API comes or goes, whole or ("crd") one of its resources alone.  Removing
\* the CRD of the routes removes the routes.
ApiChanges ==
    /\ Fault("api")
    /\ served' \in (IF "crd" \in Disturbances THEN SUBSET Needs("GatewayAPI")
                    ELSE {{}, Needs("GatewayAPI")}) \ {served}
    /\ route' = IF "httproutes" \in served' THEN route ELSE Nil
    /\ UNCHANGED <<gateway, owed, managerVars>>

Environment ==
    \/ EditSpec \/ GatewayObserves \/ GatewayReconsiders \/ RouteDeleted
    \/ GatewayChanges \/ ApiChanges

Next ==
    \/ Reconcile
    \/ (Restart \/ SyncParent) /\ UNCHANGED clusterVars
    \/ Environment

Spec == Init /\ [][Next]_vars

\* The worker, the informer and the Gateway controller keep going.
Fairness ==
    /\ WF_vars(Reconcile)
    /\ WF_vars(SyncParent /\ UNCHANGED clusterVars)
    /\ WF_vars(GatewayObserves)

FairSpec == Spec /\ Fairness

-----------------------------------------------------------------------------
(* Properties *)

\* exposure.go: validateExposure also runs for a workload that "needs to safely
\* delete its previous route".  If ExposureReady is stored when the workload
\* stops asking for a route, the route is deleted for good, although the condition
\* is its only memory, an older reconcile may still be at work, the API may come
\* and go and any step may fail.
RecordedRouteRemoved ==
    <>[](~HTTPRouteEnabled(parent) /\ owed => route = Nil \/ parent.rv = MaxRev)

\* The memory of such a route is not lost before the route: whichever reconcile
\* made the route or writes the status, from whatever cache and after whatever
\* Conflict, ExposureReady stays stored as long as there is a route to delete.
RouteRemembered == owed /\ route # Nil => Previous(parent)

\* The same whatever the status had stored.
RouteRemoved ==
    <>[](~HTTPRouteEnabled(parent) => route = Nil \/ parent.rv = MaxRev)

ReadyFor(r) ==
    /\ route # Nil /\ route.entry # Nil
    /\ route.entry.seen = r /\ route.entry.verdict = "ready"

Exposed ==
    HTTPRouteEnabled(parent) =>
        LET possible == /\ served = Needs("GatewayAPI")
                        /\ parent.spec.ok /\ gateway = "programmed"
            condition == parent.conds["ExposureReady"]
        IN  /\ condition.gen = parent.gen
            /\ possible => route # Nil /\ route.spec = parent.spec.route
            /\ condition.s =
                 IF possible /\ ReadyFor(parent.spec.route) THEN "True" ELSE "False"

\* docs/exposure.md: "AWCP performs a bounded one-minute recheck for opted-in
\* routes": without a watch on routes, Gateways or the API's presence, the route
\* and ExposureReady become and remain what spec, Gateway and route status say,
\* whatever was edited, lost, restarted or read from an old cache.
ExposureConverges == <>[](Exposed \/ parent.rv = MaxRev)

=============================================================================
