------------------------------ MODULE Builders ------------------------------
(***************************************************************************)
(* What the Mutate callbacks of internal/resource do to a child that exists:  *)
(* one child of one kind is rendered from the spec, stored and defaulted by   *)
(* the API server, edited by others, and rendered again after the workload's  *)
(* spec changed.  The callbacks own some fields of the child and must leave   *)
(* the rest, including what the API server filled in, as they find it.        *)
(*                                                                           *)
(* A group of fields that a callback sets to constants is one field whose     *)
(* value is "managed" or "other".  The replica rule is the subject of         *)
(* Scaling, ownership and stale caches that of ChildEngine.                   *)
(***************************************************************************)
EXTENDS Integers, SequencesExt

CONSTANTS
    Kinds,    \* the kinds of child of this instance
    Values,   \* of labels, images, ports, quantities and Secret names
    Specs,    \* the specs a user may write, all admitted by the CRD
    MaxFuel,  \* bound on edits by users and others
    Nil

VARIABLES
    kind,     \* the child under study
    fuel,     \* edits left
    spec,     \* the spec of the AIWorkload
    object,   \* the child in the API server, or Nil
    outcome   \* of the last apply; "stale" when something was edited since

vars == <<kind, fuel, spec, object, outcome>>

\* The maps from some of the keys in S to values.
Maps(S) == UNION {[T -> Values] : T \in SUBSET S}

Empty == [x \in {} |-> 0]

Entry(key, value) == [x \in {key} |-> value]

\* The entries of f, and those of g for other keys.
Over(f, g) == [x \in DOMAIN f \cup DOMAIN g |-> IF x \in DOMAIN f THEN f[x] ELSE g[x]]

\* "managed" stands for the fixed labels and the workload-name annotation.
Optional == {"environment", "tenant"}
LabelKeys == Optional \cup {"managed", "foreign"}
Labels == Maps(LabelKeys)

\* cpu and memory belong to the workload, gpu to somebody else.
Owned == {"cpu", "memory"}
Lists == Maps(Owned \cup {"gpu"})

Fixed == {"managed", "other"}

\* The CRD's metric types and what they become in an autoscaling/v2 HPA.
Metrics == {"CPU", "Memory", "Pods", "External"}
Sources == {<<"Resource", "cpu", "Utilization">>, <<"Resource", "memory", "Utilization">>,
            <<"Pods", "named", "AverageValue">>, <<"External", "named", "Value">>}

\* The fields of a spec; the CRD admits some of these.
Workloads ==
    [environment : Values \cup {Nil}, tenant : Values \cup {Nil}, image : Values,
     replicas : Nat, port : Values,
     resources : [requests : Maps(Owned), limits : Maps(Owned)] \cup {Nil},
     health : SUBSET {"readiness", "liveness"}, secretRefs : Seq(Values),
     service : Values \cup {Nil}, network : BOOLEAN,
     autoscaling : [min : Nat, max : Nat, metrics : Seq(Metrics), window : Nat \cup {Nil}]
                       \cup {Nil},
     availability : [shape : {"min", "max"}, n : Nat] \cup {Nil}]

ASSUME BuildersAssumption ==
    /\ Kinds \subseteq {"ServiceAccount", "Deployment", "Service", "NetworkPolicy", "HPA",
                        "PDB"}
    /\ {1, 2} \subseteq Values /\ Values \subseteq Nat
    /\ Specs \subseteq Workloads /\ MaxFuel \in Nat

Ports == [name : {"http", "admin"}, port : Values]

Containers ==
    [name : {"workload", "sidecar"}, image : Values, requests : Lists,
     limits : Lists, ports : Seq(Ports), envFrom : Seq(Values),
     probes : SUBSET {"readiness", "liveness"}, security : Fixed, foreign : Values]

Objects(k) ==
    CASE k = "ServiceAccount" -> [labels : Labels, automount : Fixed, foreign : Values]
      [] k = "Deployment" ->
           [labels : Labels, selector : Fixed, template : Labels, rollout : Fixed,
            pod : Fixed, foreign : Values, containers : Seq(Containers)]
      [] k = "Service" ->
           [labels : Labels, type : {"ClusterIP", "NodePort"}, selector : Fixed,
            ports : Seq(Ports), clusterIP : {"None", "allocated"}]
      [] k = "NetworkPolicy" -> [labels : Labels, rules : Fixed]
      [] k = "HPA" ->
           [labels : Labels, target : Fixed, min : Nat, max : Nat, metrics : Seq(Sources),
            behavior : [window : Nat, filled : {TRUE}] \cup {Nil}]
      [] k = "PDB" ->
           [labels : Labels, selector : Fixed, budget : [shape : {"min", "max"}, n : Nat]]

TypeOK ==
    /\ kind \in Kinds /\ fuel \in Nat /\ spec \in Specs
    /\ object \in Objects(kind) \cup {Nil}
    /\ outcome \in {"stale", "refused", "created", "patched", "deleted", "unchanged"}

-----------------------------------------------------------------------------
(* The callbacks *)

\* The labels that the workload asks for.
Wanted(s) ==
    [l \in {"managed"} \cup {o \in Optional : s[o] # Nil} |->
        IF l = "managed" THEN 1 ELSE s[l]]

managedMetadataAddsOnly(labels, s) == Over(Wanted(s), labels)

managedMetadata(labels, s) == Over(Wanted(s), Restrict(labels, DOMAIN labels \ Optional))

resourceListsVerbatim(r) ==
    IF r = Nil THEN [requests |-> Empty, limits |-> Empty] ELSE r

\* A limit without a request becomes the request too, as the API server would
\* have it.
resourceLists(r) ==
    IF r = Nil THEN [requests |-> Empty, limits |-> Empty]
    ELSE [r EXCEPT !.requests = Over(@, r.limits)]

\* resourceLists accepts r: no request exceeds its limit.
Accepted(r) ==
    r # Nil => \A n \in DOMAIN r.requests \cap DOMAIN r.limits : r.requests[n] <= r.limits[n]

\* The lowest replica count that the spec promises.
AvailabilityReplicaFloor(s) ==
    IF s.autoscaling # Nil THEN s.autoscaling.min ELSE s.replicas

validateAvailability(s) ==
    LET floor == AvailabilityReplicaFloor(s)
        b == s.availability
    IN  /\ floor >= 1
        /\ b.shape = "min" => b.n \in 1..floor
        /\ b.shape = "max" => b.n \in 0..(floor - 1)

\* WorkloadBuilder.Build succeeds.  If it does not, no child is touched.
Buildable(s) == Accepted(s.resources) /\ (s.availability # Nil => validateAvailability(s))

replaceComputeWhole(current, desired) == desired

replaceCompute(current, desired) == Over(desired, Restrict(current, DOMAIN current \ Owned))

\* The element named like e is replaced by it, or e is added at the end.
Put(seq, e) ==
    LET i == SelectInSeq(seq, LAMBDA x : x.name = e.name)
    IN  IF i = 0 THEN Append(seq, e) ELSE ReplaceAt(seq, i, e)

NewContainer ==
    [name |-> "workload", image |-> Nil, requests |-> Empty, limits |-> Empty, ports |-> <<>>,
     envFrom |-> <<>>, probes |-> {}, security |-> Nil, foreign |-> 1]

\* The container that the workload owns, among others'.
App(d) ==
    LET i == SelectInSeq(d.containers, LAMBDA c : c.name = "workload")
    IN  IF i = 0 THEN NewContainer ELSE d.containers[i]

mutateContainer(app, s) ==
    LET compute == resourceLists(s.resources)
    IN  [app EXCEPT !.image = s.image,
                    !.requests = replaceCompute(@, compute.requests),
                    !.limits = replaceCompute(@, compute.limits),
                    !.ports = Put(@, [name |-> "http", port |-> s.port]),
                    !.envFrom = s.secretRefs, !.probes = s.health,
                    !.security = "managed"]

mutateDeployment(d, s) ==
    [d EXCEPT !.labels = managedMetadata(@, s), !.template = managedMetadata(@, s),
              !.selector = "managed", !.rollout = "managed", !.pod = "managed",
              !.containers = Put(@, mutateContainer(App(d), s))]

mutateServiceAccount(a, s) ==
    [a EXCEPT !.labels = managedMetadata(@, s), !.automount = "managed"]

mutateService(v, s) ==
    [v EXCEPT !.labels = managedMetadata(@, s), !.type = "ClusterIP", !.selector = "managed",
              !.ports = <<[name |-> "http", port |-> s.service]>>]

mutateNetworkPolicy(n, s) ==
    [n EXCEPT !.labels = managedMetadata(@, s), !.rules = "managed"]

hpaMetricsAveraged(metrics) ==
    [i \in DOMAIN metrics |->
        CASE metrics[i] = "CPU" -> <<"Resource", "cpu", "Utilization">>
          [] metrics[i] = "Memory" -> <<"Resource", "memory", "Utilization">>
          [] OTHER -> <<metrics[i], "named", "AverageValue">>]

hpaMetrics(metrics) ==
    [i \in DOMAIN metrics |->
        CASE metrics[i] = "CPU" -> <<"Resource", "cpu", "Utilization">>
          [] metrics[i] = "Memory" -> <<"Resource", "memory", "Utilization">>
          [] metrics[i] = "Pods" -> <<"Pods", "named", "AverageValue">>
          [] metrics[i] = "External" -> <<"External", "named", "Value">>]

\* The scale-down window is the whole of the behavior that the callback writes.
mutateHPA(h, s) ==
    [h EXCEPT !.labels = managedMetadata(@, s), !.target = "managed",
              !.min = s.autoscaling.min, !.max = s.autoscaling.max,
              !.metrics = hpaMetrics(s.autoscaling.metrics),
              !.behavior = IF s.autoscaling.window = Nil THEN Nil
                           ELSE [window |-> s.autoscaling.window, filled |-> FALSE]]

mutatePDB(b, s) ==
    [b EXCEPT !.labels = managedMetadata(@, s), !.selector = "managed",
              !.budget = s.availability]

\* The empty object of a create.
New(k) ==
    CASE k = "ServiceAccount" -> [labels |-> Empty, automount |-> Nil, foreign |-> 1]
      [] k = "Deployment" ->
           [labels |-> Empty, selector |-> Nil, template |-> Empty, rollout |-> Nil,
            pod |-> Nil, foreign |-> 1, containers |-> <<>>]
      [] k = "Service" -> [labels |-> Empty, type |-> Nil, selector |-> Nil, ports |-> <<>>,
                           clusterIP |-> Nil]
      [] k = "NetworkPolicy" -> [labels |-> Empty, rules |-> Nil]
      [] k = "HPA" -> [labels |-> Empty, target |-> Nil, min |-> Nil, max |-> Nil,
                       metrics |-> <<>>, behavior |-> Nil]
      [] k = "PDB" -> [labels |-> Empty, selector |-> Nil, budget |-> Nil]

Mutate(k, o, s) ==
    CASE k = "ServiceAccount" -> mutateServiceAccount(o, s)
      [] k = "Deployment" -> mutateDeployment(o, s)
      [] k = "Service" -> mutateService(o, s)
      [] k = "NetworkPolicy" -> mutateNetworkPolicy(o, s)
      [] k = "HPA" -> mutateHPA(o, s)
      [] k = "PDB" -> mutatePDB(o, s)

\* An object that exists may be beyond repair.
Refuses(k, o) ==
    \/ k = "Deployment" /\ o.selector # "managed"
    \/ k = "Service" /\ (o.type # "ClusterIP" \/ o.clusterIP = "None")

\* The optional children, switched off.
Absent(k, s) ==
    \/ k = "Service" /\ s.service = Nil
    \/ k = "NetworkPolicy" /\ ~s.network
    \/ k = "HPA" /\ s.autoscaling = Nil
    \/ k = "PDB" /\ s.availability = Nil

-----------------------------------------------------------------------------
(* The API server *)

\* A container's requests are filled in from its limits.
Defaulted(c) == [c EXCEPT !.requests = Over(@, c.limits)]

\* What the API server fills in when it stores o: the requests, a cluster address,
\* the rest of a partial scaling behavior.
Default(k, o) ==
    CASE k = "Deployment" ->
           [o EXCEPT !.containers = [i \in DOMAIN @ |-> Defaulted(@[i])]]
      [] k = "Service" -> [o EXCEPT !.clusterIP = IF @ = Nil THEN "allocated" ELSE @]
      [] k = "HPA" ->
           [o EXCEPT !.behavior = IF @ = Nil THEN Nil ELSE [@ EXCEPT !.filled = TRUE]]
      [] OTHER -> o

\* An object of this name that was made by hand and carries our owner reference.
Planted(k, s) ==
    CASE k = "Deployment" -> {[Default(k, Mutate(k, New(k), s)) EXCEPT !.selector = "other"]}
      [] k = "Service" -> {[Mutate(k, New(k), s) EXCEPT !.clusterIP = "None"]}
      [] OTHER -> {}

Init ==
    /\ kind \in Kinds /\ fuel = MaxFuel /\ outcome = "stale"
    /\ spec \in Specs
    /\ object \in (IF Absent(kind, spec) THEN {} ELSE Planted(kind, spec)) \cup {Nil}

-----------------------------------------------------------------------------
(* One apply of the child, with a current cache *)

Create ==
    /\ ~Absent(kind, spec) /\ Buildable(spec) /\ object = Nil
    /\ object' = Default(kind, Mutate(kind, New(kind), spec))
    /\ outcome' = "created"
    /\ UNCHANGED <<kind, fuel, spec>>

Repair ==
    /\ ~Absent(kind, spec) /\ Buildable(spec) /\ object # Nil
    /\ ~Refuses(kind, object)
    /\ LET target == Mutate(kind, object, spec)
       IN  /\ object' = Default(kind, target)
           /\ outcome' = IF target = object THEN "unchanged" ELSE "patched"
    /\ UNCHANGED <<kind, fuel, spec>>

Refuse ==
    /\ \/ ~Buildable(spec)
       \/ ~Absent(kind, spec) /\ object # Nil /\ Refuses(kind, object)
    /\ outcome' = "refused"
    /\ UNCHANGED <<kind, fuel, spec, object>>

Delete ==
    /\ Absent(kind, spec) /\ Buildable(spec)
    /\ object' = Nil
    /\ outcome' = IF object = Nil THEN "unchanged" ELSE "deleted"
    /\ UNCHANGED <<kind, fuel, spec>>

Apply == Create \/ Repair \/ Refuse \/ Delete

-----------------------------------------------------------------------------
(* Edits *)

Spend == fuel > 0 /\ fuel' = fuel - 1 /\ outcome' = "stale" /\ UNCHANGED kind

EditSpec == Spend /\ spec' \in Specs \ {spec} /\ UNCHANGED object

\* One label is dropped, added or changed.
Relabelled(labels) ==
    {Restrict(labels, DOMAIN labels \ {l}) : l \in LabelKeys}
        \cup {Over(Entry(l, v), labels) : l \in LabelKeys, v \in Values}

\* One thing about the workload's container is changed.
Edited(c) ==
    {[c EXCEPT !.image = v] : v \in Values}
        \cup {[c EXCEPT !.requests = Over(Entry("cpu", v), @)] : v \in Values}
        \cup {[c EXCEPT !.requests = Restrict(@, DOMAIN @ \ {n})] : n \in Owned}
        \cup {[c EXCEPT !.limits = Over(Entry(n, v), @)] :
                 n \in {"memory", "gpu"}, v \in Values}
        \cup {[c EXCEPT !.ports = p] :
                 p \in {<<>>, <<[name |-> "admin", port |-> 1]>> \o c.ports}}
        \cup {[c EXCEPT !.envFrom = Append(@, 2)], [c EXCEPT !.probes = {}],
              [c EXCEPT !.security = "other"], [c EXCEPT !.foreign = 2]}

Sidecar == [NewContainer EXCEPT !.name = "sidecar", !.image = 2, !.security = "other"]

\* A container is dropped, a sidecar comes first or last, or the workload's
\* container is edited.
Recontained(cs) ==
    {RemoveAt(cs, i) : i \in DOMAIN cs}
        \cup (IF \E c \in Range(cs) : c.name = "sidecar" THEN {}
              ELSE {<<Sidecar>> \o cs, Append(cs, Sidecar)})
        \cup UNION {{ReplaceAt(cs, i, c) : c \in Edited(cs[i])} :
                       i \in {j \in DOMAIN cs : cs[j].name = "workload"}}

\* The API server's own validation: a Pod has containers, no container requests
\* more than its limit.
Admitted(d) ==
    /\ d.containers # <<>>
    /\ \A c \in Range(d.containers) : Accepted(c)

Tampered(k, o) ==
    {[o EXCEPT !.labels = l] : l \in Relabelled(o.labels)} \cup
    CASE k = "ServiceAccount" ->
           {[o EXCEPT !.automount = "other"], [o EXCEPT !.foreign = 2]}
      [] k = "Deployment" ->
           {d \in {[o EXCEPT !.template = l] : l \in Relabelled(o.template)}
                     \cup {[o EXCEPT !.rollout = "other"], [o EXCEPT !.pod = "other"],
                           [o EXCEPT !.foreign = 2]}
                     \cup {[o EXCEPT !.containers = cs] : cs \in Recontained(o.containers)} :
              Admitted(d)}
      [] k = "Service" ->
           {[o EXCEPT !.type = "NodePort"], [o EXCEPT !.selector = "other"],
            [o EXCEPT !.ports = Append(@, [name |-> "admin", port |-> 1])]}
      [] k = "NetworkPolicy" -> {[o EXCEPT !.rules = "other"]}
      [] k = "HPA" ->
           {[o EXCEPT !.target = "other"], [o EXCEPT !.max = o.max + 1],
            [o EXCEPT !.metrics = <<<<"Resource", "cpu", "Utilization">>>>],
            [o EXCEPT !.behavior = Nil],
            [o EXCEPT !.behavior = [window |-> 2, filled |-> FALSE]]}
      [] k = "PDB" ->
           {[o EXCEPT !.selector = "other"], [o EXCEPT !.budget.n = @ + 1]}

Tamper ==
    /\ object # Nil /\ Spend
    /\ object' \in {Default(kind, o) : o \in Tampered(kind, object)} \ {object}
    /\ UNCHANGED spec

Next == Apply \/ EditSpec \/ Tamper

Spec == Init /\ [][Next]_vars

-----------------------------------------------------------------------------
(* Properties *)

Current == outcome \in {"created", "patched", "unchanged", "deleted"}

\* The part of o that the workload decides.
OwnedPart(k, o) ==
    LET labels(l) == Restrict(l, DOMAIN l \ {"foreign"})
        app == App(o)
        compute(r) == Restrict(r, DOMAIN r \cap Owned)
    IN  CASE k = "Deployment" ->
               [o EXCEPT !.labels = labels(@), !.template = labels(@), !.foreign = 0,
                         !.containers =
                            [app EXCEPT !.requests = compute(@), !.limits = compute(@),
                                        !.ports = {p \in Range(@) : p.name = "http"},
                                        !.foreign = 0]]
          [] k = "ServiceAccount" -> [o EXCEPT !.labels = labels(@), !.foreign = 0]
          [] OTHER -> [o EXCEPT !.labels = labels(@)]

\* The part of o that the workload does not decide.
ForeignPart(k, o) ==
    LET foreign(l) == Restrict(l, DOMAIN l \cap {"foreign"})
        extended(r) == Restrict(r, DOMAIN r \ Owned)
        others(seq, name) == Restrict(seq, {i \in DOMAIN seq : seq[i].name # name})
        app == App(o)
    IN  CASE k = "Deployment" ->
               <<foreign(o.labels), foreign(o.template), o.foreign,
                 others(o.containers, "workload"),
                 extended(app.requests), extended(app.limits), app.foreign,
                 others(app.ports, "http")>>
          [] k = "ServiceAccount" -> <<foreign(o.labels), o.foreign>>
          [] k = "Service" -> <<foreign(o.labels), o.clusterIP>>
          [] OTHER -> <<foreign(o.labels)>>

\* Drift repair is complete: however the child was edited and through whatever
\* specs it went, once applied it equals, in the fields that the callbacks own, a
\* child created from the current spec alone.  A label, limit, probe or metric of
\* an earlier spec that survived a repair would break this.
LikeNew ==
    Current =>
        IF Absent(kind, spec) THEN object = Nil
        ELSE OwnedPart(kind, object) =
                 OwnedPart(kind, Default(kind, Mutate(kind, New(kind), spec)))

\* plan.go, Intent: "Mutate sets ONLY owned fields, preserving API defaults,
\* unrelated metadata and injected fields": an apply of an existing child keeps what
\* others put there: foreign labels, sidecars wherever they stand in the list,
\* extended resources, the cluster address.  API defaults are not among them: Quiet
\* is about these, and mutateHPA replaces a completed scaling behavior (Stabilized).
ForeignKept ==
    [][Repair => ForeignPart(kind, object') = ForeignPart(kind, object)]_vars

\* The HPA of a spec with a scale-down window: the callback writes a behavior with
\* nothing but the window, the API server fills in the rest again.
Stabilized == kind = "HPA" /\ spec.autoscaling # Nil /\ spec.autoscaling.window # Nil

\* docs/verification/AWCP-5.md: "Defaulting does not produce update storm": a child
\* that was just applied, and then defaulted by the API server, needs no patch.
\* A Stabilized HPA is patched again and again, against plan.go's "preserving API
\* defaults"; what remains true of it is that the API server's defaults make every
\* such patch leave the object as it was, so that it raises no event.
Quiet ==
    outcome \in {"created", "patched"} /\ object # Nil =>
        LET target == Mutate(kind, object, spec)
        IN  IF Stabilized THEN Default(kind, target) = object ELSE target = object

=============================================================================
