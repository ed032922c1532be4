----------------------------- MODULE Capability -----------------------------
(***************************************************************************)
(* The catalog of optional APIs (internal/capability/catalog.go): which       *)
(* resources a feature needs, and what discovery says of them.  Only the two  *)
(* features that the controller consults are listed.                         *)
(***************************************************************************)
EXTENDS Naturals, Sequences

requirements ==
    [ExternalSecrets |-> <<"secretstores", "externalsecrets">>,
     GatewayAPI |-> <<"gateways", "httproutes">>]

RequirementFor(feature) == requirements[feature]

Needs(feature) ==
    {RequirementFor(feature)[i] : i \in DOMAIN RequirementFor(feature)}

\* DiscoveryLookup: served are the resources of the cluster, lost the ones for
\* which the request fails.
HasResource(served, lost, r) ==
    CASE r \in lost -> "error"
      [] r \in served \ lost -> "found"
      [] OTHER -> "missing"

\* A failed request counts as an absent API.
DetectAbsent(served, lost, feature) ==
    IF Needs(feature) \subseteq served \ lost THEN "Available" ELSE "Unavailable"

\* The first resource that is not found decides.
Detect(served, lost, feature) ==
    LET need == RequirementFor(feature)
        has(i) == HasResource(served, lost, need[i])
        bad == {i \in DOMAIN need : has(i) # "found"}
        first == CHOOSE i \in bad : \A j \in bad : i <= j
    IN  CASE bad = {} -> "Available"
          [] bad # {} /\ has(first) = "error" -> "Unknown"
          [] OTHER -> "Unavailable"

=============================================================================
