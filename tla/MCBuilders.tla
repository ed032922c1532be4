----------------------------- MODULE MCBuilders -----------------------------
(* Instances of Builders for TLC. *)
EXTENDS Builders

AllKinds == {"ServiceAccount", "Deployment", "Service", "NetworkPolicy", "HPA", "PDB"}

Base ==
    [environment |-> 1, tenant |-> Nil, image |-> 1, replicas |-> 1, port |-> 1,
     resources |-> Nil, health |-> {"readiness"}, secretRefs |-> <<1>>, service |-> 1,
     network |-> TRUE,
     autoscaling |-> [min |-> 1, max |-> 2, metrics |-> <<"CPU", "External">>, window |-> Nil],
     availability |-> [shape |-> "min", n |-> 1]]

\* Every single change of Base, two that interact, and two budgets that the CRD
\* admits and the builder refuses.
SomeSpecs ==
    {Base, [Base EXCEPT !.environment = Nil], [Base EXCEPT !.tenant = 2],
     [Base EXCEPT !.image = 2, !.port = 2], [Base EXCEPT !.health = {}],
     [Base EXCEPT !.secretRefs = <<2, 1>>], [Base EXCEPT !.secretRefs = <<>>],
     [Base EXCEPT !.service = 2], [Base EXCEPT !.service = Nil, !.network = FALSE],
     [Base EXCEPT !.autoscaling = Nil, !.availability = Nil],
     [Base EXCEPT !.autoscaling.metrics = <<"Memory", "Pods">>],
     [Base EXCEPT !.autoscaling.window = 1],
     [Base EXCEPT !.availability = [shape |-> "max", n |-> 0]],
     [Base EXCEPT !.availability = [shape |-> "min", n |-> 2]],
     [Base EXCEPT !.autoscaling = Nil, !.replicas = 0, !.service = Nil, !.network = FALSE]}
    \cup {[Base EXCEPT !.resources = r] :
             r \in [requests : {<<>>, [cpu |-> 1]}, limits : {<<>>, [cpu |-> 2], [memory |-> 1]}]}
=============================================================================
