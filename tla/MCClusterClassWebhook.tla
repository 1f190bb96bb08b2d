----------------------- MODULE MCClusterClassWebhook -----------------------
(* A handful of references and MachineDeployment classes, combined into   *)
(* the specs of create and update requests.                               *)
EXTENDS ClusterClassWebhook

CONSTANTS ns1, ns2, nilRef

MCNamespaces == {"", ns1, ns2}
MCKinds == {"AWSClusterTemplate", "AWSCluster"}
MCTemplateKinds == {"AWSClusterTemplate"}
MCAPIs == {"", "infrastructure.cluster.x-k8s.io/v1alpha4", "a/b/c"}
MCValidAPIs == {"infrastructure.cluster.x-k8s.io/v1alpha4"}

Ok1 == [ns |-> ns1, kind |-> "AWSClusterTemplate", api |-> "infrastructure.cluster.x-k8s.io/v1alpha4"]
Ok2 == [ns |-> "", kind |-> "AWSClusterTemplate", api |-> ""]
OtherNs == [Ok1 EXCEPT !.ns = ns2]
NotTemplate == [Ok2 EXCEPT !.kind = "AWSCluster"]
BadAPI == [Ok2 EXCEPT !.api = "a/b/c"]

MDs == {[class |-> "a", bootstrap |-> Ok1, infraRef |-> Ok1],
        [class |-> "a", bootstrap |-> Ok2, infraRef |-> Ok1],
        [class |-> "b", bootstrap |-> Ok1, infraRef |-> Ok1],
        [class |-> "b", bootstrap |-> Ok1, infraRef |-> BadAPI],
        [class |-> "b", bootstrap |-> nilRef, infraRef |-> Ok1]}

MCSpecs == [infra : {Ok1, Ok2, nilRef}, cp : {Ok1, Ok2, OtherNs, NotTemplate},
            mds : {<<>>} \cup {<<x>> : x \in MDs} \cup {<<x, y>> : x, y \in MDs}]

MCMetas == {"m0", "m1"}
=============================================================================
