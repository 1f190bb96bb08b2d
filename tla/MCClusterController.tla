------------------------ MODULE MCClusterController ------------------------
(* Two children of the cluster, e.g. a MachineSet and a Machine. *)
EXTENDS ClusterController

CONSTANTS ms1, m1

MCChildren == {ms1, m1}
=============================================================================
