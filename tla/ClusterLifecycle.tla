--------------------------- MODULE ClusterLifecycle ---------------------------
(***************************************************************************)
(* What the Cluster controller promises about one Cluster, without the     *)
(* cache, the workqueue, the finalizers or the retries: the Cluster is     *)
(* live, then deleting, then gone; its infrastructure is provisioned at    *)
(* most once and released at most once; and it is released, and the       *)
(* Cluster removed, only once no child of the Cluster is left.  A Cluster  *)
(* whose infrastructure was never provisioned may go at once.              *)
(***************************************************************************)
CONSTANTS Children

VARIABLES
    phase,   \* "live" | "deleting" | "gone"
    infra,   \* "none" | "provisioned" | "deleted"
    alive    \* the children that exist, being deleted or not

avars == <<phase, infra, alive>>

Init == phase = "live" /\ infra = "none" /\ alive = {}

Provision ==
    /\ phase # "gone" /\ infra = "none" /\ infra' = "provisioned"
    /\ UNCHANGED <<phase, alive>>

Delete ==
    /\ phase = "live" /\ phase' = "deleting"
    /\ UNCHANGED <<infra, alive>>

Release ==
    /\ phase = "deleting" /\ alive = {}
    /\ infra = "provisioned" /\ infra' = "deleted"
    /\ UNCHANGED <<phase, alive>>

\* Removal without release only when nothing was ever provisioned.
Remove ==
    /\ phase # "gone" /\ phase' = "gone"
    /\ \/ infra = "none"
       \/ infra = "deleted" /\ phase = "deleting" /\ alive = {}
    /\ UNCHANGED <<infra, alive>>

AddChild(k) ==
    /\ phase = "live" /\ k \notin alive /\ alive' = alive \cup {k}
    /\ UNCHANGED <<phase, infra>>

ChildRemoved(k) ==
    /\ k \in alive /\ alive' = alive \ {k}
    /\ UNCHANGED <<phase, infra>>

Next ==
    \/ Provision \/ Delete \/ Release \/ Remove
    \/ \E k \in Children : AddChild(k) \/ ChildRemoved(k)

Spec == Init /\ [][Next]_avars
=============================================================================
