---------------------------- MODULE MachinePhases ----------------------------
(***************************************************************************)
(* The phases a Machine shows in Status.Phase, as a user reads them: it    *)
(* has no phase until first reconciled, then moves forward only, through   *)
(* Pending, Provisioning, Provisioned and Running, possibly skipping some; *)
(* Failed, once shown, is left only for Deleting; and Deleting is shown    *)
(* only for a deleted Machine and is final.                                *)
(***************************************************************************)
EXTENDS Naturals

VARIABLES
    phase,     \* the phase shown, "" before the first reconcile
    deleting   \* the Machine has a deletion timestamp

pvars == <<phase, deleting>>

Progression == <<"", "Pending", "Provisioning", "Provisioned", "Running">>

Rank(p) == CHOOSE i \in 1..5 : Progression[i] = p

Init == phase = "" /\ deleting = FALSE

Advance ==
    /\ ~deleting /\ phase \notin {"Failed", "Deleting"}
    /\ \E i \in (Rank(phase) + 1)..5 : phase' = Progression[i]
    /\ UNCHANGED deleting

Fail ==
    /\ ~deleting /\ phase \notin {"Failed", "Deleting"}
    /\ phase' = "Failed" /\ UNCHANGED deleting

MarkDeleted == ~deleting /\ deleting' = TRUE /\ UNCHANGED phase

ShowDeleting ==
    /\ deleting /\ phase # "Deleting" /\ phase' = "Deleting"
    /\ UNCHANGED deleting

Next == Advance \/ Fail \/ MarkDeleted \/ ShowDeleting

Spec == Init /\ [][Next]_pvars
=============================================================================
