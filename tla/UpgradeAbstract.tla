--------------------------- MODULE UpgradeAbstract ---------------------------
(***************************************************************************)
(* What the clusterctl upgrader promises a user of the management cluster, *)
(* without plans, items or steps.  A command either answers a query        *)
(* (Plan) without touching the inventory, or runs an upgrade whose effect  *)
(* on the inventory appears in one step when it ends:                      *)
(*   - success keeps the recorded providers recorded, keeps a group that   *)
(*     agreed on one contract agreeing, and records only released versions;*)
(*   - failure may leave any provider at its old version, without a        *)
(*     record, or at a released version, and says so.                      *)
(***************************************************************************)
EXTENDS Naturals

CONSTANTS
    Providers,
    Versions,
    NoVersion,        \* no record
    Releases,         \* Releases[p]: versions p's repository offers
    ContractOf(_, _)  \* the contract of a provider's version

VARIABLES
    inv,   \* the inventory: the recorded version of each provider
    res    \* "none", "busy" while an upgrade runs, then "ok" or "error"

Recorded(i) == {p \in Providers : i[p] # NoVersion}

Consistent(i) ==
    \A p, q \in Recorded(i) : ContractOf(p, i[p]) = ContractOf(q, i[q])

Init ==
    /\ inv \in [Providers -> Versions \cup {NoVersion}]
    /\ res = "none"

\* A query or a command rejected before it changes anything.
Answer == res # "busy" /\ res' \in {"ok", "error"} /\ UNCHANGED inv

Begin == res # "busy" /\ res' = "busy" /\ UNCHANGED inv

Succeed ==
    /\ res = "busy" /\ res' = "ok"
    /\ Recorded(inv') = Recorded(inv)
    /\ Consistent(inv) => Consistent(inv')
    /\ \A p \in Recorded(inv') : inv'[p] = inv[p] \/ inv'[p] \in Releases[p]

Abort ==
    /\ res = "busy" /\ res' = "error"
    /\ \A p \in Providers : inv'[p] \in {inv[p], NoVersion} \cup Releases[p]

Next == Answer \/ Begin \/ Succeed \/ Abort

Spec == Init /\ [][Next]_<<inv, res>>

=============================================================================
