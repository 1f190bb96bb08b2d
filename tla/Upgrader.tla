------------------------------ MODULE Upgrader ------------------------------
(***************************************************************************)
(* The clusterctl provider upgrader (cmd/clusterctl/client/cluster/        *)
(* upgrader.go): Plan, ApplyPlan, ApplyCustomPlan and the doUpgrade loop   *)
(* that fetches, deletes and reinstalls one provider after another.        *)
(*                                                                         *)
(* One management cluster holds an inventory of providers.  A version is   *)
(* a natural number (semver order), NoVersion stands for the empty version *)
(* string "" and for "no record".  Release metadata is a constant: the     *)
(* releases a repository offers and the release series (contract) of each *)
(* version.  Each step of doUpgrade may fail; a failed step ends the       *)
(* invocation with an error, leaving the cluster as the step left it.      *)
(***************************************************************************)
EXTENDS Naturals, Sequences, FiniteSets, FiniteSetsExt, Functions

CONSTANTS
    Providers,        \* provider instance names
    CoreProvider,     \* the core provider instance
    Order,            \* the order of the group's providers in the inventory list
    Versions,         \* versions a user may name
    Contracts,        \* API contracts, ordered oldest first
    Releases,         \* Releases[p]: versions the repository of p offers
    Series,           \* Series[p][v]: contract of the release series of v
    InitVersion,      \* the installed version of each provider (NoVersion: absent)
    MaxFaults,        \* bound on injected transient step failures
    ApplyAnyContract  \* TRUE: ApplyPlan takes any contract, not only a planned one

NoVersion == 0
NoSeries == 0

ASSUME /\ CoreProvider \in Providers
       /\ Order \in Seq(Providers) /\ Range(Order) = Providers
       /\ Versions \subseteq Nat \ {NoVersion}
       /\ Contracts \subseteq Nat \ {NoSeries}
       /\ \A p \in Providers : Releases[p] \subseteq Versions
       /\ \A p \in Providers : Series[p] \in [Versions -> Contracts \cup {NoSeries}]
       /\ InitVersion \in [Providers -> Versions \cup {NoVersion}]
       /\ MaxFaults \in Nat /\ ApplyAnyContract \in BOOLEAN

VARIABLES
    inventory,   \* inventory[p]: version of p's inventory record, NoVersion if none
    components,  \* components[p]: version of p's running components, NoVersion if none
    plans,       \* the plans returned by the last Plan call
    planBase,    \* the inventory that last Plan call read
    pc,          \* "idle" or the doUpgrade step: "loop", "delete", "install"
    queue,       \* the upgrade items doUpgrade has still to process
    cmd,         \* the last command: "none", "plan", "apply", "custom"
    result,      \* its outcome: "none" (running), "ok", "error"
    startInv,    \* the inventory when the running apply started
    faults       \* transient failures injected so far

vars == <<inventory, components, plans, planBase, pc, queue, cmd, result,
          startInv, faults>>

Item == [provider : Providers, next : Versions \cup {NoVersion}]
PlanRec == [contract : Contracts, items : Seq(Item)]

\* GetReleaseSeriesForVersion: the contract of v, NoSeries when no series matches.
ContractOf(p, v) == IF v \in Versions THEN Series[p][v] ELSE NoSeries

(***************************************************************************)
(* Inventory.GetManagementGroups, with a single core provider: the group   *)
(* is every recorded provider; MissingCore when non-core providers remain  *)
(* without the core.                                                       *)
(***************************************************************************)
Group == {p \in Providers : inventory[p] # NoVersion}
MissingCore == CoreProvider \notin Group /\ Group # {}
GroupSeq == SelectSeq(Order, LAMBDA p : p \in Group)

\* upgradeInfo.getContractsForUpgrade: the current contract of the core and
\* the strictly newer contracts of its newer releases.
ContractsForUpgrade ==
    LET cur == ContractOf(CoreProvider, inventory[CoreProvider])
        newer == {r \in Releases[CoreProvider] : r > inventory[CoreProvider]}
    IN  ({cur} \cup {Series[CoreProvider][r] : r \in newer})
          \ ({NoSeries} \cup {c \in Contracts : cur # NoSeries /\ c < cur})

\* upgradeInfo.getLatestNextVersion: the highest release of p with contract c
\* above p's current version.
LatestNextVersion(p, c) ==
    LET vs == {r \in Releases[p] : r > inventory[p] /\ Series[p][r] = c}
    IN  IF vs = {} THEN NoVersion ELSE Max(vs)

getUpgradePlan(c) ==
    [contract |-> c,
     items    |-> [i \in 1..Len(GroupSeq) |->
                     [provider |-> GroupSeq[i],
                      next     |-> LatestNextVersion(GroupSeq[i], c)]]]

isPartialUpgrade(pl) == \E i \in 1..Len(pl.items) : pl.items[i].next = NoVersion

\* Plan: one plan per contract for upgrade, dropping partial contract
\* switches.  An empty ContractsForUpgrade returns errors.Wrapf(nil, ...),
\* that is no plans and no error.
PlanOutcome ==
    LET cur == ContractOf(CoreProvider, inventory[CoreProvider])
        kept == {c \in ContractsForUpgrade :
                    ~(isPartialUpgrade(getUpgradePlan(c)) /\ cur # c)}
    IN  CASE MissingCore                -> [err |-> TRUE,  plans |-> {}]
          [] CoreProvider \notin Group  -> [err |-> FALSE, plans |-> {}]
          [] ContractsForUpgrade = {}   -> [err |-> FALSE, plans |-> {}]
          [] OTHER -> [err |-> FALSE, plans |-> {getUpgradePlan(c) : c \in kept}]

\* getManagementGroup fails when the core provider is in no group.
NoManagementGroup == MissingCore \/ CoreProvider \notin Group

ItemProviders(items) == {items[i].provider : i \in 1..Len(items)}

\* createCustomPlan: the target contract is the one of the core's target
\* version; every item must support it and every other member must already.
TargetCoreVersion(items) ==
    IF \E i \in 1..Len(items) : items[i].provider = CoreProvider
    THEN (CHOOSE it \in Range(items) : it.provider = CoreProvider).next
    ELSE inventory[CoreProvider]

createCustomPlanFails(items) ==
    LET target == ContractOf(CoreProvider, TargetCoreVersion(items))
    IN  \/ NoManagementGroup
        \/ target = NoSeries
        \/ \E i \in 1..Len(items) :
              \/ items[i].provider \notin Group
              \/ ContractOf(items[i].provider, items[i].next) # target
        \/ \E p \in Group \ ItemProviders(items) : ContractOf(p, inventory[p]) # target

\* doUpgrade starts on a plan; items without a next version are skipped.
StartUpgrade(kind, items) ==
    /\ pc' = "loop"
    /\ queue' = SelectSeq(items, LAMBDA it : it.next # NoVersion)
    /\ cmd' = kind
    /\ result' = "none"
    /\ startInv' = inventory

Fail == pc' = "idle" /\ queue' = <<>> /\ result' = "error"

Plan ==
    /\ pc = "idle"
    /\ plans' = PlanOutcome.plans
    /\ planBase' = inventory
    /\ cmd' = "plan"
    /\ result' = IF PlanOutcome.err THEN "error" ELSE "ok"
    /\ UNCHANGED <<inventory, components, pc, queue, startInv, faults>>

ApplyPlan(c) ==
    /\ pc = "idle"
    /\ ApplyAnyContract \/ \E pl \in plans : pl.contract = c
    /\ IF NoManagementGroup
       THEN Fail /\ cmd' = "apply" /\ UNCHANGED startInv
       ELSE StartUpgrade("apply", getUpgradePlan(c).items)
    /\ UNCHANGED <<inventory, components, plans, planBase, faults>>

ApplyCustomPlan(items) ==
    /\ pc = "idle"
    /\ IF createCustomPlanFails(items)
       THEN Fail /\ cmd' = "custom" /\ UNCHANGED startInv
       ELSE StartUpgrade("custom", items)
    /\ UNCHANGED <<inventory, components, plans, planBase, faults>>

(***************************************************************************)
(* The doUpgrade loop, one action per step of the head item.               *)
(***************************************************************************)
Finish ==
    /\ pc = "loop" /\ queue = <<>>
    /\ pc' = "idle" /\ result' = "ok"
    /\ UNCHANGED <<inventory, components, plans, planBase, queue, cmd,
                   startInv, faults>>

\* A step fails on a missing release or on an injected transient error.
Transient == faults < MaxFaults /\ faults' = faults + 1

\* Mutant: Fetch without the check that the repository offers the version.
FetchNoReleaseCheck ==
    /\ pc = "loop" /\ queue # <<>>
    /\ \/ pc' = "delete" /\ UNCHANGED <<queue, result, faults>>
       \/ Transient /\ Fail
    /\ UNCHANGED <<inventory, components, plans, planBase, cmd, startInv>>

\* getUpgradeComponents: the repository must offer the version.
Fetch ==
    /\ pc = "loop" /\ queue # <<>>
    /\ LET it == Head(queue) IN
         \/ it.next \in Releases[it.provider] /\ pc' = "delete"
            /\ UNCHANGED <<queue, result, faults>>
         \/ it.next \notin Releases[it.provider] /\ Fail /\ UNCHANGED faults
         \/ Transient /\ Fail
    /\ UNCHANGED <<inventory, components, plans, planBase, cmd, startInv>>

\* providerComponents.Delete: removes the components carrying the provider
\* label, the inventory record among them; CRDs and namespace are kept.
Delete ==
    /\ pc = "delete"
    /\ LET p == Head(queue).provider IN
         \/ /\ inventory' = [inventory EXCEPT ![p] = NoVersion]
            /\ components' = [components EXCEPT ![p] = NoVersion]
            /\ pc' = "install"
            /\ UNCHANGED <<queue, result, faults>>
         \/ Transient /\ Fail /\ UNCHANGED <<inventory, components>>
    /\ UNCHANGED <<plans, planBase, cmd, startInv>>

\* Mutant: install without the inventory upsert.
InstallNoUpsert ==
    /\ pc = "install"
    /\ LET it == Head(queue) IN
         /\ components' = [components EXCEPT ![it.provider] = it.next]
         /\ queue' = Tail(queue) /\ pc' = "loop"
    /\ UNCHANGED <<inventory, result, faults, plans, planBase, cmd, startInv>>

\* installComponentsAndUpdateInventory: install (rolled back on failure),
\* then upsert the inventory record.
Install ==
    /\ pc = "install"
    /\ LET it == Head(queue) IN
         \/ /\ components' = [components EXCEPT ![it.provider] = it.next]
            /\ inventory' = [inventory EXCEPT ![it.provider] = it.next]
            /\ queue' = Tail(queue) /\ pc' = "loop"
            /\ UNCHANGED <<result, faults>>
         \/ Transient /\ Fail /\ UNCHANGED <<inventory, components>>
         \/ /\ Transient /\ Fail
            /\ components' = [components EXCEPT ![it.provider] = it.next]
            /\ UNCHANGED inventory
    /\ UNCHANGED <<plans, planBase, cmd, startInv>>

Init ==
    /\ inventory = InitVersion
    /\ components = InitVersion
    /\ plans = {}
    /\ planBase = InitVersion
    /\ pc = "idle"
    /\ queue = <<>>
    /\ cmd = "none"
    /\ result = "none"
    /\ startInv = InitVersion
    /\ faults = 0

\* The items a user may pass to ApplyCustomPlan: distinct providers, any
\* version they may name.
CustomItems ==
    UNION {{[i \in 1..n |-> [provider |-> ps[i], next |-> vs[i]]] :
              ps \in {f \in [1..n -> Providers] : IsInjective(f)},
              vs \in [1..n -> Versions]} : n \in 1..Cardinality(Providers)}

Next ==
    \/ Plan
    \/ \E c \in Contracts : ApplyPlan(c)
    \/ \E items \in CustomItems : ApplyCustomPlan(items)
    \/ Finish \/ Fetch \/ Delete \/ Install

Spec == Init /\ [][Next]_vars

-----------------------------------------------------------------------------

\* All recorded providers declare one contract (I-P1).
ContractConsistent(inv) ==
    \A p, q \in {r \in Providers : inv[r] # NoVersion} :
        ContractOf(p, inv[p]) = ContractOf(q, inv[q])

\* An apply that reports success on a group that agreed on one contract
\* leaves the group agreeing on one contract (I-P1 across doUpgrade).
SuccessPreservesContract ==
    (pc = "idle" /\ result = "ok" /\ cmd \in {"apply", "custom"}
       /\ ContractConsistent(startInv))
      => ContractConsistent(inventory)

\* An apply that reports success leaves every provider recorded when it
\* started recorded again, and running the version its record names.
SuccessKeepsProviders ==
    (pc = "idle" /\ result = "ok" /\ cmd \in {"apply", "custom"})
      => \A p \in Providers :
           startInv[p] # NoVersion =>
             inventory[p] # NoVersion /\ components[p] = inventory[p]

\* Plan, on a cluster with a management group, either reports an error or
\* proposes at least one plan: no silent empty answer (spec 7, no silent
\* swallowing of errors).
PlanCoversGroup ==
    (cmd = "plan" /\ result = "ok" /\ CoreProvider \in
        {p \in Providers : planBase[p] # NoVersion})
      => plans # {}


(***************************************************************************)
(* Refinement: between the start and the end of an apply, a user sees the  *)
(* inventory as it was when the apply started; Finish and Fail are the     *)
(* steps at which the upgrade takes effect.                                *)
(***************************************************************************)
Abs == INSTANCE UpgradeAbstract
         WITH inv <- IF pc = "idle" THEN inventory ELSE startInv,
              res <- IF pc = "idle" THEN result ELSE "busy"

\* Every behaviour of the upgrader is one of UpgradeAbstract: Plan never
\* touches the inventory, and the Fetch, Delete and Install steps of the
\* items, with failures at any of them, add up at the end of the apply to
\* a success that keeps the providers and their common contract and
\* records only released versions, or to an error.
UpgradeRefinement == Abs!Spec

=============================================================================
