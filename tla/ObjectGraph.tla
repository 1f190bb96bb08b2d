----------------------------- MODULE ObjectGraph -----------------------------
(***************************************************************************)
(* clusterctl's object graph (spec 3.3, 4.3): the nodes discovered on the   *)
(* source management cluster, their explicit and soft owners, and the       *)
(* tenant clusters each node belongs to.  The implementation is not under   *)
(* src/ (src/unnamed/part_002 holds its tests), so every definition here is *)
(* written from the spec.                                                   *)
(*                                                                         *)
(* An object is its UID.  Kind, name and owner references are constants;   *)
(* a name is a sequence of the tokens between its dashes, so that          *)
(* "foo-etcd-ca" is <<"foo", "etcd", "ca">>.  All objects share one        *)
(* namespace, except the cluster-scoped principal.                         *)
(***************************************************************************)
EXTENDS Naturals, Sequences, FiniteSets

CONSTANTS
    Objs,        \* the objects the source lists
    External,    \* UIDs that owner references name but no list returns
    Kind,        \* Kind[o]: "Cluster", "Secret", "Principal" or another kind
    NameOf,      \* NameOf[o]: the tokens of the object's name
    OwnerRefs,   \* OwnerRefs[o]: the UIDs of o's owner references
    Suffixes     \* the soft-ownership suffixes, as token sequences

UIDs == Objs \cup External

\* A placeholder for a UID seen only as an owner reference.
Virtual == [virtual |-> TRUE, kind |-> "unknown", owners |-> {}]

\* The node an object's own listing gives it.
Listed(o) == [virtual |-> FALSE, kind |-> Kind[o], owners |-> OwnerRefs[o]]

(***************************************************************************)
(* addObject (4.3.2): promote the object's virtual node or insert a new    *)
(* one, then locate or create as virtual the node of each owner reference. *)
(***************************************************************************)
addObjectNoFill(g, o) ==
    [u \in DOMAIN g \cup {o} \cup OwnerRefs[o] |->
        IF u = o /\ u \in DOMAIN g THEN [g[u] EXCEPT !.virtual = FALSE, !.owners = OwnerRefs[o]]
        ELSE IF u = o THEN Listed(o)
        ELSE IF u \in DOMAIN g THEN g[u] ELSE Virtual]

addObject(g, o) ==
    [u \in DOMAIN g \cup {o} \cup OwnerRefs[o] |->
        IF u = o THEN Listed(o)
        ELSE IF u \in DOMAIN g THEN g[u] ELSE Virtual]

Real(g) == {u \in DOMAIN g : ~g[u].virtual}
ClusterNodes(g) == {u \in Real(g) : g[u].kind = "Cluster"}
IsGlobal(g, u) == g[u].kind = "Principal"

(***************************************************************************)
(* setSoftOwnership (4.3.3): a Secret named <cluster>-<suffix> is soft-     *)
(* owned by that cluster, the one with the longest name when several match. *)
(***************************************************************************)
SoftName(c, s) == \E x \in Suffixes : NameOf[s] = NameOf[c] \o x

setSoftOwnership(g) ==
    [u \in DOMAIN g |->
        LET cs == {c \in ClusterNodes(g) : g[u].kind = "Secret" /\ SoftName(c, u)}
        IN  IF cs = {} THEN {}
            ELSE {CHOOSE c \in cs : \A d \in cs : Len(NameOf[d]) <= Len(NameOf[c])}]

(***************************************************************************)
(* setClusterTenants (4.3.4): from every cluster, a breadth-first walk     *)
(* over reverse edges (children through owners and soft owners).           *)
(* setClusterPrincipalTenants (4.3.5): a global node gets the union of the *)
(* tenants of its direct dependents.                                       *)
(***************************************************************************)
Dependents(g, soft, n) == {m \in DOMAIN g : n \in g[m].owners \cup soft[m]}

ReachFirstLevel(g, soft, frontier, seen) ==
    seen \cup UNION {Dependents(g, soft, n) : n \in frontier}

RECURSIVE Reach(_, _, _, _)
Reach(g, soft, frontier, seen) ==
    IF frontier = {} THEN seen
    ELSE LET next == UNION {Dependents(g, soft, n) : n \in frontier} \ seen
         IN  Reach(g, soft, next, seen \cup next)

setClusterTenants(g, soft) ==
    [u \in DOMAIN g |-> {c \in ClusterNodes(g) : u \in Reach(g, soft, {c}, {c})}]

setClusterPrincipalTenants(g, soft, t) ==
    [u \in DOMAIN g |->
        IF IsGlobal(g, u) THEN UNION {t[m] : m \in Dependents(g, soft, u)} ELSE t[u]]

\* The three passes that follow discovery (4.3.1 step 3).
TenantsOf(g) ==
    LET soft == setSoftOwnership(g)
    IN  setClusterPrincipalTenants(g, soft, setClusterTenants(g, soft))

(***************************************************************************)
(* Reference definitions, for the properties: the graph of a set of listed *)
(* objects built at once, the soft owner as the cluster no longer match    *)
(* beats, and tenants as ancestors in the transitive closure (property 4). *)
(***************************************************************************)
RefGraph(O) ==
    [u \in O \cup UNION {OwnerRefs[o] : o \in O} |-> IF u \in O THEN Listed(u) ELSE Virtual]

RefSoft(O, s) ==
    {c \in O : Kind[c] = "Cluster" /\ Kind[s] = "Secret" /\ SoftName(c, s)
               /\ ~\E d \in O : Kind[d] = "Cluster" /\ SoftName(d, s)
                                /\ Len(NameOf[d]) > Len(NameOf[c])}

\* The least transitive relation containing B, as a set of pairs: extend
\* R by one step of B until nothing changes.  (Relation's TransitiveClosure
\* recomputes its recursive function at every level and is too slow to
\* evaluate in every state.)
RECURSIVE ClosureFrom(_, _)
ClosureFrom(R, B) ==
    LET R2 == R \cup {<<e[1], f[2]>> : <<e, f>> \in {q \in R \X B : q[1][2] = q[2][1]}}
    IN  IF R2 = R THEN R ELSE ClosureFrom(R2, B)

Closure(B) == ClosureFrom(B, B)

RefTenants(O) ==
    LET soft == [s \in O |-> RefSoft(O, s)]
        owns == {e \in O \X O : e[1] \in OwnerRefs[e[2]] \cup soft[e[2]]}
        anc  == Closure(owns)
        t    == [u \in O |-> {c \in O : Kind[c] = "Cluster" /\ (c = u \/ <<c, u>> \in anc)}]
    IN  [u \in O |-> IF Kind[u] = "Principal"
                     THEN UNION {t[m] : m \in {m \in O : u \in OwnerRefs[m]}}
                     ELSE t[u]]

=============================================================================
