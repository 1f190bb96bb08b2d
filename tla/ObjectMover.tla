----------------------------- MODULE ObjectMover -----------------------------
(***************************************************************************)
(* clusterctl move (spec 4.5) of a batch of clusters from a source to a    *)
(* destination management cluster, written from the spec: the mover is    *)
(* not under src/.  One invocation runs at a time (spec 5).  It discovers  *)
(* the source graph object by object, partitions it by tenant, pauses the  *)
(* source clusters, creates the batch at the destination in owner order,   *)
(* deletes it from the source in reverse order, and unpauses the           *)
(* destination.  Transient errors past their retries end the invocation    *)
(* with an error and release the pause; a crash ends it anywhere and       *)
(* releases nothing.  The user then runs the same move again (4.5.3).      *)
(***************************************************************************)
EXTENDS ObjectGraph

CONSTANTS
    Batches,      \* the batches of clusters a user may move
    Initial,      \* the object sets the source may start with
    MaxFaults, MaxCrashes

VARIABLES
    orig,         \* the objects at the source when the first move started
    batch,        \* the clusters this move is for
    src, dst,     \* the objects at the source and at the destination
    srcPaused, dstPaused,   \* clusters carrying the paused annotation
    pc,           \* "idle" | "discover" | "pause" | "create" | "delete"
    seen, graph,  \* the objects discovered so far and the graph they built
    toCreate, toDelete,     \* the partition of this invocation
    outcome,      \* "none" | "error" | "ok" | "shared" (SharedNodeAcrossBatches)
    faults, crashes

vars == <<orig, batch, src, dst, srcPaused, dstPaused, pc, seen, graph,
          toCreate, toDelete, outcome, faults, crashes>>

Clusters(S) == {o \in S : Kind[o] = "Cluster"}
Globals == {o \in Objs : Kind[o] = "Principal"}

\* The reference soft owners and tenants of each possible source, as
\* constant functions: TLC evaluates them once, not in every state.
SoftAt == [O \in Initial |-> [o \in Objs |-> RefSoft(O, o)]]
TenantsAt == [O \in Initial |-> RefTenants(O)]

\* Owners through explicit and soft edges, for the order of 4.5.2.
OwnersIn(o) == OwnerRefs[o] \cup SoftAt[orig][o]

EmptyGraph == [u \in {} |-> Virtual]

Transient == faults < MaxFaults /\ faults' = faults + 1

\* An exit on an error: the scoped pause of the source is released.
Abort ==
    /\ pc' = "idle" /\ outcome' = "error"
    /\ srcPaused' = srcPaused \ batch

\* The user runs move, first or again after an error or a crash.
Start ==
    /\ pc = "idle" /\ outcome \in {"none", "error"}
    /\ pc' = "discover" /\ seen' = {} /\ graph' = EmptyGraph
    /\ UNCHANGED <<orig, batch, src, dst, srcPaused, dstPaused, toCreate, toDelete,
                   outcome, faults, crashes>>

\* 4.3.1: list the objects and add each to the graph, in any order.
AddObject(o) ==
    /\ pc = "discover" /\ o \in src \ seen
    /\ seen' = seen \cup {o} /\ graph' = addObject(graph, o)
    /\ UNCHANGED <<orig, batch, src, dst, srcPaused, dstPaused, pc, toCreate, toDelete,
                   outcome, faults, crashes>>

\* 4.5.1 step 2 and 4.5.2: a node whose tenants are all in the batch is
\* moved; a global node with a tenant in the batch is created at the
\* destination and left at the source while another tenant uses it; any
\* other node shared with a cluster outside the batch is fatal.
PartitionDeleteShared(g, t) ==
    [create |-> {u \in Real(g) : t[u] # {} /\ (t[u] \subseteq batch \/ (IsGlobal(g, u) /\ t[u] \cap batch # {}))},
     delete |-> {u \in Real(g) : t[u] # {} /\ (t[u] \subseteq batch \/ (IsGlobal(g, u) /\ t[u] \cap batch # {}))},
     shared |-> \E u \in Real(g) : ~IsGlobal(g, u) /\ t[u] \cap batch # {} /\ ~(t[u] \subseteq batch)]

Partition(g, t) ==
    [create |-> {u \in Real(g) : t[u] # {} /\ (t[u] \subseteq batch \/ (IsGlobal(g, u) /\ t[u] \cap batch # {}))},
     delete |-> {u \in Real(g) : t[u] # {} /\ t[u] \subseteq batch},
     shared |-> \E u \in Real(g) : ~IsGlobal(g, u) /\ t[u] \cap batch # {} /\ ~(t[u] \subseteq batch)]

\* The passes after discovery, the partition, and its validation.
Plan ==
    /\ pc = "discover" /\ seen = src
    /\ LET p == Partition(graph, TenantsOf(graph)) IN
       IF p.shared
       THEN pc' = "idle" /\ outcome' = "shared" /\ UNCHANGED <<toCreate, toDelete>>
       ELSE pc' = "pause" /\ toCreate' = p.create /\ toDelete' = p.delete
            /\ UNCHANGED outcome
    /\ UNCHANGED <<orig, batch, src, dst, srcPaused, dstPaused, seen, graph, faults, crashes>>

\* Step 4: pause every cluster of the batch still at the source.
Pause ==
    /\ pc = "pause"
    /\ \/ srcPaused' = srcPaused \cup Clusters(toCreate) /\ pc' = "create"
          /\ UNCHANGED <<outcome, faults>>
       \/ Transient /\ Abort
    /\ UNCHANGED <<orig, batch, src, dst, dstPaused, seen, graph, toCreate, toDelete, crashes>>

\* Step 5: create a node whose owners in the batch are at the destination;
\* a node already there (same UID) is skipped.  The copy carries the
\* source's paused annotation.
CreateNoOrder(o) ==
    /\ pc = "create" /\ o \in toCreate \ dst
    /\ \/ /\ dst' = dst \cup {o}
          /\ dstPaused' = IF o \in srcPaused THEN dstPaused \cup {o} ELSE dstPaused
          /\ UNCHANGED <<pc, srcPaused, outcome, faults>>
       \/ Transient /\ Abort /\ UNCHANGED <<dst, dstPaused>>
    /\ UNCHANGED <<orig, batch, src, seen, graph, toCreate, toDelete, crashes>>

CreateNoSkip(o) ==
    /\ pc = "create" /\ o \in toCreate /\ OwnersIn(o) \cap toCreate \subseteq dst
    /\ \/ /\ o \notin dst /\ dst' = dst \cup {o}
          /\ dstPaused' = IF o \in srcPaused THEN dstPaused \cup {o} ELSE dstPaused
          /\ UNCHANGED <<pc, srcPaused, outcome, faults>>
       \/ o \in dst /\ Abort /\ UNCHANGED <<dst, dstPaused, faults>>
       \/ Transient /\ Abort /\ UNCHANGED <<dst, dstPaused>>
    /\ UNCHANGED <<orig, batch, src, seen, graph, toCreate, toDelete, crashes>>

Create(o) ==
    /\ pc = "create" /\ o \in toCreate \ dst /\ OwnersIn(o) \cap toCreate \subseteq dst
    /\ \/ /\ dst' = dst \cup {o}
          /\ dstPaused' = IF o \in srcPaused THEN dstPaused \cup {o} ELSE dstPaused
          /\ UNCHANGED <<pc, srcPaused, outcome, faults>>
       \/ Transient /\ Abort /\ UNCHANGED <<dst, dstPaused>>
    /\ UNCHANGED <<orig, batch, src, seen, graph, toCreate, toDelete, crashes>>

CreatedAll ==
    /\ pc = "create" /\ toCreate \subseteq dst /\ pc' = "delete"
    /\ UNCHANGED <<orig, batch, src, dst, srcPaused, dstPaused, seen, graph, toCreate,
                   toDelete, outcome, faults, crashes>>

\* Step 6: delete from the source, children before their owners.
Delete(o) ==
    /\ pc = "delete" /\ o \in toDelete \cap src
    /\ ~\E m \in toDelete \cap src : o \in OwnersIn(m)
    /\ \/ src' = src \ {o} /\ srcPaused' = srcPaused \ {o} /\ UNCHANGED <<pc, outcome, faults>>
       \/ Transient /\ Abort /\ UNCHANGED src
    /\ UNCHANGED <<orig, batch, dst, dstPaused, seen, graph, toCreate, toDelete, crashes>>

\* Step 7: unpause the batch's clusters at the destination.
Unpause ==
    /\ pc = "delete" /\ toDelete \cap src = {}
    /\ dstPaused' = dstPaused \ Clusters(toCreate)
    /\ pc' = "idle" /\ outcome' = "ok"
    /\ UNCHANGED <<orig, batch, src, dst, srcPaused, seen, graph, toCreate, toDelete,
                   faults, crashes>>

\* The process dies: nothing is released.
Crash ==
    /\ pc # "idle" /\ crashes < MaxCrashes
    /\ crashes' = crashes + 1 /\ pc' = "idle" /\ outcome' = "error"
    /\ UNCHANGED <<orig, batch, src, dst, srcPaused, dstPaused, seen, graph, toCreate,
                   toDelete, faults>>

\* The move has finished, or failed with an error no re-run changes.
Finished == pc = "idle" /\ outcome \notin {"none", "error"} /\ UNCHANGED vars

Init ==
    /\ orig \in Initial /\ src = orig /\ batch \in Batches
    /\ dst = {} /\ srcPaused = {} /\ dstPaused = {}
    /\ pc = "idle" /\ seen = {} /\ graph = EmptyGraph
    /\ toCreate = {} /\ toDelete = {} /\ outcome = "none"
    /\ faults = 0 /\ crashes = 0

Mover ==
    \/ Plan \/ Pause \/ CreatedAll \/ Unpause
    \/ \E o \in Objs : AddObject(o) \/ Create(o) \/ Delete(o)

Next == Start \/ Mover \/ Crash \/ Finished

\* The invocation runs to its end unless it crashes; the user re-runs a
\* move that ended with an error (the recovery 4.5.3 describes).
Spec == Init /\ [][Next]_vars /\ WF_vars(Mover) /\ WF_vars(Start)

-----------------------------------------------------------------------------

\* Spec property 2: once every listed object has been added, one at a time
\* and in whatever order the lists returned them, the graph is the one
\* the listed objects define: each object non-virtual with its kind and
\* owners, each unlisted owner a virtual placeholder (I-G1, I-G2, S6).
DiscoveryOrderIndependent ==
    pc = "discover" /\ seen = src => graph = RefGraph(src)

\* Spec property 4 with 4.3.3 and 4.3.5: the breadth-first walk over soft
\* and explicit edges gives every node exactly the clusters it descends
\* from, with the longest-named cluster as a secret's soft owner, and a
\* principal the tenants of the nodes that depend on it.
TenantClosure ==
    pc = "discover" /\ seen = src
        => \A u \in src : TenantsOf(graph)[u] = RefTenants(src)[u]

\* The owner references of every object on either side resolve on that
\* side: parents are created before children (4.5.1 step 5) and deleted
\* after them (step 6), soft owners included (4.5.2).
OwnerRefsResolve ==
    /\ \A o \in dst : OwnersIn(o) \cap orig \subseteq dst
    /\ \A o \in src : OwnersIn(o) \cap orig \subseteq src

\* Spec property 9 and I-G4: an object leaves the source only when every
\* cluster it belongs to is in the batch; a principal shared with a
\* cluster outside the batch stays, and orphans are never moved.
SharedNodeSafety ==
    LET T == TenantsAt[orig]
    IN  \A o \in orig \ src : T[o] # {} /\ T[o] \subseteq batch

\* The contract of 4.5.3, for every object but a principal: re-running
\* after crashes and errors, the move ends with the batch's objects at the
\* destination and gone from the source, or is refused as
\* SharedNodeAcrossBatches before anything changed.  A principal reaches
\* the destination but may stay at the source: once a failure has
\* deleted its dependents there, the re-run sees it without tenants
\* (4.3.5) and leaves it; after a crash there the destination's clusters
\* also stay paused, since the re-run has none of them to unpause.
MoveConverges ==
    <>[] LET T == TenantsAt[orig]
         IN  \/ /\ outcome = "ok"
                /\ dst = {o \in orig : T[o] # {} /\ T[o] \cap batch # {}}
                /\ src \ Globals = {o \in orig \ Globals : ~(T[o] # {} /\ T[o] \subseteq batch)}
             \/ outcome = "shared" /\ src = orig /\ dst = {}

=============================================================================
