---------------------------- MODULE MCObjectMover ----------------------------
(***************************************************************************)
(* Two clusters, "foo" (c1) and "foo-etcd" (c2), each with an              *)
(* infrastructure cluster owned by it and by one shared principal (p),     *)
(* as in the test "Two cluster with the same principal".  Secret s1 is      *)
(* "foo-etcd-ca": both "foo" + "etcd-ca" and "foo-etcd" + "ca" match, and   *)
(* the longest cluster name must win; it also carries an owner reference   *)
(* to x, an object no list returns.  Template t is shared by both          *)
(* infrastructure clusters when the source has it.  Secret o1, "bar-ca",    *)
(* belongs to no cluster: an orphan, in the source without the template.   *)
(***************************************************************************)
EXTENDS ObjectMover

CONSTANTS c1, c2, i1, i2, p, s1, t, o1, x

MCObjs == {c1, c2, i1, i2, p, s1, t, o1}
MCExternal == {x}

MCKind ==
    [o \in MCObjs |->
        CASE o \in {c1, c2} -> "Cluster"
          [] o \in {i1, i2} -> "InfrastructureCluster"
          [] o = p          -> "Principal"
          [] o \in {s1, o1} -> "Secret"
          [] o = t          -> "InfrastructureMachineTemplate"]

MCNameOf ==
    [o \in MCObjs |->
        CASE o = c1 -> <<"foo">>
          [] o = c2 -> <<"foo", "etcd">>
          [] o = s1 -> <<"foo", "etcd", "ca">>
          [] o = i1 -> <<"foo">>
          [] o = i2 -> <<"foo", "etcd">>
          [] o = p  -> <<"principal">>
          [] o = t  -> <<"shared">>
          [] o = o1 -> <<"bar", "ca">>]

MCOwnerRefs ==
    [o \in MCObjs |->
        CASE o = i1 -> {c1, p}
          [] o = i2 -> {c2, p}
          [] o = s1 -> {x}
          [] o = t  -> {i1, i2}
          [] OTHER  -> {}]

MCSuffixes == {<<"ca">>, <<"etcd", "ca">>, <<"sa">>}

\* {c2} moves the soft-owned secret and leaves the principal, which c1
\* still uses; {c1, c2} moves the principal too.
MCBatches == {{c2}, {c1, c2}}
MCInitial == {MCObjs \ {o1}, MCObjs \ {t}}


=============================================================================
