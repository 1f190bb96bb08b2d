----------------------------- MODULE MCUpgrader -----------------------------
(***************************************************************************)
(* Model values for Upgrader: a core, a bootstrap and an infrastructure    *)
(* provider, all at version 1 of contract 1.  Contract 2 is reachable by   *)
(* every provider (core 3, bootstrap 2, infrastructure 3); bootstrap 3 has *)
(* a release series but no release, so a custom plan naming it passes the  *)
(* contract checks and then fails to fetch.                                *)
(***************************************************************************)
EXTENDS Upgrader, TLC

CONSTANTS core, boot, infra

MCProviders == {core, boot, infra}
MCOrder == <<core, boot, infra>>
MCReleases == (core :> {1, 2, 3}) @@ (boot :> {1, 2}) @@ (infra :> {1, 2, 3})
MCSeries == (core :> (1 :> 1 @@ 2 :> 1 @@ 3 :> 2))
         @@ (boot :> (1 :> 1 @@ 2 :> 2 @@ 3 :> 2))
         @@ (infra :> (1 :> 1 @@ 2 :> 1 @@ 3 :> 2))
MCInit == [p \in MCProviders |-> 1]

\* Infrastructure has no contract-2 release: a switch to contract 2 is
\* always partial.
MCReleasesNoInfra2 == (core :> {1, 2, 3}) @@ (boot :> {1, 2}) @@ (infra :> {1, 2})

\* The metadata of the core has no series for its installed version 1 and
\* no newer release.
MCSeriesHole == (core :> (1 :> 0 @@ 2 :> 1 @@ 3 :> 2))
             @@ (boot :> (1 :> 1 @@ 2 :> 2 @@ 3 :> 2))
             @@ (infra :> (1 :> 1 @@ 2 :> 1 @@ 3 :> 2))
MCReleasesHole == (core :> {1}) @@ (boot :> {1, 2}) @@ (infra :> {1, 2, 3})
=============================================================================
