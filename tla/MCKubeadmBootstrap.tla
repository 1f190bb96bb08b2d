------------------------- MODULE MCKubeadmBootstrap -------------------------
(***************************************************************************)
(* Two control-plane machines that both carry an InitConfiguration (as in  *)
(* the test ExactlyOneControlPlaneMachineInitializes) and one worker.      *)
(***************************************************************************)
EXTENDS KubeadmBootstrap

CONSTANTS cp1, cp2, w1, w2

MCMachines == {cp1, cp2, w1}
MCControlPlane == {cp1, cp2}
MCMachinesPreset == {cp1, cp2, w1, w2}
MCPreset == {w2}
=============================================================================
