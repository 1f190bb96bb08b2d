------------------------- MODULE MCMachineController -------------------------
EXTENDS MachineController
=============================================================================
