---------------------------- MODULE MasterFarmMC ----------------------------
(* Small instances of MasterFarm, with the definitions of MasterMC.        *)
EXTENDS MasterFarm, MasterMC
=============================================================================
