---------------------------- MODULE DroUpdateMC ----------------------------
(***************************************************************************)
(* Instances of DroUpdate for TLC: two firmware files.  They are alike, so  *)
(* the board may as well start with the first.                              *)
(***************************************************************************)
EXTENDS DroUpdate

CONSTANTS fw1, fw2

MCFiles == {fw1, fw2}
MCInit == HostInit /\ exec = Whole(fw1)
MCSpec == MCInit /\ [][UpdateNext]_allVars /\ UpdateFairness
=============================================================================
