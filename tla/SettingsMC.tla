----------------------------- MODULE SettingsMC -----------------------------
(***************************************************************************)
(* Instances of Settings for TLC.  Field 1 stands for the board-control     *)
(* core, field 2 for the payload of the first layout, field 3 for a field   *)
(* appended later (scale_filter).  The bootloader assigns the core; the     *)
(* application assigns the core (SettingsBankSet) or its payload            *)
(* (SettingsSave).                                                          *)
(***************************************************************************)
EXTENDS Settings

CONSTANTS boot, app, oldapp

MCDefault == [f \in 1..3 |-> 0]

\* A bootloader and a rolled-back application that predate field 3.
MixedBuilds == {boot, app, oldapp}
MixedSize == [b \in MixedBuilds |-> IF b = app THEN 3 ELSE 2]
MixedOwned == [b \in MixedBuilds |->
                 CASE b = boot   -> {{1}}
                   [] b = app    -> {{1}, {2, 3}}
                   [] b = oldapp -> {{1}, {2}}]
=============================================================================
