---------------------------- MODULE BootloaderMC ----------------------------
(***************************************************************************)
(* Instances of Bootloader for TLC: up to two bootable files and one that   *)
(* is not linked for Exec.                                                  *)
(***************************************************************************)
EXTENDS Bootloader

CONSTANTS fw1, fw2, bad

MCImages == {fw1, fw2, bad}
MCBootable == {fw1, fw2}
MCTwo == {fw1, bad}
MCOne == {fw1}
=============================================================================
