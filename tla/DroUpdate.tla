------------------------------ MODULE DroUpdate ------------------------------
(***************************************************************************)
(* A firmware update as the host runs it: tools/dro_update.py driving the   *)
(* boot chain of module Bootloader over the serial line.  The tool is the   *)
(* only client.  Its exchanges are                                          *)
(*   update, info, flash + YMODEM, bank, boot, version                      *)
(* and it gives up or goes on when a reply does not come, so it may be      *)
(* talking to the bootloader when the application answers, or the reverse.  *)
(***************************************************************************)
EXTENDS Bootloader

VARIABLES
  host,       \* the exchange the tool is at
  target,     \* the bank it chose
  newfile,    \* the file it was given, until it has sent it, or None
  running,    \* content of Exec when the application was last started
  selected,   \* a bank has been selected since then
  misled,     \* a reply to info was lost, so the target is a guess
  quiet       \* the update is disturbed by nothing

hostVars == <<host, target, newfile>>
history == <<running, selected, misled, quiet>>
allVars == <<vars, hostVars, history>>

HostTypeOK ==
  /\ TypeOK
  /\ host \in {"idle", "update", "info", "flash", "flashing", "bank", "banking", "boot", "version"}
  /\ target \in Banks
  /\ newfile \in Images \union {None}
  /\ running \in Regions
  /\ selected \in BOOLEAN /\ misled \in BOOLEAN /\ quiet \in BOOLEAN

HostInit ==
  /\ Init
  /\ host = "idle" /\ target = 0 /\ newfile = None
  /\ running = exec /\ selected = FALSE /\ misled = FALSE /\ quiet \in BOOLEAN

\* The application is started, which only a jump of bl_boot_app does.
AppStarts == pc' = "app" /\ (pc = "boot_app" \/ (pc = "save" /\ cmd = "boot"))

\* A selection reaches the settings.
Selects == /\ cmd \in {"bank", "app.bank"}
           /\ pending # None /\ pending' = None
           /\ settings' = pending

Remember ==
  /\ running' = IF AppStarts THEN exec' ELSE running
  /\ selected' = ((selected \/ Selects) /\ ~AppStarts)
  /\ UNCHANGED <<misled, quiet>>

\* What the tool knows goes with it.
Keeps == IF host' = "idle" THEN target' = 0 /\ newfile' = None ELSE UNCHANGED <<target, newfile>>

-----------------------------------------------------------------------------
(* The tool (dro_update.py main, 177-228).                                  *)

\* The tool is started with a file: it asks a running application for the
\* bootloader, or (--in-bootloader) finds the CLI.
HostStart ==
  /\ host = "idle"
  /\ \/ AppUpdate /\ host' = "update"
     \/ pc = "cli" /\ host' = "info" /\ UNCHANGED vars
  /\ newfile' \in Images
  /\ UNCHANGED target

\* The greeting `bootloader=ready' arrives.
HostGreeted ==
  /\ host = "update" /\ pc = "cli"
  /\ host' = "info"
  /\ Keeps /\ UNCHANGED vars

\* Faulty variant: the active bank is flashed.
SameBank == Active

InactiveBank == 1 - Active

\* The bank that is not active becomes the target; an operator who names it
\* with --bank saves the exchange.  (To name the active bank is to ask for what
\* the run boot_partial_exec shows.)
HostInfo ==
  /\ host = "info" /\ pc = "cli"
  /\ host' = "flash"
  /\ target' = InactiveBank
  /\ UNCHANGED <<vars, newfile>>

\* No reply to info after all retries: cli() returns {}, and the missing
\* bank.active is taken for 0.
HostInfoLost ==
  /\ host = "info"
  /\ host' = "flash"
  /\ target' = 1
  /\ UNCHANGED <<vars, newfile>>

HostFlash ==
  /\ host = "flash"
  /\ CmdFlash(target, newfile)
  /\ host' = "flashing"
  /\ newfile' = None /\ UNCHANGED target

\* `bank' is a command of the bootloader and of the application alike.
HostBank ==
  /\ host = "bank"
  /\ CmdBank(target) \/ AppBank(target)
  /\ host' = "banking"
  /\ Keeps

\* The application answers `boot' with "unknown command"; the tool reads no reply.
HostBoot ==
  /\ host = "boot"
  /\ CmdBoot \/ (pc = "app" /\ UNCHANGED vars)
  /\ host' = "version"
  /\ Keeps

\* `version' too is a command of both.
HostVersion ==
  /\ host = "version"
  /\ pc \in {"cli", "app"}
  /\ host' = "idle"
  /\ Keeps /\ UNCHANGED vars

\* No reply in time, or (info) an error reply.  cli() returns {} after its
\* retries, so the tool goes on from `bank' to `boot'; elsewhere it exits.
HostTimeout ==
  /\ \/ host \in {"update", "info", "flash", "flashing", "version"} /\ host' = "idle"
     \/ host = "banking" /\ host' \in {"bank", "boot"}
     \/ host = "bank" /\ host' = "boot"
  /\ Keeps /\ UNCHANGED vars

\* --no-boot; or the one `boot' the tool sends is garbled on the line.
HostNoBoot ==
  /\ host = "boot"
  /\ host' \in {"idle", "version"}
  /\ Keeps /\ UNCHANGED vars

\* The operator interrupts the tool.
HostDies ==
  /\ host # "idle"
  /\ host' = "idle"
  /\ Keeps /\ UNCHANGED vars

-----------------------------------------------------------------------------
(* The device, and what the tool hears of it.                               *)

\* Faulty variant: the reply of flash is not looked at.
AfterFlashUnchecked == "bank"

\* Only the reply that carries `flash=' lets the tool go on.
AfterFlash == IF pc = "save" THEN "bank" ELSE "idle"

\* The reply of flash or bank arrives when its handler returns to the loop.
Hears ==
  CASE host = "flashing" /\ cmd = "flash" /\ pc' = "cli" -> host' = AfterFlash
    [] host = "banking" /\ cmd \in {"bank", "app.bank"} /\ pc' \in {"cli", "app"} ->
         host' = IF settings' = pending THEN "boot" ELSE "idle"
    [] OTHER -> UNCHANGED host

Device(step) == step /\ Hears /\ Keeps

\* A brown-out or reset is not a reply.
LosesPower == PowerLoss /\ UNCHANGED hostVars

-----------------------------------------------------------------------------
HostStep == \/ HostGreeted \/ HostInfo \/ HostFlash
            \/ HostBank \/ HostBoot \/ HostVersion

DeviceStep == Device(BootStep \/ FlashStep)

\* Everything works: the tool gets its replies, the whole file gets across and
\* the device is not disturbed.
QuietNext == (HostStart \/ HostStep \/ DeviceStep) /\ Remember

\* The line loses bytes and replies, a transfer ends early or fails, the
\* operator interrupts or omits a step, the power goes away; the flash itself
\* is sound.
RoughNext ==
  \/ (HostTimeout \/ HostNoBoot \/ HostDies) /\ Remember
  \/ (Device(ReceiveShort \/ ReceiveFails) \/ LosesPower) /\ Remember
  \/ /\ HostInfoLost
     /\ misled' = TRUE
     /\ UNCHANGED <<running, selected, quiet>>

UpdateNext == QuietNext \/ (~quiet /\ RoughNext)

\* While nothing disturbs them, the tool goes on as soon as it can, and the
\* device has the processor.
UpdateFairness == /\ WF_allVars(quiet /\ HostStep /\ Remember)
                  /\ WF_allVars(quiet /\ DeviceStep /\ Remember)

UpdateSpec == HostInit /\ [][UpdateNext]_allVars /\ UpdateFairness

-----------------------------------------------------------------------------
(* Properties.                                                              *)

\* Until a new bank has been selected, whatever becomes of the update, every
\* start of the application starts the firmware that ran before it ("a failed
\* transfer leaves the bootloader recoverable", protocol_design.md:171-172),
\* provided the tool did learn which bank was active.
UnselectedStartsOld == [][AppStarts /\ ~selected /\ ~misled => exec' = running]_allVars

\* Every start of the application is of what ran before, or of a complete copy
\* of the active bank as the flash that recorded its CRC left it: no
\* interrupted copy, erase or transfer is ever run.  (What was recorded is a
\* whole image unless the transfer ended early: ReceiveShort.)
StartsOldOrRecorded == [][AppStarts => exec' \in {running, Loaded.crc[Active]}]_allVars

\* Flashing only the inactive bank and selecting it only after `flash=' keeps
\* every interrupted copy repeatable: from its first erase to the start of the
\* application the settings ask for a copy of a bank that has its recorded
\* CRC, unless that copy is complete.
InterruptedCopyIsRepeated ==
  exec # running =>
    /\ settings # None
    /\ bank[Active] = Loaded.crc[Active] /\ BankTrusted(Active)
    /\ Loaded.loaded # Active \/ exec = bank[Active]

\* In a quiet update the application that runs in the end is the new file.
UpdateSucceeds ==
  \A f \in Bootable : quiet /\ host = "info" /\ newfile = f ~> pc = "app" /\ exec = Whole(f)
=============================================================================
