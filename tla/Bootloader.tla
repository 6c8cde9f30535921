----------------------------- MODULE Bootloader -----------------------------
(***************************************************************************)
(* The dual-bank boot chain: the bootloader (main.c, bl_cli.c, flash.c), the *)
(* commands of the application that take part in it (Protocol.c,             *)
(* SettingsStore.c), and the flash they share.  Two banks store firmware;    *)
(* the bootloader copies the active one into Exec and jumps to Exec.         *)
(*                                                                         *)
(* A region of the flash is Chunks chunks long; chunk 1 holds the vector     *)
(* table.  Each chunk is erased or holds that chunk of a firmware image.     *)
(* The CRC of a region is the region's content (no collisions).  The         *)
(* settings are the register that module Settings implements.                *)
(***************************************************************************)
EXTENDS Integers

CONSTANTS
  Images,       \* the files an operator can send
  Bootable,     \* those linked for Exec: bl_image_valid accepts their vectors
  Chunks,       \* chunks of a region
  Erased,       \* content of an erased chunk
  None          \* no settings, no CRC recorded, no loaded bank, no file

ASSUME ImagesAssumption == Bootable \subseteq Images /\ Erased \notin Images
ASSUME ChunksAssumption == Chunks \in Nat \ {0}

Banks == {0, 1}
Regions == [1..Chunks -> Images \union {Erased}]
ErasedRegion == [i \in 1..Chunks |-> Erased]
Whole(f) == [i \in 1..Chunks |-> f]

ASSUME NoneAssumption == None \notin Images \union {Erased} \union Banks \union Regions

\* The board-control core of settings_t (the payload is module Settings' matter).
SettingsRecords == [active : Banks,
                    loaded : Banks \union {None},
                    mode   : {"app", "bl"},
                    crc    : [Banks -> Regions \union {None}]]

ASSUME NoSettingsAssumption == None \notin SettingsRecords

Defaults == [active |-> 0, loaded |-> None, mode |-> "app", crc |-> [b \in Banks |-> None]]

VARIABLES
  exec,      \* content of the Exec region
  bank,      \* content of the two banks
  settings,  \* the stored settings record, or None
  pending,   \* the record of the save in progress, or None
  flag,      \* BOOT_FLAG = BOOT_MAGIC
  pc,        \* where the processor is
  cmd,       \* the command or boot step the processor is busy with
  arg,       \* the bank it is about
  file,      \* the file being received
  off        \* chunks of it programmed or copied so far

flash == <<exec, bank>>
job == <<cmd, arg, file, off>>
vars == <<exec, bank, settings, pending, flag, pc, cmd, arg, file, off>>

Store == INSTANCE SettingsRegister
           WITH Values <- SettingsRecords, value <- settings

BootJobs == {"boot", "copy", "rollback", "flash", "erase", "bank", "boot.mode"}
AppJobs == {"app.save", "app.bank", "app.rollback"}

TypeOK ==
  /\ exec \in Regions
  /\ bank \in [Banks -> Regions]
  /\ Store!TypeOK
  /\ flag \in BOOLEAN
  /\ pc \in {"reset", "boot_app", "cli", "receive", "erase", "copy", "save", "app"}
  /\ cmd \in BootJobs \union AppJobs \union {"idle"}
  /\ arg \in Banks
  /\ file \in Images \union {None}
  /\ off \in 0..Chunks

-----------------------------------------------------------------------------
(* Trust (main.c 130-145) and loading the settings.                         *)

ImageValid(r) == r[1] \in Bootable

Loaded == IF settings = None THEN Defaults ELSE settings

BankTrusted(b) ==
  /\ ImageValid(bank[b])
  /\ Loaded.crc[b] # None => bank[b] = Loaded.crc[b]

Active == Loaded.active

-----------------------------------------------------------------------------
(* A factory board: an application in Exec, banks and settings erased.      *)

Init ==
  /\ exec \in {Whole(f) : f \in Bootable}
  /\ bank = [b \in Banks |-> ErasedRegion]
  /\ settings = None
  /\ pending = None
  /\ flag = FALSE
  /\ pc = "reset"
  /\ cmd = "idle" /\ arg = 0 /\ file = None /\ off = 0

\* Control moves on; no job is left behind.
Goto(p) == pc' = p /\ cmd' = "idle" /\ arg' = 0 /\ file' = None /\ off' = 0

\* A handler starts an operation that takes several steps.
Start(p, c, b, f) == pc' = p /\ cmd' = c /\ arg' = b /\ file' = f /\ off' = 0

\* settings_load, some fields assigned, settings_prepare: the save begins.
Save(c, b, rec) ==
  /\ pending' = rec
  /\ Store!Begin
  /\ Start("save", c, b, None)

-----------------------------------------------------------------------------
(* Reset and boot (main.c 166-209).                                         *)

\* Faulty variant: the one-shot request is not consumed.
MainKeepsFlag ==
  /\ pc = "reset"
  /\ IF flag \/ Loaded.mode = "bl" THEN Goto("cli") ELSE Goto("boot_app")
  /\ UNCHANGED <<flash, settings, pending, flag>>

Main ==
  /\ pc = "reset"
  /\ flag' = FALSE
  /\ IF flag \/ Loaded.mode = "bl" THEN Goto("cli") ELSE Goto("boot_app")
  /\ UNCHANGED <<flash, settings, pending>>

\* Faulty variant: Exec is only replaced when it is not bootable.
NeedCopyIfInvalid == settings # None /\ ~ImageValid(exec) /\ BankTrusted(Active)

NeedCopy == settings # None /\ Loaded.loaded # Active /\ BankTrusted(Active)

BootJump ==
  /\ pc = "boot_app"
  /\ ~NeedCopy
  /\ ImageValid(exec)
  /\ Goto("app")
  /\ UNCHANGED <<flash, settings, pending, flag>>

BootLoad ==
  /\ pc = "boot_app"
  /\ NeedCopy \/ ~ImageValid(exec)
  /\ BankTrusted(Active)
  /\ Start("erase", "boot", Active, None)
  /\ UNCHANGED <<flash, settings, pending, flag>>

BootNothing ==
  /\ pc = "boot_app"
  /\ ~ImageValid(exec)
  /\ ~BankTrusted(Active)
  /\ Goto("cli")
  /\ UNCHANGED <<flash, settings, pending, flag>>

-----------------------------------------------------------------------------
(* Flash operations in progress (flash.c).                                  *)

\* Faulty variant: the session does not erase the sector first.
FirstBlockNoErase == [bank[arg] EXCEPT ![1] = file]

\* The bank after the lazy erase and the programming of the first block.
FirstBlock == [ErasedRegion EXCEPT ![1] = file]

\* The sector erase of erase, copy and boot, and the lazy one of flash.
EraseSector ==
  /\ pc = "erase"
  /\ \/ /\ cmd \in {"boot", "copy"}
        /\ exec' = ErasedRegion
        /\ pc' = "copy"
        /\ UNCHANGED <<bank, job>>
     \/ /\ cmd = "erase"
        /\ bank' = [bank EXCEPT ![arg] = ErasedRegion]
        /\ Goto("cli")
        /\ UNCHANGED exec
     \/ /\ cmd = "flash"
        /\ bank' = [bank EXCEPT ![arg] = FirstBlock]
        /\ pc' = "receive"
        /\ off' = 1
        /\ UNCHANGED <<exec, cmd, arg, file>>
  /\ UNCHANGED <<settings, pending, flag>>

\* flash_copy_region, one chunk
CopyChunk ==
  /\ pc = "copy"
  /\ off < Chunks
  /\ exec' = [exec EXCEPT ![off + 1] = bank[arg][off + 1]]
  /\ off' = off + 1
  /\ UNCHANGED <<bank, settings, pending, flag, pc, cmd, arg, file>>

\* Faulty variant: the copy loop stops one chunk early.
CopyCompleteEarly == off >= Chunks - 1

CopyComplete == off = Chunks

CopyDone ==
  /\ pc = "copy"
  /\ CopyComplete
  /\ Save(cmd, arg, [Loaded EXCEPT !.loaded = arg])
  /\ UNCHANGED <<flash, flag>>

\* ymodem_receive accepts the next block.
ReceiveBlock ==
  /\ pc = "receive"
  /\ off < Chunks
  /\ IF off = 0
     THEN pc' = "erase" /\ UNCHANGED <<bank, off>>
     ELSE /\ bank' = [bank EXCEPT ![arg][off + 1] = file]
          /\ off' = off + 1
          /\ UNCHANGED pc
  /\ UNCHANGED <<exec, settings, pending, flag, cmd, arg, file>>

\* Faulty variant: the CRC of the file as it should have come.
FileCrc == Whole(file)

\* settings_crc32 over the region, whatever of it was received.
RegionCrc == bank[arg]

\* The transfer ended with YM_OK: cmd_flash checks the vectors and records the
\* CRC of the region.
ReceiveOk ==
  /\ pc = "receive"
  /\ IF ImageValid(bank[arg])
     THEN Save("flash", arg, [Loaded EXCEPT !.crc[arg] = RegionCrc])
     ELSE Goto("cli") /\ UNCHANGED <<settings, pending>>
  /\ UNCHANGED <<flash, flag>>

\* EOT after the whole file.
ReceiveDone == off = Chunks /\ ReceiveOk

\* EOT before that, or the EOT of an empty file, before anything was erased:
\* ymodem_receive does not compare `written' with `filesize'.
ReceiveShort == off < Chunks /\ ReceiveOk

\* The sender cancelled or never started: `error=ymodem'.
ReceiveFails ==
  /\ pc = "receive"
  /\ Goto("cli")
  /\ UNCHANGED <<flash, settings, pending, flag>>

-----------------------------------------------------------------------------
(* The end of a save: what each caller does with the result.                *)

\* Faulty variant: boot is retried until loaded_bank could be recorded.
AfterBootSaveRetry(ok) ==
  IF ~ok THEN "boot_app" ELSE IF ImageValid(exec) THEN "app" ELSE "cli"

\* bl_boot_app ignores the result of the save.
AfterBootSave(ok) == IF ImageValid(exec) THEN "app" ELSE "cli"

SaveReturns(ok) ==
  CASE cmd = "boot"         -> AfterBootSave(ok)
    [] cmd = "rollback"     -> IF ok THEN "boot_app" ELSE "cli"
    [] cmd = "app.rollback" -> IF ok THEN "reset" ELSE "app"
    [] cmd \in {"app.save", "app.bank"} -> "app"
    [] OTHER                -> "cli"

SaveOk ==
  /\ pc = "save"
  /\ Store!Commit
  /\ Goto(SaveReturns(TRUE))
  /\ UNCHANGED <<flash, flag>>

\* The erase or a word of the slot fails; the image may be complete all the same.
SaveFails ==
  /\ pc = "save"
  /\ Store!Commit \/ Store!Abandon
  /\ Goto(SaveReturns(FALSE))
  /\ UNCHANGED <<flash, flag>>

-----------------------------------------------------------------------------
(* Bootloader commands (bl_cli.c).  info, crc, version and help only read.  *)

CliCommand == pc = "cli" /\ UNCHANGED <<flash, flag>>

CmdBank(n) ==
  /\ CliCommand
  /\ Save("bank", n, [Loaded EXCEPT !.active = n])

CmdBootMode(m) ==
  /\ CliCommand
  /\ Save("boot.mode", 0, [Loaded EXCEPT !.mode = m])

CmdErase(n) ==
  /\ CliCommand
  /\ Start("erase", "erase", n, None)
  /\ UNCHANGED <<settings, pending>>

CmdFlash(n, f) ==
  /\ CliCommand
  /\ Start("receive", "flash", n, f)
  /\ UNCHANGED <<settings, pending>>

CmdCopy ==
  /\ CliCommand
  /\ BankTrusted(Active)
  /\ Start("erase", "copy", Active, None)
  /\ UNCHANGED <<settings, pending>>

CmdBoot ==
  /\ CliCommand
  /\ Goto("boot_app")
  /\ UNCHANGED <<settings, pending>>

CmdRollback ==
  /\ CliCommand
  /\ BankTrusted(1 - Active)
  /\ Save("rollback", 1 - Active, [Loaded EXCEPT !.active = 1 - Active])

CmdReset ==
  /\ CliCommand
  /\ Goto("reset")
  /\ UNCHANGED <<settings, pending>>

-----------------------------------------------------------------------------
(* Application commands (Protocol.c).  They are those of a firmware image   *)
(* only while Exec holds one; what a damaged Exec does is not modelled.     *)

AppCommand ==
  /\ pc = "app"
  /\ \E f \in Bootable : exec = Whole(f)
  /\ UNCHANGED flash

\* The board-control fields are carried over; the payload is not modelled here.
AppSave ==
  /\ AppCommand
  /\ Save("app.save", 0, Loaded)
  /\ UNCHANGED flag

AppBank(n) ==
  /\ AppCommand
  /\ Save("app.bank", n, [Loaded EXCEPT !.active = n])
  /\ UNCHANGED flag

AppRollback ==
  /\ AppCommand
  /\ Save("app.rollback", 1 - Active, [Loaded EXCEPT !.active = 1 - Active])
  /\ UNCHANGED flag

\* update arms BOOT_FLAG, then EnterBootloader jumps; reset only jumps.
AppUpdate ==
  /\ AppCommand
  /\ flag' = TRUE
  /\ Goto("reset")
  /\ UNCHANGED <<settings, pending>>

AppReset ==
  /\ AppCommand
  /\ Goto("reset")
  /\ UNCHANGED <<settings, pending, flag>>

-----------------------------------------------------------------------------
(* Faults.                                                                  *)

\* What an erase that failed or was interrupted can leave of a region.
Torn(r) == {[i \in 1..Chunks |-> IF i \in K THEN r[i] ELSE Erased] : K \in SUBSET (1..Chunks)}

\* The region an erase in progress is about is torn; nothing else is.
TearErase ==
  IF pc = "erase" /\ cmd \in {"boot", "copy"} THEN exec' \in Torn(exec) /\ UNCHANGED bank
  ELSE IF pc = "erase" THEN /\ \E r \in Torn(bank[arg]) : bank' = [bank EXCEPT ![arg] = r]
                            /\ UNCHANGED exec
  ELSE UNCHANGED flash

\* An erase, a word or its read-back fails: the operation stops with an error
\* (bl_load_bank, flash_erase_sector, YM_FLASH_ERR) and the CLI answers it.
FlashFails ==
  /\ pc = "erase" \/ (pc \in {"copy", "receive"} /\ off < Chunks)
  /\ TearErase
  /\ Goto("cli")
  /\ UNCHANGED <<settings, pending, flag>>

\* RAM is lost, BOOT_FLAG included; a save in progress is committed or not,
\* as module Settings shows.
PowerLoss ==
  /\ TearErase
  /\ IF pending = None THEN UNCHANGED <<settings, pending>>
     ELSE Store!Commit \/ Store!Abandon
  /\ flag' = FALSE
  /\ Goto("reset")

-----------------------------------------------------------------------------
BootStep == Main \/ BootJump \/ BootLoad \/ BootNothing

FlashStep == \/ EraseSector \/ CopyChunk \/ CopyDone
             \/ ReceiveBlock \/ ReceiveDone
             \/ SaveOk

Cli == \/ \E n \in Banks : CmdBank(n) \/ CmdErase(n) \/ \E f \in Images : CmdFlash(n, f)
       \/ \E m \in {"app", "bl"} : CmdBootMode(m)
       \/ CmdCopy \/ CmdBoot \/ CmdRollback \/ CmdReset

App == AppSave \/ (\E n \in Banks : AppBank(n)) \/ AppRollback \/ AppUpdate \/ AppReset

\* Sound flash and steady power: only transfers fail or end early.
SoundNext == BootStep \/ FlashStep \/ Cli \/ App \/ ReceiveShort \/ ReceiveFails

Next == SoundNext \/ SaveFails \/ FlashFails \/ PowerLoss

Spec == Init /\ [][Next]_vars

SoundSpec == Init /\ [][SoundNext]_vars

\* The processor keeps executing: a boot step or flash operation that can go
\* on does go on.  Commands, transfers and faults need not happen.
FairSpec == Spec /\ WF_vars(BootStep) /\ WF_vars(FlashStep)

-----------------------------------------------------------------------------
(* Properties.                                                              *)

\* A region never mixes chunks of two files, whatever is interrupted and
\* retried: every programming session erases first, and the bank a copy reads
\* does not change under it.
NoMixture ==
  \A r \in {exec, bank[0], bank[1]} : \E f \in Images : r \in Torn(Whole(f))

\* bank_crc[b] changes only where a flash of b that ended with YM_OK and valid
\* vectors is saved, to the CRC of what b holds at that moment.  Where the save
\* fails unnoticed or the power cuts it, and whatever other command saves, it
\* stays the old one or none.
CrcOldOrNew ==
  [][\A b \in Banks : Loaded'.crc[b] # Loaded.crc[b] =>
       /\ pc = "save" /\ cmd = "flash" /\ arg = b
       /\ ImageValid(bank[b]) /\ Loaded'.crc[b] = bank[b]]_vars

\* The one-shot request is consumed by the boot it was armed for: it is armed
\* only between update and the next pass through main.
FlagConsumed == flag => pc = "reset"

\* Once the power stays on, every boot ends in the application or in the CLI:
\* no combination of banks, settings and failing flash makes the bootloader
\* copy or retry for ever.
BootSettles == <>[][~PowerLoss]_vars => (pc = "reset" ~> pc \in {"app", "cli"})

\* An operator who flashes the running bank again, or aborts, cannot make the
\* bootloader jump to a partial Exec: "Bricked/partial app -> bootloader stays
\* in control (vector + CRC trust check)" (bootloader_todo.md:31).
OnlyWholeImagesRun == pc = "app" => \E f \in Bootable : exec = Whole(f)

\* bl_boot_app ends in the application only with the active bank in Exec,
\* when settings exist and that bank is trusted (bl_boot.h:29).
BootRunsActiveBank ==
  [][pc = "boot_app" /\ pc' = "app" /\ settings # None /\ BankTrusted(Active)
       => exec = bank[Active]]_vars
=============================================================================
