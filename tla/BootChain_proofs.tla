-------------------------- MODULE BootChain_proofs --------------------------
(***************************************************************************)
(* Proofs about the boot chain and about an update of it by the tool, for    *)
(* every set of files, every number of chunks in a region and every way the  *)
(* tool, the line and the power fail it.  Boot's invariant adds to the       *)
(* properties what the job in progress knows of the region it works on (Job), *)
(* and that the record a save is writing has the CRCs of the one it replaces, *)
(* but for that of the bank a flash has received (Carried).  The update's    *)
(* says why a half-written Exec is always copied again: a bank without a     *)
(* recorded CRC is never active with vectors in it, a bank is only selected  *)
(* once its CRC is recorded, and Exec differs from what was last run only    *)
(* while the device boots.                                                   *)
(***************************************************************************)
EXTENDS DroUpdate, Settings, TLAPS

-----------------------------------------------------------------------------
(* The invariant *)

(* The first n chunks of r, the rest erased.                                 *)
Prefix(r, n) == [i \in 1..Chunks |-> IF i <= n THEN r[i] ELSE Erased]

Job ==
  /\ pc = "erase" => off = 0 /\ cmd \in {"boot", "copy", "erase", "flash"}
  /\ pc = "copy" => cmd \in {"boot", "copy"}
  /\ pc = "receive" => cmd = "flash"
  /\ pc \in {"erase", "receive"} /\ cmd = "flash" => file \in Images
  /\ pc = "receive" /\ off > 0 => bank[arg] = Prefix(Whole(file), off)
  /\ pc = "copy" => exec = Prefix(bank[arg], off)

(* A record keeps the recorded CRCs, but for that of the bank a flash has    *)
(* just received: there it has the one the bank has now.                     *)
Carries(rec, c, b) ==
  \A d \in Banks : rec.crc[d] # Loaded.crc[d] =>
    c = "flash" /\ d = b /\ ImageValid(bank[d]) /\ rec.crc[d] = bank[d]

Carried ==
  /\ pending # None <=> pc = "save"
  /\ pc = "save" => Carries(pending, cmd, arg)

IInv ==
  /\ TypeOK /\ Job
  /\ NoMixture
  /\ Carried
  /\ FlagConsumed

-----------------------------------------------------------------------------
(* Regions *)

LEMMA RegionTypes ==
  /\ ErasedRegion \in Regions
  /\ \A f \in Images : Whole(f) \in Regions
  /\ \A r \in Regions, n \in 0..Chunks : Prefix(r, n) \in Regions
  /\ \A f \in Images, n \in 0..Chunks : Prefix(Whole(f), n) \in Regions
  BY DEF ErasedRegion, Regions, Whole, Prefix

(* What an erase in progress leaves is a region, and of one file if the       *)
(* region was.                                                               *)
LEMMA TornRegion ==
  ASSUME NEW r \in Regions, NEW t \in Torn(r)
  PROVE  t \in Regions /\ \A f \in Images : r \in Torn(Whole(f)) => t \in Torn(Whole(f))
<1>1. PICK K \in SUBSET (1..Chunks) : t = [i \in 1..Chunks |-> IF i \in K THEN r[i] ELSE Erased]
  BY DEF Torn
<1>2. t \in Regions
  BY <1>1 DEF Regions
<1>3. ASSUME NEW f \in Images, r \in Torn(Whole(f)) PROVE t \in Torn(Whole(f))
  <2>1. PICK L \in SUBSET (1..Chunks) : r = [i \in 1..Chunks |-> IF i \in L THEN Whole(f)[i] ELSE Erased]
    BY <1>3 DEF Torn
  <2>2. t = [i \in 1..Chunks |-> IF i \in K \cap L THEN Whole(f)[i] ELSE Erased]
    BY <1>1, <2>1
  <2>3. K \cap L \in SUBSET (1..Chunks)
    OBVIOUS
  <2> QED BY <2>2, <2>3 DEF Torn
<1> QED BY <1>2, <1>3

(* Erased regions and beginnings of a file mix nothing; nor does the          *)
(* beginning of a region that does not.                                      *)
LEMMA PrefixTorn ==
  ASSUME NEW r \in Regions, NEW n \in 0..Chunks
  PROVE  Prefix(r, n) \in Torn(r)
<1>1. {i \in 1..Chunks : i <= n} \in SUBSET (1..Chunks)
  OBVIOUS
<1>2. Prefix(r, n) = [i \in 1..Chunks |-> IF i \in {j \in 1..Chunks : j <= n} THEN r[i] ELSE Erased]
  BY DEF Prefix
<1> QED BY <1>1, <1>2 DEF Torn

LEMMA ErasedTorn == \A r : ErasedRegion \in Torn(r)
<1> TAKE r
<1>1. ErasedRegion = [i \in 1..Chunks |-> IF i \in {} THEN r[i] ELSE Erased]
  BY DEF ErasedRegion
<1> QED BY <1>1 DEF Torn

LEMMA WholeTorn == \A f \in Images : Whole(f) \in Torn(Whole(f))
<1> TAKE f \in Images
<1>1. Whole(f) = [i \in 1..Chunks |-> IF i \in 1..Chunks THEN Whole(f)[i] ELSE Erased]
  BY DEF Whole
<1> QED BY <1>1 DEF Torn

(* Steps of the loops that fill a region.                                    *)
LEMMA PrefixSteps ==
  ASSUME NEW r \in Regions
  PROVE  /\ Prefix(r, 0) = ErasedRegion
         /\ [ErasedRegion EXCEPT ![1] = r[1]] = Prefix(r, 1)
         /\ \A n \in 0..(Chunks - 1) : [Prefix(r, n) EXCEPT ![n + 1] = r[n + 1]] = Prefix(r, n + 1)
         /\ Prefix(r, Chunks) = r
<1>1. Prefix(r, 0) = ErasedRegion
  BY DEF Prefix, ErasedRegion
<1>2. [ErasedRegion EXCEPT ![1] = r[1]] = Prefix(r, 1)
  BY ChunksAssumption DEF Prefix, ErasedRegion
<1>3. ASSUME NEW n \in 0..(Chunks - 1)
      PROVE  [Prefix(r, n) EXCEPT ![n + 1] = r[n + 1]] = Prefix(r, n + 1)
  <2>1. n + 1 \in 1..Chunks /\ \A i \in 1..Chunks : i <= n + 1 <=> i <= n \/ i = n + 1
    BY ChunksAssumption
  <2>2. \A i \in 1..Chunks : [Prefix(r, n) EXCEPT ![n + 1] = r[n + 1]][i] = Prefix(r, n + 1)[i]
    BY <2>1, ChunksAssumption DEF Prefix
  <2> QED BY <2>2 DEF Prefix
<1>4. Prefix(r, Chunks) = r
  BY ChunksAssumption DEF Prefix, Regions
<1> QED BY <1>1, <1>2, <1>3, <1>4

-----------------------------------------------------------------------------
(* Settings *)

LEMMA LoadedRecord == TypeOK => Loaded \in SettingsRecords
<1> SUFFICES ASSUME TypeOK PROVE Loaded \in SettingsRecords
  OBVIOUS
<1>1. Defaults \in SettingsRecords
  BY DEF Defaults, SettingsRecords, Banks
<1>2. settings # None => settings \in SettingsRecords
  BY DEF TypeOK, Store!TypeOK
<1> QED BY <1>1, <1>2 DEF Loaded

(* No record is begun here; one in progress becomes the settings, or is       *)
(* dropped.                                                                  *)
KeepsRecord == (pc # "save" /\ UNCHANGED <<settings, pending>>) \/ Store!Commit \/ Store!Abandon

LEMMA RecordsKept ==
  ASSUME IInv, KeepsRecord
  PROVE  Store!TypeOK' /\ pending' = None
  BY DEF IInv, TypeOK, Carried, KeepsRecord, Store!TypeOK, Store!Commit, Store!Abandon

-----------------------------------------------------------------------------
(* What most handlers do: they leave the flash alone and go on to a resting   *)
(* place, to a save, or to a flash operation.                                *)

Resting == {"reset", "boot_app", "cli", "app"}

LEMMA GotoIInv ==
  ASSUME IInv, NEW p \in Resting, Goto(p), KeepsRecord, flag' \in BOOLEAN, flag' => p = "reset",
         exec' \in Regions, bank' \in [Banks -> Regions], NoMixture'
  PROVE  IInv'
<1>1. TypeOK'
  BY RecordsKept, ChunksAssumption DEF TypeOK, Goto, Resting, Banks
<1>2. Job'
  BY DEF Job, Goto, Resting
<1>3. FlagConsumed'
  BY DEF FlagConsumed, Goto
<1>4. Carried'
  BY RecordsKept DEF Carried, Goto, Resting
<1> QED BY <1>1, <1>2, <1>3, <1>4 DEF IInv

LEMMA RestIInv ==
  ASSUME IInv, NEW p \in Resting, Goto(p), KeepsRecord, UNCHANGED flash, flag' \in BOOLEAN, flag' => p = "reset"
  PROVE  IInv'
<1>1. exec' \in Regions /\ bank' \in [Banks -> Regions] /\ NoMixture'
  BY DEF IInv, TypeOK, NoMixture, flash
<1> QED BY <1>1, GotoIInv

LEMMA SaveIInv ==
  ASSUME IInv, NEW c \in BootJobs \union AppJobs, NEW b \in Banks, NEW rec \in SettingsRecords,
         Save(c, b, rec), Carries(rec, c, b), UNCHANGED <<flash, flag>>, pc # "reset"
  PROVE  IInv'
<1>1. settings' = settings /\ pending' = rec /\ pc' = "save" /\ ~flag'
  BY DEF Save, Store!Begin, Start, IInv, FlagConsumed
<1>2. TypeOK'
  BY <1>1, ChunksAssumption DEF IInv, TypeOK, Store!TypeOK, Save, Start, flash, BootJobs, AppJobs, Banks
<1>3. Job' /\ FlagConsumed' /\ NoMixture'
  BY <1>1 DEF Job, FlagConsumed, NoMixture, IInv, flash
<1>4. Carried'
  BY <1>1, NoSettingsAssumption DEF Carried, Carries, Loaded, ImageValid, flash, Save, Start
<1> QED BY <1>2, <1>3, <1>4 DEF IInv

LEMMA StartIInv ==
  ASSUME IInv, NEW p \in {"erase", "receive"}, NEW c \in {"boot", "copy", "erase", "flash"},
         NEW b \in Banks, NEW f \in Images \union {None}, Start(p, c, b, f),
         p = "receive" => c = "flash", c = "flash" => f \in Images,
         UNCHANGED <<flash, settings, pending, flag>>, pc \notin {"reset", "save"}
  PROVE  IInv'
<1>1. Store!TypeOK' /\ Carried'
  BY RecordsKept DEF KeepsRecord, Carried, Start
<1>2. TypeOK'
  BY <1>1, ChunksAssumption DEF IInv, TypeOK, Start, flash, BootJobs
<1>3. Job' /\ FlagConsumed' /\ NoMixture'
  BY DEF Job, FlagConsumed, NoMixture, IInv, flash, Start
<1> QED BY <1>1, <1>2, <1>3 DEF IInv

-----------------------------------------------------------------------------
(* The flash operations                                                      *)

(* Regions that hold one file each, whichever it is.                         *)
LEMMA MixtureStep ==
  ASSUME IInv, exec' \in Regions, bank' \in [Banks -> Regions],
         \A r \in {exec', bank'[0], bank'[1]} :
           \/ r \in {exec, bank[0], bank[1]}
           \/ \E q \in {exec, bank[0], bank[1]} : q \in Regions /\ r \in Torn(q)
           \/ \E f \in Images : r \in Torn(Whole(f))
  PROVE  NoMixture'
<1>1. ASSUME NEW r \in {exec', bank'[0], bank'[1]}
      PROVE  \E f \in Images : r \in Torn(Whole(f))
  <2>1. CASE r \in {exec, bank[0], bank[1]}
    BY <2>1 DEF IInv, NoMixture
  <2>2. ASSUME NEW q \in {exec, bank[0], bank[1]}, q \in Regions, r \in Torn(q)
        PROVE  \E f \in Images : r \in Torn(Whole(f))
    <3>1. PICK f \in Images : q \in Torn(Whole(f))
      BY DEF IInv, NoMixture
    <3> QED BY <2>2, <3>1, TornRegion
  <2> QED BY <1>1, <2>1, <2>2
<1> QED BY <1>1 DEF NoMixture, Torn, Whole

(* A torn region is one of the file it held.                                 *)
LEMMA TearEraseIInv ==
  ASSUME IInv, TearErase
  PROVE  exec' \in Regions /\ bank' \in [Banks -> Regions] /\ NoMixture'
<1>0. exec \in Regions /\ bank \in [Banks -> Regions] /\ arg \in Banks /\ bank[0] \in Regions /\ bank[1] \in Regions
  BY DEF IInv, TypeOK, Banks
<1>1. CASE exec' \in Torn(exec) /\ UNCHANGED bank
  <2>1. exec' \in Regions
    BY <1>0, <1>1, TornRegion
  <2> QED BY <1>0, <1>1, <2>1, MixtureStep
<1>2. CASE (\E t \in Torn(bank[arg]) : bank' = [bank EXCEPT ![arg] = t]) /\ UNCHANGED exec
  <2>1. PICK t \in Torn(bank[arg]) : bank' = [bank EXCEPT ![arg] = t]
    BY <1>2
  <2>2. t \in Regions
    BY <1>0, TornRegion
  <2>3. bank' \in [Banks -> Regions] /\ exec' = exec
    BY <1>0, <1>2, <2>1, <2>2
  <2>4. \A b \in Banks : bank'[b] = bank[b] \/ (b = arg /\ bank'[b] \in Torn(bank[b]))
    BY <1>0, <2>1
  <2>5. NoMixture'
    BY <1>0, <2>3, <2>4, MixtureStep DEF Banks
  <2> QED BY <1>0, <2>3, <2>5
<1>3. CASE UNCHANGED flash
  BY <1>0, <1>3 DEF IInv, NoMixture, flash
<1> QED BY <1>1, <1>2, <1>3 DEF TearErase

(* A step inside a flash operation touches neither settings nor BOOT_FLAG.     *)
LEMMA InsideIInv ==
  ASSUME IInv, UNCHANGED <<settings, pending, flag>>, pc \notin {"reset", "save"},
         exec' \in Regions, bank' \in [Banks -> Regions], NoMixture', Job',
         pc' \in {"erase", "copy", "receive"}, UNCHANGED <<cmd, arg, file>>, off' \in 0..Chunks
  PROVE  IInv'
<1>1. Store!TypeOK' /\ Carried'
  BY RecordsKept DEF KeepsRecord, Carried
<1>2. TypeOK' /\ FlagConsumed'
  BY <1>1 DEF IInv, TypeOK, FlagConsumed
<1> QED BY <1>1, <1>2 DEF IInv

LEMMA EraseSectorIInv == IInv /\ EraseSector => IInv'
<1> SUFFICES ASSUME IInv, EraseSector PROVE IInv'
  OBVIOUS
<1>0. /\ exec \in Regions /\ bank \in [Banks -> Regions] /\ arg \in Banks
      /\ bank[0] \in Regions /\ bank[1] \in Regions /\ off \in 0..Chunks
      /\ pc = "erase" /\ off = 0 /\ cmd \in {"boot", "copy", "erase", "flash"} /\ ~flag
      /\ UNCHANGED <<settings, pending, flag>>
  BY DEF IInv, TypeOK, Banks, Job, FlagConsumed, EraseSector
<1>1. CASE cmd \in {"boot", "copy"}
  <2>1. exec' = ErasedRegion /\ pc' = "copy" /\ UNCHANGED <<bank, cmd, arg, file, off>>
    BY <1>0, <1>1 DEF EraseSector, job
  <2>2. exec' \in Regions /\ bank' \in [Banks -> Regions]
    BY <1>0, <2>1, RegionTypes
  <2>3. NoMixture'
    BY <1>0, <2>1, <2>2, MixtureStep, ErasedTorn
  <2>4. exec' = Prefix(bank'[arg'], off')
    BY <1>0, <2>1, PrefixSteps
  <2>5. Job'
    BY <1>1, <2>1, <2>4 DEF Job
  <2> QED BY <1>0, <2>1, <2>2, <2>3, <2>5, InsideIInv
<1>2. CASE cmd = "erase"
  <2>1. bank' = [bank EXCEPT ![arg] = ErasedRegion] /\ Goto("cli") /\ UNCHANGED exec
    BY <1>0, <1>2 DEF EraseSector
  <2>2. exec' \in Regions /\ bank' \in [Banks -> Regions]
    BY <1>0, <2>1, RegionTypes
  <2>3. \A b \in Banks : bank'[b] = bank[b] \/ bank'[b] = ErasedRegion
    BY <1>0, <2>1
  <2>4. NoMixture'
    BY <1>0, <2>1, <2>2, <2>3, MixtureStep, ErasedTorn DEF Banks
  <2>5. "cli" \in Resting
    BY DEF Resting
  <2>6. KeepsRecord
    BY <1>0 DEF KeepsRecord
  <2>7. flag' \in BOOLEAN /\ ~flag'
    BY <1>0 DEF IInv, TypeOK
  <2> QED BY <2>1, <2>2, <2>4, <2>5, <2>6, <2>7, GotoIInv
<1>3. CASE cmd = "flash"
  <2>1. bank' = [bank EXCEPT ![arg] = FirstBlock] /\ pc' = "receive" /\ off' = 1 /\ UNCHANGED <<exec, cmd, arg, file>>
    BY <1>0, <1>3 DEF EraseSector
  <2>2. file \in Images
    BY <1>0, <1>3 DEF IInv, Job
  <2>3. FirstBlock = Prefix(Whole(file), 1)
    <3>1. Whole(file) \in Regions
      BY <2>2, RegionTypes
    <3>2. Whole(file)[1] = file
      BY ChunksAssumption DEF Whole
    <3>3. [ErasedRegion EXCEPT ![1] = Whole(file)[1]] = Prefix(Whole(file), 1)
      BY <3>1, PrefixSteps
    <3> QED BY <3>2, <3>3 DEF FirstBlock
  <2>4. 1 \in 0..Chunks
    BY ChunksAssumption
  <2>5. FirstBlock \in Regions /\ FirstBlock \in Torn(Whole(file))
    BY <2>2, <2>3, <2>4, RegionTypes, PrefixTorn
  <2>6. exec' \in Regions /\ bank' \in [Banks -> Regions]
    BY <1>0, <2>1, <2>5
  <2>7. \A b \in Banks : bank'[b] = bank[b] \/ bank'[b] = FirstBlock
    BY <1>0, <2>1
  <2>8. NoMixture'
    BY <1>0, <2>1, <2>2, <2>5, <2>6, <2>7, MixtureStep DEF Banks
  <2>9. Job'
    BY <1>0, <1>3, <2>1, <2>2, <2>3 DEF Job
  <2> QED BY <1>0, <2>1, <2>4, <2>6, <2>8, <2>9, InsideIInv
<1> QED BY <1>0, <1>1, <1>2, <1>3

LEMMA CopyChunkIInv == IInv /\ CopyChunk => IInv'
<1> SUFFICES ASSUME IInv, CopyChunk PROVE IInv'
  OBVIOUS
<1>1. /\ exec \in Regions /\ bank \in [Banks -> Regions] /\ arg \in Banks /\ bank[arg] \in Regions
      /\ off \in 0..(Chunks - 1) /\ pc = "copy" /\ cmd \in {"boot", "copy"} /\ exec = Prefix(bank[arg], off)
      /\ exec' = [exec EXCEPT ![off + 1] = bank[arg][off + 1]] /\ off' = off + 1
      /\ UNCHANGED <<bank, settings, pending, flag, pc, cmd, arg, file>>
  BY ChunksAssumption DEF IInv, TypeOK, Job, CopyChunk
<1>2. exec' = Prefix(bank[arg], off + 1)
  BY <1>1, PrefixSteps
<1>3. off' \in 0..Chunks
  BY <1>1, ChunksAssumption
<1>4. exec' \in Regions /\ bank' \in [Banks -> Regions] /\ exec' \in Torn(bank[arg])
  BY <1>1, <1>2, <1>3, RegionTypes, PrefixTorn
<1>5. NoMixture'
  BY <1>1, <1>4, MixtureStep DEF Banks
<1>6. Job'
  BY <1>1, <1>2 DEF Job
<1> QED BY <1>1, <1>3, <1>4, <1>5, <1>6, InsideIInv

LEMMA ReceiveBlockIInv == IInv /\ ReceiveBlock => IInv'
<1> SUFFICES ASSUME IInv, ReceiveBlock PROVE IInv'
  OBVIOUS
<1>0. /\ exec \in Regions /\ bank \in [Banks -> Regions] /\ arg \in Banks /\ bank[arg] \in Regions
      /\ off \in 0..(Chunks - 1) /\ pc = "receive" /\ cmd = "flash" /\ file \in Images
      /\ UNCHANGED <<exec, settings, pending, flag, cmd, arg, file>>
  BY ChunksAssumption DEF IInv, TypeOK, Job, ReceiveBlock
<1>1. CASE off = 0
  <2>1. pc' = "erase" /\ UNCHANGED <<bank, off>>
    BY <1>1 DEF ReceiveBlock
  <2>2. exec' \in Regions /\ bank' \in [Banks -> Regions] /\ off' \in 0..Chunks
    BY <1>0, <2>1, ChunksAssumption
  <2>3. NoMixture' /\ Job'
    BY <1>0, <1>1, <2>1 DEF IInv, NoMixture, Job
  <2> QED BY <1>0, <2>1, <2>2, <2>3, InsideIInv
<1>2. CASE off # 0
  <2>1. bank' = [bank EXCEPT ![arg][off + 1] = file] /\ off' = off + 1 /\ pc' = "receive"
    BY <1>0, <1>2 DEF ReceiveBlock
  <2>2. bank[arg] = Prefix(Whole(file), off)
    BY <1>0, <1>2 DEF IInv, Job
  <2>3. off' \in 0..Chunks
    BY <1>0, <2>1, ChunksAssumption
  <2>4. [bank[arg] EXCEPT ![off + 1] = file] = Prefix(Whole(file), off')
    <3>1. Whole(file) \in Regions
      BY <1>0, RegionTypes
    <3>2. Whole(file)[off + 1] = file
      BY <1>0, ChunksAssumption DEF Whole
    <3>3. [Prefix(Whole(file), off) EXCEPT ![off + 1] = Whole(file)[off + 1]] = Prefix(Whole(file), off + 1)
      BY <1>0, <3>1, PrefixSteps
    <3> QED BY <2>1, <2>2, <3>2, <3>3
  <2>5. bank' = [bank EXCEPT ![arg] = Prefix(Whole(file), off')]
    BY <1>0, <2>1, <2>4
  <2>6. Prefix(Whole(file), off') \in Regions /\ Prefix(Whole(file), off') \in Torn(Whole(file))
    BY <1>0, <2>3, RegionTypes, PrefixTorn
  <2>7. exec' \in Regions /\ bank' \in [Banks -> Regions]
    BY <1>0, <2>5, <2>6
  <2>8. \A b \in Banks : bank'[b] = bank[b] \/ bank'[b] = Prefix(Whole(file), off')
    BY <1>0, <2>5
  <2>9. NoMixture'
    BY <1>0, <2>6, <2>7, <2>8, MixtureStep DEF Banks
  <2>10. bank'[arg'] = Prefix(Whole(file'), off')
    BY <1>0, <2>5
  <2>11. Job'
    BY <1>0, <2>1, <2>10 DEF Job
  <2> QED BY <1>0, <2>1, <2>3, <2>7, <2>9, <2>11, InsideIInv
<1> QED BY <1>1, <1>2

-----------------------------------------------------------------------------
(* The records that are saved                                                *)

(* A save that assigns anything but a CRC.                                   *)
LEMMA FieldRecords ==
  ASSUME TypeOK, NEW b \in Banks, NEW m \in {"app", "bl"}
  PROVE  \A rec \in {Loaded, [Loaded EXCEPT !.active = b], [Loaded EXCEPT !.loaded = b],
                     [Loaded EXCEPT !.mode = m]} :
           rec \in SettingsRecords /\ \A c, d : Carries(rec, c, d)
<1>1. Loaded \in SettingsRecords
  BY LoadedRecord
<1>2. \A rec \in {Loaded, [Loaded EXCEPT !.active = b], [Loaded EXCEPT !.loaded = b],
                  [Loaded EXCEPT !.mode = m]} :
        rec \in SettingsRecords /\ rec.crc = Loaded.crc
  BY <1>1 DEF SettingsRecords
<1> QED BY <1>2 DEF Carries

(* cmd_flash: the CRC of the region as it is, for that bank only.            *)
LEMMA FlashRecord ==
  ASSUME TypeOK, ImageValid(bank[arg])
  PROVE  LET rec == [Loaded EXCEPT !.crc[arg] = bank[arg]]
         IN rec \in SettingsRecords /\ Carries(rec, "flash", arg)
<1> DEFINE rec == [Loaded EXCEPT !.crc[arg] = bank[arg]]
<1>1. Loaded \in SettingsRecords /\ bank[arg] \in Regions /\ arg \in Banks
  BY LoadedRecord DEF TypeOK
<1>2. rec.crc = [Loaded.crc EXCEPT ![arg] = bank[arg]]
  BY <1>1 DEF SettingsRecords
<1>3. rec \in SettingsRecords
  BY <1>1 DEF SettingsRecords
<1>4. \A d \in Banks : rec.crc[d] = IF d = arg THEN bank[arg] ELSE Loaded.crc[d]
  BY <1>1, <1>2 DEF SettingsRecords
<1>5. Carries(rec, "flash", arg)
  BY <1>4 DEF Carries
<1> QED BY <1>3, <1>5

-----------------------------------------------------------------------------
(* The handlers                                                              *)

LEMMA BootStepIInv == IInv /\ BootStep => IInv'
<1> SUFFICES ASSUME IInv, BootStep PROVE IInv'
  OBVIOUS
<1>0. Active \in Banks /\ flag \in BOOLEAN /\ (flag => pc = "reset")
  BY LoadedRecord DEF IInv, TypeOK, FlagConsumed, Active, SettingsRecords
<1>1. CASE Main
  <2>1. flag' = FALSE /\ KeepsRecord /\ UNCHANGED flash
    BY <1>1 DEF Main, KeepsRecord
  <2>2. PICK p \in Resting : Goto(p)
    BY <1>1 DEF Main, Resting
  <2> QED BY <2>1, <2>2, RestIInv
<1>2. CASE BootJump \/ BootNothing
  <2>1. UNCHANGED flag /\ KeepsRecord /\ UNCHANGED flash /\ pc = "boot_app"
    BY <1>2 DEF BootJump, BootNothing, KeepsRecord
  <2>2. PICK p \in Resting : Goto(p)
    BY <1>2 DEF BootJump, BootNothing, Resting
  <2>3. flag' \in BOOLEAN /\ ~flag'
    BY <1>0, <2>1
  <2> QED BY <2>1, <2>2, <2>3, RestIInv
<1>3. CASE BootLoad
  BY <1>0, <1>3, StartIInv DEF BootLoad
<1> QED BY <1>1, <1>2, <1>3 DEF BootStep

LEMMA CopyDoneIInv == IInv /\ CopyDone => IInv'
<1> SUFFICES ASSUME IInv, CopyDone PROVE IInv'
  OBVIOUS
<1>1. arg \in Banks /\ cmd \in BootJobs \union AppJobs /\ pc # "reset"
  BY DEF IInv, TypeOK, Job, CopyDone, BootJobs, AppJobs
<1>2. [Loaded EXCEPT !.loaded = arg] \in SettingsRecords /\ Carries([Loaded EXCEPT !.loaded = arg], cmd, arg)
  BY <1>1, FieldRecords DEF IInv
<1> QED BY <1>1, <1>2, SaveIInv DEF CopyDone

LEMMA ReceiveOkIInv == IInv /\ ReceiveOk => IInv'
<1> SUFFICES ASSUME IInv, ReceiveOk PROVE IInv'
  OBVIOUS
<1>0. arg \in Banks /\ flag \in BOOLEAN /\ ~flag /\ pc = "receive" /\ UNCHANGED <<flash, flag>>
  BY DEF IInv, TypeOK, FlagConsumed, ReceiveOk
<1>1. CASE ImageValid(bank[arg])
  <2> DEFINE rec == [Loaded EXCEPT !.crc[arg] = bank[arg]]
  <2>1. rec \in SettingsRecords /\ Carries(rec, "flash", arg)
    BY <1>1, FlashRecord DEF IInv
  <2>2. Save("flash", arg, rec)
    BY <1>1 DEF ReceiveOk, RegionCrc
  <2>3. "flash" \in BootJobs \union AppJobs
    BY DEF BootJobs
  <2> HIDE DEF rec
  <2> QED BY <1>0, <2>1, <2>2, <2>3, SaveIInv
<1>2. CASE ~ImageValid(bank[arg])
  <2>1. Goto("cli") /\ KeepsRecord
    BY <1>2 DEF ReceiveOk, KeepsRecord
  <2>2. "cli" \in Resting
    BY DEF Resting
  <2>3. flag' \in BOOLEAN /\ ~flag'
    BY <1>0
  <2> QED BY <1>0, <2>1, <2>2, <2>3, RestIInv
<1> QED BY <1>1, <1>2

(* The ends of a save and of a transfer.                                     *)
LEMMA ReturnsIInv == IInv /\ (SaveOk \/ SaveFails \/ ReceiveFails) => IInv'
<1> SUFFICES ASSUME IInv, SaveOk \/ SaveFails \/ ReceiveFails PROVE IInv'
  OBVIOUS
<1>1. UNCHANGED <<flash, flag>> /\ pc # "reset"
  BY DEF SaveOk, SaveFails, ReceiveFails
<1>f. flag' \in BOOLEAN /\ ~flag'
  BY <1>1 DEF IInv, TypeOK, FlagConsumed
<1>k. KeepsRecord
  BY DEF SaveOk, SaveFails, ReceiveFails, KeepsRecord
<1>2. SaveReturns(TRUE) \in Resting /\ SaveReturns(FALSE) \in Resting
  BY DEF SaveReturns, AfterBootSave, Resting
<1>3. "cli" \in Resting
  BY DEF Resting
<1>4. PICK p \in Resting : Goto(p)
  BY <1>2, <1>3 DEF SaveOk, SaveFails, ReceiveFails
<1> QED BY <1>1, <1>f, <1>k, <1>4, RestIInv

LEMMA FaultIInv == IInv /\ (FlashFails \/ PowerLoss) => IInv'
<1> SUFFICES ASSUME IInv, FlashFails \/ PowerLoss PROVE IInv'
  OBVIOUS
<1>1. exec' \in Regions /\ bank' \in [Banks -> Regions] /\ NoMixture'
  BY TearEraseIInv DEF FlashFails, PowerLoss
<1>2. CASE FlashFails
  <2>1. flag' \in BOOLEAN /\ ~flag' /\ KeepsRecord /\ Goto("cli")
    BY <1>2 DEF IInv, TypeOK, FlagConsumed, FlashFails, KeepsRecord
  <2>2. "cli" \in Resting
    BY DEF Resting
  <2> QED BY <1>1, <2>1, <2>2, GotoIInv
<1>3. CASE PowerLoss
  <2>1. flag' = FALSE /\ KeepsRecord /\ Goto("reset")
    BY <1>3 DEF PowerLoss, KeepsRecord, IInv, Carried
  <2>2. "reset" \in Resting
    BY DEF Resting
  <2> QED BY <1>1, <2>1, <2>2, GotoIInv
<1> QED BY <1>2, <1>3

LEMMA CliIInv == IInv /\ Cli => IInv'
<1> SUFFICES ASSUME IInv, Cli PROVE IInv'
  OBVIOUS
<1>0. /\ pc = "cli" /\ UNCHANGED <<flash, flag>> /\ flag' \in BOOLEAN /\ ~flag'
      /\ TypeOK /\ Active \in Banks /\ 1 - Active \in Banks
  BY LoadedRecord DEF IInv, TypeOK, FlagConsumed, Active, SettingsRecords, Banks, CliCommand,
     Cli, CmdBank, CmdBootMode, CmdErase, CmdFlash, CmdCopy, CmdBoot, CmdRollback, CmdReset
<1>1. ASSUME NEW n \in Banks, CmdBank(n) PROVE IInv'
  <2>1. [Loaded EXCEPT !.active = n] \in SettingsRecords /\ Carries([Loaded EXCEPT !.active = n], "bank", n)
    BY <1>0, FieldRecords
  <2>2. "bank" \in BootJobs \union AppJobs
    BY DEF BootJobs
  <2> QED BY <1>0, <1>1, <2>1, <2>2, SaveIInv DEF CmdBank
<1>2. ASSUME NEW m \in {"app", "bl"}, CmdBootMode(m) PROVE IInv'
  <2>1. [Loaded EXCEPT !.mode = m] \in SettingsRecords /\ Carries([Loaded EXCEPT !.mode = m], "boot.mode", 0)
    BY <1>0, FieldRecords
  <2>2. "boot.mode" \in BootJobs \union AppJobs /\ 0 \in Banks
    BY DEF BootJobs, Banks
  <2> QED BY <1>0, <1>2, <2>1, <2>2, SaveIInv DEF CmdBootMode
<1>3. CASE CmdRollback
  <2>1. /\ [Loaded EXCEPT !.active = 1 - Active] \in SettingsRecords
        /\ Carries([Loaded EXCEPT !.active = 1 - Active], "rollback", 1 - Active)
    BY <1>0, FieldRecords
  <2>2. "rollback" \in BootJobs \union AppJobs
    BY DEF BootJobs
  <2> QED BY <1>0, <1>3, <2>1, <2>2, SaveIInv DEF CmdRollback
<1>4. ASSUME NEW n \in Banks, CmdErase(n) PROVE IInv'
  BY <1>0, <1>4, StartIInv DEF CmdErase
<1>5. ASSUME NEW n \in Banks, NEW f \in Images, CmdFlash(n, f) PROVE IInv'
  BY <1>0, <1>5, StartIInv DEF CmdFlash
<1>6. CASE CmdCopy
  BY <1>0, <1>6, StartIInv DEF CmdCopy
<1>7. CASE CmdBoot \/ CmdReset
  <2>1. KeepsRecord
    BY <1>0, <1>7 DEF CmdBoot, CmdReset, KeepsRecord
  <2>2. PICK p \in Resting : Goto(p)
    BY <1>7 DEF CmdBoot, CmdReset, Resting
  <2> QED BY <1>0, <2>1, <2>2, RestIInv
<1> QED BY <1>1, <1>2, <1>3, <1>4, <1>5, <1>6, <1>7 DEF Cli

LEMMA AppIInv == IInv /\ App => IInv'
<1> SUFFICES ASSUME IInv, App PROVE IInv'
  OBVIOUS
<1>0. /\ pc = "app" /\ UNCHANGED flash /\ flag \in BOOLEAN /\ ~flag
      /\ TypeOK /\ Active \in Banks /\ 1 - Active \in Banks /\ 0 \in Banks
  BY LoadedRecord DEF IInv, TypeOK, FlagConsumed, Active, SettingsRecords, Banks, AppCommand,
     App, AppSave, AppBank, AppRollback, AppUpdate, AppReset
<1>j. {"app.save", "app.bank", "app.rollback"} \subseteq BootJobs \union AppJobs
  BY DEF AppJobs
<1>1. CASE AppSave
  <2>1. Loaded \in SettingsRecords /\ Carries(Loaded, "app.save", 0)
    BY <1>0, FieldRecords
  <2> QED BY <1>0, <1>1, <1>j, <2>1, SaveIInv DEF AppSave
<1>2. ASSUME NEW n \in Banks, AppBank(n) PROVE IInv'
  <2>1. [Loaded EXCEPT !.active = n] \in SettingsRecords /\ Carries([Loaded EXCEPT !.active = n], "app.bank", n)
    BY <1>0, FieldRecords
  <2> QED BY <1>0, <1>2, <1>j, <2>1, SaveIInv DEF AppBank
<1>3. CASE AppRollback
  <2>1. /\ [Loaded EXCEPT !.active = 1 - Active] \in SettingsRecords
        /\ Carries([Loaded EXCEPT !.active = 1 - Active], "app.rollback", 1 - Active)
    BY <1>0, FieldRecords
  <2> QED BY <1>0, <1>3, <1>j, <2>1, SaveIInv DEF AppRollback
<1>4. CASE AppUpdate \/ AppReset
  <2>1. KeepsRecord /\ Goto("reset") /\ flag' \in BOOLEAN
    BY <1>0, <1>4 DEF AppUpdate, AppReset, KeepsRecord
  <2>2. "reset" \in Resting
    BY DEF Resting
  <2> QED BY <1>0, <2>1, <2>2, RestIInv
<1> QED BY <1>1, <1>2, <1>3, <1>4 DEF App

-----------------------------------------------------------------------------
(* The theorems *)

LEMMA InitIInv == Init => IInv
<1> SUFFICES ASSUME Init PROVE IInv
  OBVIOUS
<1>1. PICK f \in Bootable : exec = Whole(f)
  BY DEF Init
<1>2. f \in Images
  BY ImagesAssumption
<1>3. TypeOK
  <2>1. exec \in Regions /\ bank \in [Banks -> Regions]
    BY <1>1, <1>2, RegionTypes DEF Init
  <2>2. Store!TypeOK /\ flag \in BOOLEAN
    BY DEF Init, Store!TypeOK
  <2>3. pc = "reset" /\ cmd = "idle" /\ arg \in Banks /\ file = None /\ off \in 0..Chunks
    BY ChunksAssumption DEF Init, Banks
  <2> QED BY <2>1, <2>2, <2>3 DEF TypeOK
<1>4. NoMixture
  BY <1>1, <1>2, WholeTorn, ErasedTorn DEF Init, NoMixture, Banks
<1>5. Job /\ FlagConsumed
  BY DEF Init, Job, FlagConsumed
<1>6. Carried
  BY DEF Init, Carried
<1> QED BY <1>3, <1>4, <1>5, <1>6 DEF IInv

LEMMA NextIInv == IInv /\ [Next]_vars => IInv'
<1> SUFFICES ASSUME IInv, [Next]_vars PROVE IInv'
  OBVIOUS
<1>1. CASE BootStep
  BY <1>1, BootStepIInv
<1>2. CASE FlashStep
  BY <1>2, EraseSectorIInv, CopyChunkIInv, CopyDoneIInv, ReceiveBlockIInv, ReceiveOkIInv, ReturnsIInv
     DEF FlashStep, ReceiveDone
<1>3. CASE Cli
  BY <1>3, CliIInv
<1>4. CASE App
  BY <1>4, AppIInv
<1>5. CASE ReceiveFails \/ SaveFails \/ ReceiveShort
  BY <1>5, ReturnsIInv, ReceiveOkIInv DEF ReceiveShort
<1>6. CASE FlashFails \/ PowerLoss
  BY <1>6, FaultIInv
<1>7. CASE UNCHANGED vars
  BY <1>7 DEF vars, IInv, TypeOK, Store!TypeOK, Job, NoMixture, Carried, Carries, ImageValid, Loaded, FlagConsumed
<1> QED BY <1>1, <1>2, <1>3, <1>4, <1>5, <1>6, <1>7 DEF Next, SoundNext

LEMMA Invariant == Spec => []IInv
  BY InitIInv, NextIInv, PTL DEF Spec

(* Types and bounds hold whatever is sent and whatever fails: no operation    *)
(* leaves its region (flash.c) and every save is of a settings record.        *)
THEOREM TypeCorrect == Spec => []TypeOK
<1>1. IInv => TypeOK
  BY DEF IInv
<1> QED BY <1>1, Invariant, PTL

(* A region never mixes two files: every session erases first (flash.c), and   *)
(* the bank a copy reads does not change under it (bl_load_bank).              *)
THEOREM Unmixed == Spec => []NoMixture
<1>1. IInv => NoMixture
  BY DEF IInv
<1> QED BY <1>1, Invariant, PTL

(* The settings change only as a save is committed.                          *)
LEMMA SettingsStep ==
  ASSUME [Next]_vars, settings' # settings
  PROVE  pending # None /\ Store!Commit
<1>1. SaveOk \/ SaveFails \/ PowerLoss
  <2>1. ~BootStep
    BY DEF BootStep, Main, BootJump, BootLoad, BootNothing
  <2>2. ~(EraseSector \/ CopyChunk \/ CopyDone \/ ReceiveBlock \/ ReceiveOk \/ ReceiveFails \/ FlashFails)
    BY DEF EraseSector, CopyChunk, CopyDone, ReceiveBlock, ReceiveOk, ReceiveFails, FlashFails, Save, Store!Begin
  <2>3. ~Cli
    BY DEF Cli, CmdBank, CmdBootMode, CmdErase, CmdFlash, CmdCopy, CmdBoot, CmdRollback, CmdReset, Save, Store!Begin
  <2>4. ~App
    BY DEF App, AppSave, AppBank, AppRollback, AppUpdate, AppReset, Save, Store!Begin
  <2> QED BY <2>1, <2>2, <2>3, <2>4 DEF Next, SoundNext, FlashStep, ReceiveDone, ReceiveShort, vars
<1> QED BY <1>1 DEF SaveOk, SaveFails, PowerLoss, Store!Commit, Store!Abandon

LEMMA CrcStep ==
  ASSUME IInv, [Next]_vars, NEW b \in Banks, Loaded'.crc[b] # Loaded.crc[b]
  PROVE  /\ pc = "save" /\ cmd = "flash" /\ arg = b
         /\ ImageValid(bank[b]) /\ Loaded'.crc[b] = bank[b]
<1>1. settings' # settings
  BY DEF Loaded
<1>2. pending # None /\ settings' = pending
  BY <1>1, SettingsStep DEF Store!Commit
<1>3. pc = "save" /\ Carries(pending, cmd, arg)
  BY <1>2 DEF IInv, Carried
<1>4. Loaded' = pending
  BY <1>2 DEF Loaded
<1> QED BY <1>3, <1>4 DEF Carries

(* A CRC recorded by cmd_flash is that of the bank as it then is, however the *)
(* transfer went, and no other save of either program, complete or cut,      *)
(* changes it.                                                               *)
THEOREM CrcOfTheBank == Spec => CrcOldOrNew
<1>1. IInv /\ [Next]_vars =>
        [\A b \in Banks : Loaded'.crc[b] # Loaded.crc[b] =>
           /\ pc = "save" /\ cmd = "flash" /\ arg = b
           /\ ImageValid(bank[b]) /\ Loaded'.crc[b] = bank[b]]_vars
  BY CrcStep
<1> QED BY <1>1, Invariant, PTL DEF Spec, CrcOldOrNew

(* What the record would say if ymodem_receive compared what it wrote with    *)
(* the size of the file.                                                     *)
RecordedMeansWhole ==
  \A b \in Banks : Loaded.crc[b] # None => \E f \in Bootable : Loaded.crc[b] = Whole(f)

FlashedWhole == pc = "save" /\ cmd = "flash" => \E f \in Bootable : bank[arg] = Whole(f)

(* A flash is saved only as its transfer ends, here with the whole file.      *)
LEMMA FlashedWholeStep ==
  ASSUME IInv, FlashedWhole, [Next]_vars, ~ReceiveShort
  PROVE  FlashedWhole'
<1> SUFFICES ASSUME pc' = "save", cmd' = "flash" PROVE (\E f \in Bootable : bank[arg] = Whole(f))'
  BY DEF FlashedWhole
<1>1. ReceiveDone \/ UNCHANGED vars
  <2>1. ~BootStep
    BY DEF BootStep, Main, BootJump, BootLoad, BootNothing, Goto, Start
  <2>2. ~(EraseSector \/ CopyChunk \/ CopyDone \/ ReceiveBlock \/ ReceiveFails)
    BY DEF EraseSector, CopyChunk, CopyDone, ReceiveBlock, ReceiveFails, Save, Start, Goto, IInv, Job
  <2>3. ~(SaveOk \/ SaveFails \/ FlashFails \/ PowerLoss)
    BY DEF SaveOk, SaveFails, FlashFails, PowerLoss, Goto, SaveReturns, AfterBootSave
  <2>4. ~Cli
    BY DEF Cli, CmdBank, CmdBootMode, CmdErase, CmdFlash, CmdCopy, CmdBoot, CmdRollback, CmdReset, Save, Start, Goto
  <2>5. ~App
    BY DEF App, AppSave, AppBank, AppRollback, AppUpdate, AppReset, Save, Start, Goto
  <2> QED BY <2>1, <2>2, <2>3, <2>4, <2>5 DEF Next, SoundNext, FlashStep
<1>2. CASE ReceiveDone
  <2>1. /\ pc = "receive" /\ off = Chunks /\ ImageValid(bank[arg])
        /\ UNCHANGED bank /\ arg' = arg
    BY <1>2 DEF ReceiveDone, ReceiveOk, Save, Start, Goto, flash
  <2>2. file \in Images /\ bank[arg] = Prefix(Whole(file), Chunks)
    BY <2>1, ChunksAssumption DEF IInv, Job
  <2>3. bank[arg] = Whole(file)
    BY <2>2, RegionTypes, PrefixSteps
  <2>4. file \in Bootable
    BY <2>1, <2>3, ChunksAssumption DEF ImageValid, Whole
  <2> QED BY <2>1, <2>3, <2>4
<1>3. CASE UNCHANGED vars
  BY <1>3 DEF vars, FlashedWhole
<1> QED BY <1>1, <1>2, <1>3

(* Where no transfer ends early, a recorded CRC is that of a whole bootable   *)
(* image: that every YM_OK follows a whole file is what this needs of        *)
(* ymodem_receive, and what it does not check.                               *)
THEOREM CrcOfWhole == Spec /\ [][~ReceiveShort]_vars => []RecordedMeansWhole
<1> DEFINE W == RecordedMeansWhole /\ FlashedWhole
<1>1. Init => W
  BY DEF Init, RecordedMeansWhole, FlashedWhole, Loaded, Defaults
<1>2. IInv /\ W /\ [Next]_vars /\ [~ReceiveShort]_vars => W'
  <2> SUFFICES ASSUME IInv, W, [Next]_vars, ~ReceiveShort \/ UNCHANGED vars PROVE W'
    OBVIOUS
  <2>1. FlashedWhole'
    <3>1. CASE UNCHANGED vars
      BY <3>1 DEF vars, FlashedWhole
    <3>2. CASE ~ReceiveShort
      BY <3>2, FlashedWholeStep
    <3> QED BY <3>1, <3>2
  <2>2. ASSUME NEW b \in Banks, Loaded'.crc[b] # None PROVE \E f \in Bootable : Loaded'.crc[b] = Whole(f)
    BY <2>2, CrcStep DEF RecordedMeansWhole, FlashedWhole
  <2> QED BY <2>1, <2>2 DEF RecordedMeansWhole, Whole
<1>3. W => RecordedMeansWhole
  OBVIOUS
<1> HIDE DEF W
<1> QED BY <1>1, <1>2, <1>3, Invariant, PTL DEF Spec

(* BOOT_FLAG is consumed by the next pass through main.                       *)
THEOREM OneShot == Spec => []FlagConsumed
<1>1. IInv => FlagConsumed
  BY DEF IInv
<1> QED BY <1>1, Invariant, PTL

-----------------------------------------------------------------------------
(* The invariant *)

(* Exec is not what was last run: a copy of boot is under way.               *)
Damaged == exec # running
RunsOn == running' = IF AppStarts THEN exec' ELSE running

Crc(b) == Loaded.crc[b]
Selecting == {"bank", "app.bank"}

(* A record is only ever pending while it is saved, and the mode stays app:   *)
(* the tool never sends boot.mode.                                           *)
Saves ==
  /\ pending # None <=> pc = "save"
  /\ Loaded.mode = "app"

(* The active bank is trusted on its vectors alone only while it is erased.  *)
Recorded == Crc(Active) = None => Active = 0 /\ ~ImageValid(bank[Active])

(* What each job of the device knows of the bank it is about.                *)
Works ==
  /\ pc \in {"erase", "copy"} => cmd \in {"boot", "flash"}
  /\ pc = "copy" \/ (pc = "erase" /\ cmd = "boot") => cmd = "boot" /\ arg = Active /\ NeedCopy
  /\ pc \in {"erase", "receive"} /\ cmd = "flash" => arg # Active \/ Crc(arg) # None
  /\ pc = "save" =>
       \/ /\ cmd = "boot" /\ arg = Active /\ NeedCopy /\ exec = bank[Active]
          /\ pending = [Loaded EXCEPT !.loaded = arg]
       \/ cmd = "flash" /\ bank[arg] # None /\ pending = [Loaded EXCEPT !.crc[arg] = bank[arg]]
       \/ cmd \in Selecting /\ Crc(arg) # None /\ pending = [Loaded EXCEPT !.active = arg]

(* What the tool knows of the bank it chose.                                 *)
Knows ==
  /\ host \in {"info", "flash", "flashing"} => ~(pc = "save" /\ cmd \in Selecting)
  /\ host = "flash" => target # Active \/ target = 1
  /\ host = "flashing" /\ cmd = "flash" => arg = target
  /\ host \in {"bank", "banking"} => Crc(target) # None

HasFile == host \in {"update", "info", "flash"} => newfile \in Images

(* The active bank is what the flash that recorded its CRC left.             *)
Copyable == settings # None /\ BankTrusted(Active) /\ bank[Active] = Crc(Active)

(* main cannot leave the boot before the copy is made again, or is complete.  *)
Booting ==
  /\ ~flag
  /\ \/ pc \in {"reset", "boot_app", "erase", "copy"} /\ cmd \in {"idle", "boot"}
     \/ pc = "save" /\ cmd = "boot"

Recopied == Damaged => Booting /\ Copyable /\ (NeedCopy \/ exec = bank[Active])

Runs == ImageValid(running)

(* While the tool is not misled and nothing new is selected, there is         *)
(* nothing to copy, and the bank that is flashed is not the active one.      *)
OldStays ==
  ~misled =>
    /\ ~selected => exec = running /\ ~NeedCopy
    /\ host = "flash" => target # Active
    /\ cmd = "flash" => arg # Active

HInv ==
  /\ IInv /\ HostTypeOK /\ HasFile /\ Runs
  /\ Saves /\ Recorded /\ Works /\ Knows /\ Recopied /\ OldStays

(* The part about the device, and the part about the tool.                   *)
Dev == Saves /\ Recorded /\ Works /\ Recopied
Tool == Knows /\ OldStays

-----------------------------------------------------------------------------
(* Facts about one state                                                     *)

LEMMA Ranges ==
  ASSUME HInv
  PROVE  /\ Loaded \in SettingsRecords /\ Active \in Banks /\ arg \in Banks /\ target \in Banks
         /\ Loaded # None /\ flag \in BOOLEAN
         /\ (settings = None => Loaded = Defaults /\ Crc(Active) = None) /\ (settings # None => settings = Loaded)
  BY LoadedRecord, NoSettingsAssumption
     DEF HInv, HostTypeOK, TypeOK, Active, Loaded, SettingsRecords, Defaults, Crc, Banks

(* A copy is only made from a bank whose CRC is recorded, and one that is     *)
(* needed for want of an application is needed for the settings too.         *)
LEMMA CopyOfRecorded ==
  ASSUME HInv, NeedCopy
  PROVE  Copyable
  BY DEF HInv, NeedCopy, BankTrusted, Recorded, Crc, Copyable

LEMMA InvalidIsCopied ==
  ASSUME HInv, ~ImageValid(exec) PROVE NeedCopy
  BY DEF HInv, Runs, Recopied, Damaged, Copyable, BankTrusted, ImageValid

LEMMA StaysSound ==
  ASSUME RunsOn, AppStarts \/ (~Damaged /\ exec' = exec)
  PROVE  ~Damaged'
  BY DEF RunsOn, Damaged

(* Nothing about the settings and the active bank changes.                   *)
LEMMA Same ==
  ASSUME UNCHANGED settings, bank'[Active] = bank[Active]
  PROVE  /\ Loaded' = Loaded /\ Active' = Active /\ \A b : Crc(b)' = Crc(b)
         /\ NeedCopy' = NeedCopy /\ Recorded' = Recorded /\ Copyable' = Copyable
<1>1. Loaded' = Loaded /\ Active' = Active
  BY DEF Loaded, Active
<1>2. BankTrusted(Active)' = BankTrusted(Active)
  BY <1>1 DEF BankTrusted, ImageValid
<1> QED BY <1>1, <1>2 DEF NeedCopy, Recorded, Crc, ImageValid, Copyable

-----------------------------------------------------------------------------
(* The device                                                                *)

(* A handler ends, or the boot goes on, and the flash stays.                 *)
LEMMA RestDev ==
  ASSUME HInv, RunsOn, NEW p \in Resting, Goto(p), UNCHANGED <<flash, settings, pending>>, pc # "save",
         Damaged => AppStarts \/ (p \in {"reset", "boot_app"} /\ ~flag')
  PROVE  Dev'
<1>1. pc' = p /\ cmd' = "idle" /\ p # "save" /\ p \notin {"erase", "copy", "receive"} /\ UNCHANGED <<exec, bank>>
  BY DEF Goto, Resting, flash
<1>2. Saves'
  BY <1>1, Same DEF HInv, Saves
<1>3. Recorded' /\ NeedCopy' = NeedCopy /\ Copyable' = Copyable /\ Active' = Active
  BY <1>1, Same DEF HInv
<1>4. Works'
  BY <1>1 DEF Works
<1>5. Damaged' => Damaged /\ ~AppStarts
  BY <1>1, StaysSound
<1>6. Recopied'
  BY <1>1, <1>3, <1>5 DEF HInv, Recopied, Booting
<1> QED BY <1>2, <1>3, <1>4, <1>6 DEF Dev

LEMMA BootDev == HInv /\ RunsOn /\ BootStep => Dev'
<1> SUFFICES ASSUME HInv, RunsOn, BootStep PROVE Dev'
  OBVIOUS
<1>0. Damaged => ~flag /\ BankTrusted(Active)
  BY DEF HInv, Recopied, Booting, Copyable
<1>1. CASE Main
  <2>1. \E p \in Resting : Goto(p) /\ (Damaged => p = "boot_app")
    BY <1>0, <1>1 DEF Main, Resting, HInv, Saves
  <2>2. flag' = FALSE /\ UNCHANGED <<flash, settings, pending>> /\ pc # "save"
    BY <1>1 DEF Main
  <2> QED BY <2>1, <2>2, RestDev
<1>2. CASE BootJump \/ BootNothing
  <2>1. Damaged => AppStarts
    <3>1. CASE BootJump
      BY <3>1 DEF BootJump, Goto, AppStarts
    <3>2. CASE BootNothing
      BY <1>0, <3>2 DEF BootNothing
    <3> QED BY <1>2, <3>1, <3>2
  <2>2. /\ \E p \in Resting : Goto(p)
        /\ UNCHANGED <<flash, settings, pending>> /\ pc # "save"
    BY <1>2 DEF BootJump, BootNothing, Resting
  <2> QED BY <2>1, <2>2, RestDev
<1>3. CASE BootLoad
  <2>1. NeedCopy
    BY <1>3, InvalidIsCopied DEF BootLoad
  <2>2. /\ pc' = "erase" /\ cmd' = "boot" /\ arg' = Active /\ pc # "save"
        /\ UNCHANGED <<exec, bank, settings, pending, flag>>
    BY <1>3 DEF BootLoad, Start, flash
  <2>3. NeedCopy' /\ Copyable' /\ Active' = Active /\ Recorded' /\ Loaded' = Loaded
    BY <2>1, <2>2, Same, CopyOfRecorded DEF HInv
  <2>4. ~flag'
    BY <1>3, <2>2 DEF BootLoad, HInv, IInv, FlagConsumed
  <2> QED BY <2>2, <2>3, <2>4 DEF HInv, Dev, Saves, Works, Recopied, Booting
<1> QED BY <1>1, <1>2, <1>3 DEF BootStep

(* An erase or a block of flash, whole or torn, is not of the active bank     *)
(* while that has no recorded CRC; one of boot is of Exec.                   *)
LEMMA EraseDev == HInv /\ RunsOn /\ EraseSector => Dev'
<1> SUFFICES ASSUME HInv, RunsOn, EraseSector PROVE Dev'
  OBVIOUS
<1>0. pc = "erase" /\ cmd \in {"boot", "flash"} /\ ~flag /\ UNCHANGED <<settings, pending, flag>>
  BY DEF EraseSector, HInv, Works, IInv, FlagConsumed
<1>1. CASE cmd = "boot"
  <2>1. arg = Active /\ NeedCopy /\ pc' = "copy" /\ UNCHANGED <<bank, cmd, arg>>
    BY <1>0, <1>1 DEF EraseSector, HInv, Works, job
  <2>2. NeedCopy' /\ Copyable' /\ Active' = Active /\ Recorded' /\ Loaded' = Loaded
    BY <1>0, <2>1, Same, CopyOfRecorded DEF HInv
  <2> QED BY <1>0, <1>1, <2>1, <2>2 DEF HInv, Dev, Saves, Works, Recopied, Booting
<1>2. CASE cmd = "flash"
  <2>1. pc' = "receive" /\ UNCHANGED <<exec, cmd, arg>> /\ bank' = [bank EXCEPT ![arg] = FirstBlock]
    BY <1>0, <1>2 DEF EraseSector
  <2>2. ~Damaged'
    BY <1>0, <1>2, <2>1, StaysSound DEF HInv, Recopied, Booting
  <2>3. Loaded' = Loaded /\ Active' = Active
    BY <1>0 DEF Loaded, Active
  <2>4. arg # Active \/ Crc(arg) # None
    BY <1>0, <1>2 DEF HInv, Works
  <2>5. Crc(Active) = None => bank'[Active] = bank[Active]
    BY <2>1, <2>4, Ranges DEF HInv, IInv, TypeOK
  <2>6. Recorded'
    BY <2>3, <2>5 DEF HInv, Recorded, Crc, ImageValid
  <2>7. Works' /\ Saves'
    BY <1>0, <1>2, <2>1, <2>3, <2>4 DEF HInv, Works, Saves, Crc
  <2> QED BY <2>2, <2>6, <2>7 DEF Dev, Recopied
<1> QED BY <1>0, <1>1, <1>2

LEMMA CopyChunkDev == HInv /\ CopyChunk => Dev'
<1> SUFFICES ASSUME HInv, CopyChunk PROVE Dev'
  OBVIOUS
<1>1. pc = "copy" /\ ~flag /\ UNCHANGED <<bank, settings, pending, flag, pc, cmd, arg>>
  BY DEF CopyChunk, HInv, IInv, FlagConsumed
<1>2. cmd = "boot" /\ arg = Active /\ NeedCopy
  BY <1>1 DEF HInv, Works
<1>3. NeedCopy' /\ Copyable' /\ Active' = Active /\ Recorded' /\ Loaded' = Loaded
  BY <1>1, <1>2, Same, CopyOfRecorded DEF HInv
<1> QED BY <1>1, <1>2, <1>3 DEF HInv, Dev, Saves, Works, Recopied, Booting

LEMMA CopyDoneDev == HInv /\ CopyDone => Dev'
<1> SUFFICES ASSUME HInv, CopyDone PROVE Dev'
  OBVIOUS
<1> DEFINE rec == [Loaded EXCEPT !.loaded = arg]
<1>1. pc = "copy" /\ off = Chunks /\ UNCHANGED <<exec, bank, flag, settings>>
  BY DEF CopyDone, CopyComplete, Save, Store!Begin, flash
<1>2. cmd = "boot" /\ arg = Active /\ NeedCopy
  BY <1>1 DEF HInv, Works
<1>3. pending' = rec /\ pc' = "save" /\ cmd' = cmd /\ arg' = arg
  BY DEF CopyDone, Save, Start
<1>4. NeedCopy' /\ Copyable' /\ Active' = Active /\ Recorded' /\ Loaded' = Loaded
  BY <1>1, <1>2, Same, CopyOfRecorded DEF HInv
<1>5. rec # None
  BY Ranges, NoSettingsAssumption DEF SettingsRecords
<1>6. exec = Prefix(bank[arg], Chunks) /\ bank[arg] \in Regions
  BY <1>1 DEF HInv, IInv, Job, TypeOK
<1>7. exec = bank[Active]
  BY <1>2, <1>6, PrefixSteps
<1>8. ~flag'
  BY <1>1 DEF HInv, IInv, FlagConsumed
<1> HIDE DEF rec
<1>9. Works'
  BY <1>1, <1>2, <1>3, <1>4, <1>7 DEF Works, rec
<1>10. Saves'
  BY <1>3, <1>4, <1>5 DEF HInv, Saves
<1> QED BY <1>2, <1>3, <1>4, <1>8, <1>9, <1>10 DEF Dev, Recopied, Booting

LEMMA ReceiveDev == HInv /\ RunsOn /\ (ReceiveBlock \/ ReceiveOk \/ ReceiveFails) => Dev'
<1> SUFFICES ASSUME HInv, RunsOn, ReceiveBlock \/ ReceiveOk \/ ReceiveFails PROVE Dev'
  OBVIOUS
<1>0. pc = "receive" /\ cmd = "flash" /\ ~Damaged /\ pc # "save" /\ UNCHANGED exec
  BY DEF ReceiveBlock, ReceiveOk, ReceiveFails, HInv, IInv, Job, Recopied, Booting, flash
<1>w. arg # Active \/ Crc(arg) # None
  BY <1>0 DEF HInv, Works
<1>d. ~Damaged'
  BY <1>0, StaysSound
<1>1. CASE ReceiveBlock
  <2>1. /\ pc' \in {"erase", "receive"} /\ UNCHANGED <<cmd, arg, settings, pending>>
        /\ \/ UNCHANGED bank
           \/ bank' = [bank EXCEPT ![arg][off + 1] = file]
    BY <1>0, <1>1 DEF ReceiveBlock
  <2>2. Loaded' = Loaded /\ Active' = Active
    BY <2>1 DEF Loaded, Active
  <2>3. Crc(Active) = None => bank'[Active] = bank[Active]
    BY <2>1, <1>w, Ranges DEF HInv, IInv, TypeOK
  <2>4. Recorded'
    BY <2>2, <2>3 DEF HInv, Recorded, Crc, ImageValid
  <2>5. Works' /\ Saves'
    BY <1>0, <2>1, <2>2, <1>w DEF HInv, Works, Saves, Crc
  <2> QED BY <1>d, <2>4, <2>5 DEF Dev, Recopied
<1>2. CASE (ReceiveOk /\ ~ImageValid(bank[arg])) \/ ReceiveFails
  <2>1. Goto("cli") /\ UNCHANGED <<flash, settings, pending>>
    BY <1>2 DEF ReceiveOk, ReceiveFails
  <2>2. "cli" \in Resting
    BY DEF Resting
  <2> QED BY <1>0, <2>1, <2>2, RestDev
<1>3. CASE ReceiveOk /\ ImageValid(bank[arg])
  <2> DEFINE rec == [Loaded EXCEPT !.crc[arg] = bank[arg]]
  <2>1. /\ pending' = rec /\ pc' = "save" /\ cmd' = "flash" /\ arg' = arg
        /\ UNCHANGED <<exec, bank, settings>>
    BY <1>3 DEF ReceiveOk, RegionCrc, Save, Start, Store!Begin, flash
  <2>2. rec # None
    BY <1>3, FlashRecord, NoSettingsAssumption DEF HInv, IInv
  <2>3. Active' = Active /\ Recorded' /\ Loaded' = Loaded
    BY <2>1, Same DEF HInv
  <2>4. bank[arg] # None
    BY Ranges, NoneAssumption DEF HInv, IInv, TypeOK
  <2> HIDE DEF rec
  <2>5. Works'
    BY <2>1, <2>3, <2>4 DEF Works, rec
  <2>6. Saves'
    BY <2>1, <2>2, <2>3 DEF HInv, Saves
  <2> QED BY <1>d, <2>3, <2>5, <2>6 DEF Dev, Recopied
<1> QED BY <1>1, <1>2, <1>3

(* What the commit of each record does to the settings.                      *)
LEMMA CommitDev ==
  ASSUME HInv, pc = "save", Store!Commit, UNCHANGED bank
  PROVE  /\ settings' = pending /\ pending' = None /\ settings' # None
         /\ Loaded'.mode = "app" /\ Recorded'
         /\ \A b \in Banks : Crc(b) # None => Crc(b)' # None
         /\ cmd = "boot" => ~NeedCopy' /\ Active' = Active /\ Copyable' /\ exec = bank[Active]
         /\ cmd = "flash" => /\ Loaded'.crc[arg] # None /\ Active' = Active
                             /\ arg # Active /\ ~NeedCopy => ~NeedCopy'
<1>1. settings' = pending /\ pending' = None /\ settings' # None /\ Loaded' = pending
  BY DEF Store!Commit, HInv, Saves, Loaded
<1>2. Loaded \in SettingsRecords /\ arg \in Banks /\ Active \in Banks /\ Loaded.mode = "app"
  BY Ranges DEF HInv, Saves
<1>3. CASE cmd = "boot"
  <2>1. Loaded' = [Loaded EXCEPT !.loaded = arg] /\ arg = Active /\ NeedCopy /\ exec = bank[Active]
    BY <1>1, <1>3 DEF HInv, Works, Selecting
  <2>2. /\ Active' = Active /\ Loaded'.mode = "app" /\ Loaded'.loaded = Active
        /\ \A b \in Banks : Crc(b)' = Crc(b)
    BY <1>2, <2>1 DEF SettingsRecords, Active, Crc
  <2>3. ~NeedCopy' /\ Recorded'
    BY <1>2, <2>2 DEF NeedCopy, Recorded, HInv, ImageValid
  <2>4. Copyable'
    BY <1>1, <1>2, <2>1, <2>2, CopyOfRecorded DEF Copyable, BankTrusted, Crc, ImageValid
  <2> QED BY <1>1, <1>3, <2>1, <2>2, <2>3, <2>4
<1>4. CASE cmd = "flash"
  <2>1. Loaded' = [Loaded EXCEPT !.crc[arg] = bank[arg]] /\ bank[arg] # None
    BY <1>1, <1>4 DEF HInv, Works, Selecting
  <2>2. /\ Active' = Active /\ Loaded'.mode = "app" /\ Loaded'.loaded = Loaded.loaded
        /\ Loaded'.crc[arg] # None /\ \A b \in Banks : b # arg => Crc(b)' = Crc(b)
    <3>1. Loaded'.crc = [Loaded.crc EXCEPT ![arg] = bank[arg]] /\ Loaded'.active = Loaded.active
          /\ Loaded'.mode = Loaded.mode /\ Loaded'.loaded = Loaded.loaded /\ Loaded.crc \in [Banks -> Regions \union {None}]
      BY <1>2, <2>1 DEF SettingsRecords
    <3> QED BY <1>2, <2>1, <3>1 DEF Active, Crc
  <2>3. Recorded'
    BY <1>2, <2>2 DEF Recorded, HInv, ImageValid, Crc
  <2>4. ASSUME arg # Active, ~NeedCopy PROVE ~NeedCopy'
    <3>1. BankTrusted(Active)' = BankTrusted(Active)
      BY <1>2, <2>2, <2>4 DEF BankTrusted, Crc, ImageValid
    <3>2. CASE settings # None
      BY <2>2, <2>4, <3>1, <3>2 DEF NeedCopy
    <3>3. CASE settings = None
      <4>1. Crc(Active) = None
        BY <3>3, Ranges
      <4>2. ~ImageValid(bank[Active])
        BY <4>1 DEF HInv, Recorded
      <4>3. ~BankTrusted(Active)
        BY <4>2 DEF BankTrusted
      <4> QED BY <3>1, <4>3 DEF NeedCopy
    <3> QED BY <3>2, <3>3
  <2> QED BY <1>1, <1>2, <1>4, <2>2, <2>3, <2>4 DEF Crc
<1>5. CASE cmd \in Selecting
  <2>1. Loaded' = [Loaded EXCEPT !.active = arg] /\ Crc(arg) # None
    BY <1>1, <1>5 DEF HInv, Works, Selecting
  <2>2. Active' = arg /\ Loaded'.mode = "app" /\ \A b \in Banks : Crc(b)' = Crc(b)
    BY <1>2, <2>1 DEF SettingsRecords, Active, Crc
  <2>3. Recorded'
    BY <1>2, <2>1, <2>2 DEF Recorded
  <2> QED BY <1>1, <1>5, <2>2, <2>3 DEF Selecting
<1> QED BY <1>3, <1>4, <1>5 DEF HInv, Works

LEMMA SaveOkDev == HInv /\ RunsOn /\ SaveOk => Dev'
<1> SUFFICES ASSUME HInv, RunsOn, SaveOk PROVE Dev'
  OBVIOUS
<1>1. /\ pc = "save" /\ Store!Commit /\ UNCHANGED <<exec, bank>>
      /\ pc' \in Resting /\ cmd' = "idle"
  BY DEF SaveOk, Goto, SaveReturns, AfterBootSave, Resting, flash
<1>2. ~Damaged'
  <2>1. CASE cmd = "boot"
    <3>1. NeedCopy /\ exec = bank[Active]
      BY <1>1, <2>1 DEF HInv, Works, Selecting
    <3>2. ImageValid(exec)
      BY <3>1 DEF NeedCopy, BankTrusted
    <3>3. AppStarts
      BY <1>1, <2>1, <3>2 DEF AppStarts, SaveOk, Goto, SaveReturns, AfterBootSave
    <3> QED BY <3>3, StaysSound
  <2>2. CASE cmd # "boot"
    BY <1>1, <2>2, StaysSound DEF HInv, Recopied, Booting
  <2> QED BY <2>1, <2>2
<1>3. pending' = None /\ Loaded'.mode = "app" /\ Recorded'
  BY <1>1, CommitDev
<1> QED BY <1>1, <1>2, <1>3 DEF Dev, Saves, Works, Recopied, Resting

(* What the erase in progress may have torn when the power goes.             *)
LEMMA TearDev ==
  ASSUME HInv, TearErase
  PROVE  /\ exec' = exec \/ (cmd = "boot" /\ NeedCopy /\ bank' = bank /\ pc = "erase")
         /\ bank' = bank \/ (/\ cmd = "flash" /\ ~Damaged /\ pc = "erase" /\ exec' = exec
                             /\ \A b \in Banks : b # arg => bank'[b] = bank[b])
<1>1. CASE pc = "erase" /\ cmd = "boot"
  BY <1>1 DEF TearErase, HInv, Works
<1>2. CASE pc = "erase" /\ cmd = "flash"
  BY <1>2 DEF TearErase, HInv, Recopied, Booting, IInv, TypeOK
<1>3. CASE pc # "erase"
  BY <1>3 DEF TearErase, flash
<1> QED BY <1>1, <1>2, <1>3 DEF HInv, Works

LEMMA PowerDev == HInv /\ RunsOn /\ PowerLoss => Dev'
<1> SUFFICES ASSUME HInv, RunsOn, PowerLoss PROVE Dev'
  OBVIOUS
<1>1. pc' = "reset" /\ cmd' = "idle" /\ ~flag' /\ TearErase /\ running' = running
  BY DEF PowerLoss, Goto, RunsOn, AppStarts
<1>2. CASE pc = "save"
  <2>1. UNCHANGED <<exec, bank>>
    BY <1>2 DEF PowerLoss, TearErase, flash
  <2>2. Store!Commit \/ Store!Abandon
    BY <1>2 DEF PowerLoss, HInv, Saves
  <2>3. cmd # "boot" => ~Damaged'
    BY <1>1, <1>2, <2>1 DEF HInv, Recopied, Booting, Damaged
  <2>4. /\ pending' = None /\ Loaded'.mode = "app" /\ Recorded'
        /\ cmd = "boot" => Copyable' /\ exec' = bank'[Active']
    <3>1. CASE Store!Commit
      BY <1>2, <2>1, <3>1, CommitDev
    <3>2. CASE Store!Abandon
      <4>1. /\ pending' = None /\ Loaded' = Loaded /\ Active' = Active
            /\ Recorded' /\ Copyable' = Copyable
        BY <2>1, <3>2, Same DEF Store!Abandon, HInv
      <4>2. cmd = "boot" => NeedCopy /\ exec = bank[Active]
        BY <1>2 DEF HInv, Works, Selecting
      <4> QED BY <2>1, <4>1, <4>2, CopyOfRecorded DEF HInv, Saves
    <3> QED BY <2>2, <3>1, <3>2
  <2> QED BY <1>1, <2>3, <2>4 DEF Dev, Saves, Works, Recopied, Booting
<1>3. CASE pc # "save"
  <2>1. UNCHANGED <<settings, pending>> /\ pending = None
    BY <1>3 DEF PowerLoss, HInv, Saves
  <2>2. Loaded' = Loaded /\ Active' = Active
    BY <2>1 DEF Loaded, Active
  <2>3. Crc(Active) = None => bank'[Active] = bank[Active]
    BY <1>1, TearDev, Ranges DEF HInv, Works
  <2>4. Recorded'
    BY <2>2, <2>3 DEF HInv, Recorded, Crc, ImageValid
  <2>5. Damaged' => bank' = bank /\ Copyable /\ (NeedCopy \/ (exec' = exec /\ exec = bank[Active]))
    BY <1>1, TearDev, CopyOfRecorded DEF HInv, Recopied, Damaged
  <2>6. Damaged' => Copyable' /\ (NeedCopy' \/ exec' = bank'[Active'])
    BY <2>1, <2>2, <2>5, Same
  <2> QED BY <1>1, <2>1, <2>2, <2>4, <2>6 DEF HInv, Dev, Saves, Works, Recopied, Booting
<1> QED BY <1>2, <1>3

(* The commands the tool sends.                                              *)
LEMMA FlashDev ==
  ASSUME HInv, RunsOn, NEW f, host = "flash", CmdFlash(target, f)
  PROVE  Dev'
<1>1. /\ pc = "cli" /\ pc' = "receive" /\ cmd' = "flash" /\ arg' = target
      /\ UNCHANGED <<exec, bank, settings, pending, flag>>
  BY DEF CmdFlash, CliCommand, Start, flash
<1>2. ~Damaged'
  BY <1>1, StaysSound DEF HInv, Recopied, Booting
<1>3. Active' = Active /\ Loaded' = Loaded /\ Recorded'
  BY <1>1, Same DEF HInv
<1>4. target # Active \/ Crc(target) # None
  BY DEF HInv, Knows, Recorded
<1>5. Works'
  BY <1>1, <1>3, <1>4 DEF Works, Crc
<1> QED BY <1>1, <1>2, <1>3, <1>5 DEF HInv, Dev, Saves, Recopied

LEMMA SelectDev ==
  ASSUME HInv, RunsOn, host = "bank", CmdBank(target) \/ AppBank(target)
  PROVE  Dev'
<1> DEFINE rec == [Loaded EXCEPT !.active = target]
<1>1. /\ pc \in {"cli", "app"} /\ pc' = "save" /\ cmd' \in Selecting /\ arg' = target /\ pending' = rec
      /\ UNCHANGED <<exec, bank, settings, flag>>
  BY DEF CmdBank, AppBank, CliCommand, AppCommand, Save, Store!Begin, Start, flash, Selecting
<1>2. ~Damaged'
  BY <1>1, StaysSound DEF HInv, Recopied, Booting
<1>3. Active' = Active /\ Loaded' = Loaded /\ Recorded'
  BY <1>1, Same DEF HInv
<1>4. Crc(target) # None
  BY DEF HInv, Knows
<1>5. rec # None
  BY Ranges, NoSettingsAssumption DEF SettingsRecords
<1> HIDE DEF rec
<1>6. Works'
  BY <1>1, <1>3, <1>4 DEF Works, Crc, rec, Selecting
<1> QED BY <1>1, <1>2, <1>3, <1>5, <1>6 DEF HInv, Dev, Saves, Recopied

LEMMA LeaveDev == HInv /\ RunsOn /\ (CmdBoot \/ AppUpdate) => Dev'
<1> SUFFICES ASSUME HInv, RunsOn, CmdBoot \/ AppUpdate PROVE Dev'
  OBVIOUS
<1>1. /\ \E p \in Resting : Goto(p)
      /\ UNCHANGED <<flash, settings, pending>> /\ pc \in {"cli", "app"}
  BY DEF CmdBoot, AppUpdate, CliCommand, AppCommand, Resting
<1>2. ~Damaged
  BY <1>1 DEF HInv, Recopied, Booting
<1> QED BY <1>1, <1>2, RestDev

LEMMA IdleDev == HInv /\ RunsOn /\ UNCHANGED vars => Dev'
<1> SUFFICES ASSUME HInv, RunsOn, UNCHANGED vars PROVE Dev'
  OBVIOUS
<1>1. UNCHANGED <<exec, bank, settings, pending, flag, pc, cmd, arg>> /\ running' = running
  BY DEF vars, RunsOn, AppStarts
<1>2. /\ Active' = Active /\ Loaded' = Loaded /\ Recorded'
      /\ NeedCopy' = NeedCopy /\ Copyable' = Copyable
  BY <1>1, Same DEF HInv
<1> QED BY <1>1, <1>2 DEF HInv, Dev, Saves, Works, Recopied, Booting, Damaged, Crc

-----------------------------------------------------------------------------
(* The tool                                                                  *)

(* What a device step lets the tool hear.                                    *)
LEMMA Heard ==
  ASSUME Hears, Keeps
  PROVE  /\ \/ host' = host
            \/ host = "flashing" /\ cmd = "flash" /\ pc = "save" /\ host' = "bank"
            \/ host \in {"flashing", "banking"} /\ host' \in {"boot", "idle"}
         /\ host' # "idle" => target' = target /\ newfile' = newfile
         /\ host' = "idle" => target' = 0 /\ newfile' = None
<1>1. CASE host = "flashing" /\ cmd = "flash" /\ pc' = "cli"
  BY <1>1 DEF Hears, AfterFlash, Keeps
<1>2. CASE host = "banking" /\ cmd \in {"bank", "app.bank"} /\ pc' \in {"cli", "app"}
  BY <1>2 DEF Hears, Keeps
<1>3. CASE /\ ~(host = "flashing" /\ cmd = "flash" /\ pc' = "cli")
           /\ ~(host = "banking" /\ cmd \in {"bank", "app.bank"} /\ pc' \in {"cli", "app"})
  BY <1>3 DEF Hears, Keeps
<1> QED BY <1>1, <1>2, <1>3

(* A step that saves nothing and starts nothing: the bank that is active does *)
(* not change unless the tool is misled, and Exec only where there is         *)
(* something to copy.                                                        *)
LEMMA QuietTool ==
  ASSUME HInv, pc # "save" \/ UNCHANGED vars, UNCHANGED settings, Remember, ~AppStarts,
         Knows', bank' = bank \/ (cmd = "flash" /\ \A b \in Banks : b # arg => bank'[b] = bank[b]),
         exec' = exec \/ NeedCopy,
         host' = "flash" => host = "flash" /\ target' = target,
         cmd' = "flash" => cmd = "flash" /\ arg' = arg
  PROVE  Tool'
<1>1. UNCHANGED misled /\ running' = running /\ selected' = selected
  <2>1. ~Selects
    BY DEF Selects, HInv, Saves, vars
  <2> QED BY <2>1 DEF Remember, HInv, HostTypeOK
<1>2. ASSUME ~misled PROVE bank'[Active] = bank[Active]
  BY <1>2, Ranges DEF HInv, OldStays
<1>3. ASSUME ~misled PROVE NeedCopy' = NeedCopy /\ Active' = Active
  BY <1>2, <1>3, Same
<1>4. OldStays'
  BY <1>1, <1>3 DEF HInv, OldStays
<1> QED BY <1>4 DEF Tool

(* Whatever a handler does short of a save.                                  *)
LEMMA StepTool ==
  ASSUME HInv, Hears, Keeps, Remember, ~AppStarts, pc # "save", UNCHANGED settings,
         bank' = bank \/ (cmd = "flash" /\ \A b \in Banks : b # arg => bank'[b] = bank[b]),
         exec' = exec \/ NeedCopy,
         cmd' = "flash" => cmd = "flash" /\ arg' = arg,
         ~(pc' = "save" /\ cmd' \in Selecting)
  PROVE  Tool'
<1>1. Active' = Active /\ Loaded' = Loaded
  BY DEF Active, Loaded
<1>2. /\ host' = host \/ host' \in {"boot", "idle"}
      /\ host' # "idle" => target' = target
  BY Heard
<1>3. Knows'
  BY <1>1, <1>2 DEF HInv, Knows, Crc
<1> QED BY <1>2, <1>3, QuietTool

LEMMA BootTool ==
  ASSUME HInv, BootStep, Hears, Keeps, Remember
  PROVE  Tool'
<1>0. UNCHANGED <<exec, bank, settings>> /\ pc \in {"reset", "boot_app"} /\ cmd' # "flash" /\ pc' # "save"
  BY DEF BootStep, Main, BootJump, BootLoad, BootNothing, Goto, Start, flash
<1>1. CASE ~AppStarts
  BY <1>0, <1>1, StepTool
<1>2. CASE AppStarts
  <2>1. ~NeedCopy
    BY <1>0, <1>2 DEF AppStarts, BootStep, Main, BootJump, BootLoad, BootNothing, Goto, Start
  <2>2. Active' = Active /\ Loaded' = Loaded /\ NeedCopy' = NeedCopy
    BY <1>0, Same
  <2>3. /\ host' = host \/ host' \in {"boot", "idle"}
        /\ host' # "idle" => target' = target
    BY <1>0, Heard
  <2>4. Knows'
    BY <1>0, <2>2, <2>3 DEF HInv, Knows, Crc
  <2>5. running' = exec' /\ UNCHANGED misled
    BY <1>2 DEF Remember
  <2>6. OldStays'
    BY <1>0, <2>1, <2>2, <2>3, <2>5 DEF HInv, OldStays
  <2> QED BY <2>4, <2>6 DEF Tool
<1> QED BY <1>1, <1>2

LEMMA WorkTool ==
  ASSUME HInv, Hears, Keeps, Remember,
         EraseSector \/ CopyChunk \/ CopyDone \/ ReceiveBlock \/ ReceiveOk \/ ReceiveFails
  PROVE  Tool'
<1>0. bank \in [Banks -> Regions]
  BY DEF HInv, IInv, TypeOK
<1>1. CASE EraseSector
  <2>1. /\ pc = "erase" /\ cmd \in {"boot", "flash"} /\ pc' \in {"copy", "receive"} /\ UNCHANGED <<cmd, arg, settings>>
        /\ cmd = "boot" => NeedCopy /\ bank' = bank
        /\ cmd = "flash" => exec' = exec /\ \A b \in Banks : b # arg => bank'[b] = bank[b]
    BY <1>0, <1>1 DEF EraseSector, HInv, Works, job
  <2>2. ~AppStarts
    BY <2>1 DEF AppStarts
  <2> QED BY <2>1, <2>2, StepTool
<1>2. CASE CopyChunk
  <2>1. pc = "copy" /\ NeedCopy /\ UNCHANGED <<bank, settings, pc, cmd, arg>>
    BY <1>2 DEF CopyChunk, HInv, Works
  <2>2. ~AppStarts
    BY <2>1 DEF AppStarts
  <2> QED BY <2>1, <2>2, StepTool
<1>3. CASE CopyDone
  <2>1. pc = "copy" /\ pc' = "save" /\ cmd = "boot" /\ UNCHANGED <<exec, bank, settings, cmd, arg>>
    BY <1>3 DEF CopyDone, Save, Store!Begin, Start, flash, HInv, Works
  <2>2. ~AppStarts /\ cmd' \notin Selecting
    BY <2>1 DEF AppStarts, Selecting
  <2> QED BY <2>1, <2>2, StepTool
<1>4. CASE ReceiveBlock
  <2>1. /\ pc = "receive" /\ cmd = "flash" /\ pc' \in {"erase", "receive"} /\ UNCHANGED <<exec, settings, cmd, arg>>
        /\ \A b \in Banks : b # arg => bank'[b] = bank[b]
    BY <1>0, <1>4 DEF ReceiveBlock, HInv, IInv, Job
  <2>2. ~AppStarts
    BY <2>1 DEF AppStarts
  <2> QED BY <2>1, <2>2, StepTool
<1>5. CASE ReceiveOk \/ ReceiveFails
  <2>1. /\ pc = "receive" /\ cmd = "flash" /\ UNCHANGED <<exec, bank, settings>>
        /\ \/ pc' = "save" /\ cmd' = "flash" /\ arg' = arg
           \/ pc' = "cli" /\ cmd' = "idle"
    BY <1>5 DEF ReceiveOk, ReceiveFails, Save, Store!Begin, Start, Goto, flash, HInv, IInv, Job
  <2>2. ~AppStarts /\ ~(pc' = "save" /\ cmd' \in Selecting)
    BY <2>1 DEF AppStarts, Selecting
  <2> QED BY <2>1, <2>2, StepTool
<1> QED BY <1>1, <1>2, <1>3, <1>4, <1>5

(* A record is committed, by SaveOk or as the power goes.                    *)
LEMMA CommitTool ==
  ASSUME HInv, pc = "save", Store!Commit, UNCHANGED flash, cmd' = "idle", pc' # "save", Remember,
         AppStarts => cmd = "boot",
         \/ host' = host
         \/ host = "flashing" /\ cmd = "flash" /\ host' = "bank"
         \/ host \in {"flashing", "banking"} /\ host' \in {"boot", "idle"},
         host' # "idle" => target' = target
  PROVE  Tool'
<1>0. /\ arg \in Banks /\ target \in Banks /\ UNCHANGED <<exec, bank, misled>>
      /\ selected' \in BOOLEAN /\ running' = IF AppStarts THEN exec' ELSE running
      /\ settings' = pending /\ pending' = None /\ pending # None
      /\ \A b \in Banks : Crc(b) # None => Crc(b)' # None
  BY CommitDev, Ranges DEF flash, Remember, HInv, HostTypeOK, Saves
<1>1. CASE cmd = "boot"
  <2>1. ~NeedCopy' /\ Active' = Active
    BY <1>0, <1>1, CommitDev
  <2>2. Knows'
    BY <1>0, <1>1, <2>1 DEF HInv, Knows, Crc
  <2>3. ~Selects
    BY <1>1 DEF Selects
  <2>4. ~selected' /\ ~misled' => exec' = running'
    BY <1>0, <2>3 DEF HInv, HostTypeOK, OldStays, Remember
  <2> QED BY <1>0, <1>1, <2>1, <2>2, <2>4 DEF HInv, OldStays, Tool
<1>2. CASE cmd = "flash"
  <2>1. Loaded'.crc[arg] # None /\ Active' = Active /\ (arg # Active /\ ~NeedCopy => ~NeedCopy')
    BY <1>0, <1>2, CommitDev
  <2>2. Knows'
    BY <1>0, <1>2, <2>1 DEF HInv, Knows, Crc
  <2>3. ~Selects /\ ~AppStarts
    BY <1>2 DEF Selects
  <2>4. ~misled' => (~selected' => exec' = running' /\ ~NeedCopy')
    BY <1>0, <1>2, <2>1, <2>3 DEF HInv, HostTypeOK, OldStays, Remember
  <2> QED BY <1>0, <1>2, <2>1, <2>2, <2>4 DEF HInv, OldStays, Tool
<1>3. CASE cmd \in Selecting
  <2>1. host \notin {"info", "flash", "flashing"}
    BY <1>3 DEF HInv, Knows
  <2>2. host' \notin {"info", "flash", "flashing"} /\ (host' \in {"bank", "banking"} => host' = host)
    BY <1>3, <2>1 DEF Selecting
  <2>3. Knows'
    BY <1>0, <2>2 DEF HInv, Knows, Crc
  <2>4. Selects /\ ~AppStarts
    BY <1>0, <1>3 DEF Selects, Selecting
  <2>5. selected'
    BY <2>4 DEF Remember
  <2> QED BY <1>0, <2>2, <2>3, <2>5 DEF OldStays, Tool
<1> QED BY <1>1, <1>2, <1>3 DEF HInv, Works

LEMMA SaveOkTool ==
  ASSUME HInv, SaveOk, Hears, Keeps, Remember
  PROVE  Tool'
<1>1. pc = "save" /\ Store!Commit /\ UNCHANGED flash /\ cmd' = "idle" /\ pc' # "save"
  BY DEF SaveOk, Goto, SaveReturns, AfterBootSave
<1>2. AppStarts => cmd = "boot"
  BY <1>1 DEF AppStarts
<1> QED BY <1>1, <1>2, Heard, CommitTool

LEMMA PowerTool ==
  ASSUME HInv, LosesPower, Remember
  PROVE  Tool'
<1>1. /\ PowerLoss /\ TearErase /\ UNCHANGED <<host, target>> /\ pc' = "reset" /\ cmd' = "idle" /\ ~AppStarts
  BY DEF LosesPower, PowerLoss, Goto, hostVars, AppStarts
<1>2. CASE pc = "save" /\ Store!Commit
  <2>1. UNCHANGED flash
    BY <1>1, <1>2 DEF TearErase
  <2> QED BY <1>1, <1>2, <2>1, CommitTool
<1>3. CASE pc = "save" /\ ~Store!Commit
  <2>1. UNCHANGED <<exec, bank>> /\ Store!Abandon
    BY <1>1, <1>3 DEF TearErase, flash, PowerLoss, HInv, Saves
  <2>2. settings' = settings /\ pending' = None /\ pending # None
    BY <1>3, <2>1 DEF Store!Abandon, HInv, Saves
  <2>3. Active' = Active /\ Loaded' = Loaded /\ NeedCopy' = NeedCopy
    BY <2>1, <2>2, Same
  <2>4. Knows'
    BY <1>1, <2>3 DEF HInv, Knows, Crc
  <2>5. UNCHANGED misled /\ running' = running /\ (selected => selected')
    BY <1>1 DEF Remember, HInv, HostTypeOK
  <2>6. OldStays'
    BY <1>1, <2>1, <2>3, <2>5 DEF HInv, OldStays
  <2> QED BY <2>4, <2>6 DEF Tool
<1>4. CASE pc # "save"
  <2>1. UNCHANGED settings
    BY <1>4 DEF PowerLoss, LosesPower, HInv, Saves
  <2>2. Active' = Active /\ Loaded' = Loaded
    BY <2>1 DEF Active, Loaded
  <2>3. Knows'
    BY <1>1, <2>2 DEF HInv, Knows, Crc
  <2> QED BY <1>1, <1>4, <2>1, <2>3, TearDev, QuietTool
<1> QED BY <1>2, <1>3, <1>4

(* The tool's own steps that leave the device alone.                         *)
LEMMA AloneTool ==
  ASSUME HInv, UNCHANGED vars, UNCHANGED <<running, selected>>,
         UNCHANGED misled \/ misled',
         host' = "info" => pc = "cli",
         host' = "flash" => /\ host = "info"
                            /\ target' = 1 \/ target' # Active
                            /\ ~misled' => target' # Active,
         host' # "flashing",
         host' = "bank" => host = "banking" /\ target' = target,
         host' # "banking"
  PROVE  Tool'
<1>1. UNCHANGED <<exec, bank, settings, pc, cmd, arg>>
  BY DEF vars
<1>2. Active' = Active /\ Loaded' = Loaded /\ NeedCopy' = NeedCopy
  BY <1>1, Same
<1>3. Knows'
  BY <1>1, <1>2 DEF HInv, Knows, Crc
<1>4. OldStays'
  BY <1>1, <1>2 DEF HInv, OldStays
<1> QED BY <1>3, <1>4 DEF Tool

(* A step that leaves the device alone is neither a start nor a selection.    *)
LEMMA AloneRemembers ==
  ASSUME HInv, UNCHANGED vars, Remember
  PROVE  UNCHANGED <<running, selected, misled>>
<1>1. ~AppStarts /\ ~Selects
  BY DEF AppStarts, Selects, vars
<1> QED BY <1>1 DEF Remember, HInv, HostTypeOK

LEMMA CommandTool ==
  ASSUME HInv, Remember, pc \in {"cli", "app"}, UNCHANGED <<flash, settings>>,
         (HostStart /\ AppUpdate) \/ HostFlash \/ HostBank \/ (HostBoot /\ CmdBoot)
  PROVE  Tool'
<1>1. ~AppStarts /\ pc # "save" /\ UNCHANGED <<exec, bank>>
  BY DEF AppStarts, flash
<1>2. Active' = Active /\ Loaded' = Loaded /\ NeedCopy' = NeedCopy
  BY <1>1, Same
<1>3. UNCHANGED misled /\ running' = running /\ selected' = selected
  <2>1. ~Selects
    BY <1>1 DEF Selects, HInv, Saves
  <2> QED BY <1>1, <2>1 DEF Remember, HInv, HostTypeOK
<1>4. CASE HostFlash
  <2>1. host = "flash" /\ host' = "flashing" /\ target' = target /\ cmd' = "flash" /\ arg' = target /\ pc' # "save"
    BY <1>4 DEF HostFlash, CmdFlash, Start
  <2> QED BY <1>1, <1>2, <1>3, <2>1 DEF HInv, Knows, OldStays, Tool
<1>5. CASE HostBank
  <2>1. host = "bank" /\ host' = "banking" /\ target' = target /\ cmd' # "flash"
    BY <1>5 DEF HostBank, Keeps, CmdBank, AppBank, Save, Start
  <2> QED BY <1>1, <1>2, <1>3, <2>1 DEF HInv, Knows, OldStays, Tool, Crc
<1>6. CASE (HostStart /\ AppUpdate) \/ (HostBoot /\ CmdBoot)
  <2>1. host' \in {"update", "info", "version"} /\ pc' # "save" /\ cmd' = "idle"
    BY <1>6 DEF HostStart, HostBoot, AppUpdate, CmdBoot, Goto
  <2> QED BY <1>1, <1>2, <1>3, <2>1 DEF HInv, Knows, OldStays, Tool
<1> QED BY <1>4, <1>5, <1>6

LEMMA AloneSteps ==
  ASSUME HInv, UNCHANGED vars, Remember,
         \/ HostStart \/ HostGreeted \/ HostInfo \/ HostBoot \/ HostVersion
         \/ HostTimeout \/ HostNoBoot \/ HostDies
  PROVE  Tool'
<1>1. UNCHANGED <<running, selected, misled>>
  BY AloneRemembers
<1>2. CASE HostInfo
  <2>1. target' # Active
    BY <1>2, Ranges DEF HostInfo, InactiveBank, Banks
  <2> QED BY <1>1, <1>2, <2>1, AloneTool DEF HostInfo
<1>3. CASE HostStart \/ HostGreeted
  <2>1. (host' = "info" /\ pc = "cli") \/ host' = "update"
    BY <1>3 DEF HostStart, HostGreeted
  <2> QED BY <1>1, <2>1, AloneTool
<1>4. CASE HostBoot \/ HostVersion \/ HostTimeout \/ HostNoBoot \/ HostDies
  <2>1. /\ host' \in {"idle", "version", "boot", "bank"}
        /\ host' = "bank" => host = "banking" /\ target' = target
    BY <1>4 DEF HostBoot, HostVersion, HostTimeout, HostNoBoot, HostDies, Keeps
  <2> QED BY <1>1, <2>1, AloneTool
<1> QED BY <1>2, <1>3, <1>4

-----------------------------------------------------------------------------
(* Every step                                                                *)

(* What the tool and the line make of the device is what Bootloader allows.   *)
LEMMA IsBootStep ==
  ASSUME HInv, [UpdateNext]_allVars
  PROVE  [Next]_vars
<1>0. CASE UNCHANGED allVars
  BY <1>0 DEF allVars
<1>1. CASE DeviceStep \/ Device(ReceiveShort \/ ReceiveFails) \/ LosesPower
  BY <1>1 DEF DeviceStep, Device, LosesPower, Next, SoundNext
<1>2. CASE HostStart
  BY <1>2 DEF HostStart, Next, SoundNext, App
<1>3. CASE HostFlash
  <2>1. target \in Banks /\ newfile \in Images
    BY <1>3 DEF HostFlash, HInv, HostTypeOK, HasFile
  <2>2. Cli
    BY <1>3, <2>1 DEF HostFlash, Cli
  <2> QED BY <2>2 DEF Next, SoundNext
<1>4. CASE HostBank
  <2>1. target \in Banks
    BY DEF HInv, HostTypeOK
  <2>2. Cli \/ App
    BY <1>4, <2>1 DEF HostBank, Cli, App
  <2> QED BY <2>2 DEF Next, SoundNext
<1>5. CASE HostBoot
  BY <1>5 DEF HostBoot, Next, SoundNext, Cli
<1>6. CASE HostGreeted \/ HostInfo \/ HostVersion \/ HostTimeout \/ HostNoBoot \/ HostDies \/ HostInfoLost
  BY <1>6 DEF HostGreeted, HostInfo, HostVersion, HostTimeout, HostNoBoot, HostDies, HostInfoLost
<1> QED BY <1>0, <1>1, <1>2, <1>3, <1>4, <1>5, <1>6 DEF UpdateNext, QuietNext, RoughNext, HostStep

LEMMA StepRunsOn ==
  ASSUME [UpdateNext]_allVars
  PROVE  RunsOn
<1>1. CASE Remember
  BY <1>1 DEF Remember, RunsOn
<1>2. CASE UNCHANGED vars /\ running' = running
  BY <1>2 DEF vars, RunsOn, AppStarts
<1> QED BY <1>1, <1>2 DEF UpdateNext, QuietNext, RoughNext, HostInfoLost, allVars, history

LEMMA DevStep ==
  ASSUME HInv, [UpdateNext]_allVars
  PROVE  Dev'
<1>r. RunsOn
  BY StepRunsOn
<1>0. CASE UNCHANGED vars
  BY <1>r, <1>0, IdleDev
<1>1. CASE DeviceStep
  BY <1>r, <1>1, BootDev, EraseDev, CopyChunkDev, CopyDoneDev, ReceiveDev, SaveOkDev
     DEF DeviceStep, Device, FlashStep, ReceiveDone
<1>2. CASE Device(ReceiveShort \/ ReceiveFails) \/ LosesPower
  BY <1>r, <1>2, ReceiveDev, PowerDev DEF Device, LosesPower, ReceiveShort
<1>3. CASE HostStart \/ HostBoot
  BY <1>r, <1>0, <1>3, LeaveDev DEF HostStart, HostBoot
<1>4. CASE HostFlash
  BY <1>r, <1>4, FlashDev DEF HostFlash
<1>5. CASE HostBank
  BY <1>r, <1>5, SelectDev DEF HostBank
<1>6. CASE \/ HostGreeted \/ HostInfo \/ HostVersion \/ HostTimeout \/ HostNoBoot \/ HostDies \/ HostInfoLost
          \/ UNCHANGED allVars
  BY <1>0, <1>6
     DEF HostGreeted, HostInfo, HostVersion, HostTimeout, HostNoBoot, HostDies, HostInfoLost, allVars
<1> QED BY <1>1, <1>2, <1>3, <1>4, <1>5, <1>6 DEF UpdateNext, QuietNext, RoughNext, HostStep

LEMMA ToolStep ==
  ASSUME HInv, [UpdateNext]_allVars
  PROVE  Tool'
<1>1. CASE DeviceStep /\ Remember
  <2>1. CASE Device(SaveOk)
    BY <1>1, <2>1, SaveOkTool DEF Device
  <2>2. CASE Device(BootStep)
    BY <1>1, <2>2, BootTool DEF Device
  <2>3. CASE Device(EraseSector \/ CopyChunk \/ CopyDone \/ ReceiveBlock \/ ReceiveDone)
    BY <1>1, <2>3, WorkTool DEF Device, ReceiveDone
  <2> QED BY <1>1, <2>1, <2>2, <2>3 DEF DeviceStep, Device, FlashStep
<1>2. CASE Device(ReceiveShort \/ ReceiveFails) /\ Remember
  BY <1>2, WorkTool DEF Device, ReceiveShort
<1>3. CASE LosesPower /\ Remember
  BY <1>3, PowerTool
<1>4. CASE (HostStart \/ HostStep) /\ Remember /\ ~UNCHANGED vars
  <2>1. (HostStart /\ AppUpdate) \/ HostFlash \/ HostBank \/ (HostBoot /\ CmdBoot)
    BY <1>4 DEF HostStart, HostStep, HostGreeted, HostInfo, HostBoot, HostVersion
  <2>2. pc \in {"cli", "app"} /\ UNCHANGED <<flash, settings>>
    BY <2>1 DEF AppUpdate, AppCommand, HostFlash, CmdFlash, HostBank, CmdBank, AppBank, CmdBoot, CliCommand,
                Save, Store!Begin
  <2> QED BY <1>4, <2>1, <2>2, CommandTool
<1>5. CASE (HostStart \/ HostStep) /\ Remember /\ UNCHANGED vars
  <2>1. HostStart \/ HostGreeted \/ HostInfo \/ HostBoot \/ HostVersion
    <3>1. ~HostFlash /\ ~HostBank
      <4>1. CASE HostFlash
        BY <1>5, <4>1 DEF HostFlash, CmdFlash, CliCommand, Start, vars
      <4>2. CASE HostBank
        BY <1>5, <4>2 DEF HostBank, CmdBank, AppBank, CliCommand, AppCommand, Save, Start, vars
      <4> QED BY <4>1, <4>2
    <3> QED BY <1>5, <3>1 DEF HostStep
  <2> QED BY <1>5, <2>1, AloneSteps
<1>6. CASE (HostTimeout \/ HostNoBoot \/ HostDies) /\ Remember
  <2>1. UNCHANGED vars
    BY <1>6 DEF HostTimeout, HostNoBoot, HostDies
  <2> QED BY <1>6, <2>1, AloneSteps
<1>7. CASE HostInfoLost /\ misled' = TRUE /\ UNCHANGED <<running, selected, quiet>>
  BY <1>7, AloneTool DEF HostInfoLost
<1>8. CASE UNCHANGED allVars
  <2>1. UNCHANGED <<exec, bank, settings, pc, cmd, arg, host, target, running, selected, misled>>
    BY <1>8 DEF allVars, vars, hostVars, history
  <2>2. Active' = Active /\ Loaded' = Loaded /\ NeedCopy' = NeedCopy
    BY <2>1, Same
  <2>3. Knows' /\ OldStays'
    BY <2>1, <2>2 DEF HInv, Knows, OldStays, Crc
  <2> QED BY <2>3 DEF Tool
<1> QED BY <1>1, <1>2, <1>3, <1>4, <1>5, <1>6, <1>7, <1>8 DEF UpdateNext, QuietNext, RoughNext

LEMMA HostTypes ==
  ASSUME HInv, TypeOK', [UpdateNext]_allVars
  PROVE  HostTypeOK' /\ HasFile'
<1>0. /\ target \in Banks /\ newfile \in Images \union {None} /\ running \in Regions
      /\ selected \in BOOLEAN /\ misled \in BOOLEAN /\ quiet \in BOOLEAN
      /\ exec \in Regions /\ exec' \in Regions /\ Active \in Banks /\ 0 \in Banks /\ 1 \in Banks
  BY Ranges DEF HInv, HostTypeOK, TypeOK, Banks
<1> DEFINE Hosts == {"idle", "update", "info", "flash", "flashing", "bank", "banking", "boot", "version"}
<1>h. host \in Hosts
  BY DEF HInv, HostTypeOK
<1>1. /\ host' \in Hosts /\ target' \in Banks /\ newfile' \in Images \union {None} /\ HasFile'
  <2>1. CASE HostStart
    BY <1>0, <1>h, <2>1 DEF HostStart, HasFile
  <2>2. CASE HostGreeted
    BY <1>0, <1>h, <2>2 DEF HostGreeted, Keeps, HInv, HasFile
  <2>3. CASE HostInfo
    BY <1>0, <1>h, <2>3 DEF HostInfo, InactiveBank, Banks, HInv, HasFile
  <2>4. CASE HostInfoLost
    BY <1>0, <1>h, <2>4 DEF HostInfoLost, HInv, HasFile
  <2>5. CASE HostFlash
    BY <1>0, <1>h, <2>5 DEF HostFlash, HasFile
  <2>6. CASE HostBank \/ HostBoot \/ HostVersion \/ HostTimeout \/ HostNoBoot \/ HostDies
    <3>1. host' \in {"banking", "version", "idle", "boot", "bank"}
      BY <2>6 DEF HostBank, HostBoot, HostVersion, HostTimeout, HostNoBoot, HostDies
    <3>2. Keeps
      BY <2>6 DEF HostBank, HostBoot, HostVersion, HostTimeout, HostNoBoot, HostDies
    <3> QED BY <1>0, <3>1, <3>2 DEF Keeps, HasFile
  <2>7. CASE DeviceStep \/ Device(ReceiveShort \/ ReceiveFails)
    <3>1. Hears /\ Keeps
      BY <2>7 DEF DeviceStep, Device
    <3> QED BY <1>0, <1>h, <3>1, Heard DEF HInv, HasFile
  <2>8. CASE LosesPower \/ UNCHANGED allVars
    BY <1>0, <1>h, <2>8 DEF LosesPower, hostVars, allVars, HInv, HasFile
  <2> QED BY <2>1, <2>2, <2>3, <2>4, <2>5, <2>6, <2>7, <2>8 DEF UpdateNext, QuietNext, RoughNext, HostStep
<1>2. running' \in Regions /\ selected' \in BOOLEAN /\ misled' \in BOOLEAN /\ quiet' \in BOOLEAN
  <2>1. CASE Remember
    BY <1>0, <2>1 DEF Remember
  <2>2. CASE misled' = TRUE /\ UNCHANGED <<running, selected, quiet>>
    BY <1>0, <2>2
  <2>3. CASE UNCHANGED allVars
    BY <1>0, <2>3 DEF allVars, history
  <2> QED BY <2>1, <2>2, <2>3 DEF UpdateNext, QuietNext, RoughNext
<1> QED BY <1>1, <1>2 DEF HostTypeOK

LEMMA HostInitHolds == HostInit => HInv
<1> SUFFICES ASSUME HostInit PROVE HInv
  OBVIOUS
<1>1. IInv /\ HostTypeOK /\ HasFile
  BY InitIInv DEF HostInit, HostTypeOK, HasFile, IInv, TypeOK, Banks
<1>2. Runs
  BY ChunksAssumption DEF HostInit, Init, Runs, ImageValid, Whole
<1>3. ~Damaged
  BY DEF HostInit, Damaged
<1>4. Loaded = Defaults /\ Active = 0 /\ Loaded.mode = "app" /\ settings = None /\ pending = None /\ pc = "reset"
  BY DEF HostInit, Init, Loaded, Active, Defaults
<1>5. ~ImageValid(bank[Active])
  BY <1>4, ImagesAssumption, ChunksAssumption DEF HostInit, Init, ImageValid, ErasedRegion, Banks
<1>6. Saves /\ Recorded /\ Works /\ Recopied
  BY <1>3, <1>4, <1>5 DEF Saves, Recorded, Works, Recopied
<1>7. Knows /\ OldStays
  BY <1>4 DEF HostInit, Init, Knows, OldStays, NeedCopy
<1> QED BY <1>1, <1>2, <1>6, <1>7 DEF HInv

(* bl_boot_app starts what Exec holds, without another write: a copy that is  *)
(* complete, or what a boot finds with nothing to copy.                      *)
LEMMA StartKeepsExec ==
  ASSUME HInv, [UpdateNext]_allVars, AppStarts
  PROVE  exec' = exec /\ ImageValid(exec) /\ (exec = running \/ exec = Crc(Active))
<1>1. pc \in {"boot_app", "save"} /\ pc' = "app" /\ (pc = "save" => cmd = "boot")
  BY DEF AppStarts
<1>2. BootJump \/ SaveOk
  <2>1. CASE DeviceStep
    BY <1>1, <2>1
       DEF DeviceStep, Device, BootStep, Main, BootLoad, BootNothing, Goto, Start, FlashStep, EraseSector,
           CopyChunk, CopyDone, ReceiveBlock, ReceiveDone, ReceiveOk
  <2>2. CASE Device(ReceiveShort \/ ReceiveFails) \/ LosesPower
    BY <1>1, <2>2 DEF Device, ReceiveShort, ReceiveOk, ReceiveFails, LosesPower, PowerLoss, Goto
  <2>3. CASE HostStart \/ HostStep \/ HostTimeout \/ HostNoBoot \/ HostDies \/ HostInfoLost \/ UNCHANGED allVars
    BY <1>1, <2>3
       DEF HostStart, AppUpdate, AppCommand, HostStep, HostGreeted, HostInfo, HostFlash, CmdFlash, CliCommand,
           HostBank, CmdBank, AppBank, HostBoot, CmdBoot, HostVersion, HostTimeout, HostNoBoot, HostDies,
           HostInfoLost, allVars, vars
  <2> QED BY <2>1, <2>2, <2>3 DEF UpdateNext, QuietNext, RoughNext
<1>3. CASE BootJump
  BY <1>3 DEF BootJump, flash, HInv, Recopied, Damaged, Copyable
<1>4. CASE SaveOk
  <2>1. exec' = exec /\ NeedCopy /\ exec = bank[Active]
    BY <1>1, <1>4 DEF SaveOk, flash, HInv, Works, Selecting
  <2> QED BY <2>1, CopyOfRecorded DEF NeedCopy, BankTrusted, ImageValid, Copyable
<1> QED BY <1>2, <1>3, <1>4

LEMMA HostNextHolds == HInv /\ [UpdateNext]_allVars => HInv'
<1> SUFFICES ASSUME HInv, [UpdateNext]_allVars PROVE HInv'
  OBVIOUS
<1>1. IInv'
  BY IsBootStep, NextIInv DEF HInv
<1>2. HostTypeOK' /\ HasFile'
  BY <1>1, HostTypes DEF IInv
<1>3. Runs'
  BY StepRunsOn, StartKeepsExec DEF RunsOn, HInv, Runs, ImageValid
<1> QED BY <1>1, <1>2, <1>3, DevStep, ToolStep DEF HInv, Dev, Tool

LEMMA HostInvariant == UpdateSpec => []HInv
  BY HostInitHolds, HostNextHolds, PTL DEF UpdateSpec

-----------------------------------------------------------------------------
(* The theorems                                                              *)

(* Whatever the tool and the line do, the device does what Bootloader allows: *)
(* the theorems about Bootloader hold of an update.                          *)
THEOREM UpdateIsBoot == UpdateSpec => Spec
<1>1. HostInit => Init
  BY DEF HostInit
<1> QED BY <1>1, HostInvariant, IsBootStep, PTL DEF UpdateSpec, Spec

(* The tool is always at one of its exchanges with a bank of the board        *)
(* (dro_update.py main).                                                     *)
THEOREM HostTypeCorrect == UpdateSpec => []HostTypeOK
<1>1. HInv => HostTypeOK
  BY DEF HInv
<1> QED BY <1>1, HostInvariant, PTL

(* An interrupted copy is always made again, from a bank that is as its       *)
(* recorded CRC says (bl_load_bank, bl_bank_trusted, and the order in which   *)
(* dro_update.py flashes and selects).                                       *)
THEOREM CopiesRepeatable == UpdateSpec => []InterruptedCopyIsRepeated
<1>1. HInv => InterruptedCopyIsRepeated
  BY DEF HInv, Recopied, Damaged, Copyable, NeedCopy, Crc, InterruptedCopyIsRepeated
<1> QED BY <1>1, HostInvariant, PTL

(* An update never makes bl_boot_app jump to a partial copy: what starts ran  *)
(* before or has the CRC recorded for the active bank.                       *)
THEOREM OldOrRecordedStarts == UpdateSpec => StartsOldOrRecorded
<1>1. HInv /\ [UpdateNext]_allVars => [AppStarts => exec' \in {running, Loaded.crc[Active]}]_allVars
  BY StartKeepsExec DEF Crc
<1> QED BY <1>1, HostInvariant, PTL DEF UpdateSpec, StartsOldOrRecorded

(* An update in which no transfer ends early makes bl_boot_app jump to        *)
(* complete images only, whatever else fails.                                *)
THEOREM WholeImagesRun == UpdateSpec /\ [][~ReceiveShort]_vars => []OnlyWholeImagesRun
<1> DEFINE RunsWhole == \E f \in Bootable : running = Whole(f)
<1>1. HostInit => RunsWhole
  BY DEF HostInit, Init
<1>2. HInv /\ RecordedMeansWhole /\ RunsWhole /\ [UpdateNext]_allVars => RunsWhole'
  <2> SUFFICES ASSUME HInv, RecordedMeansWhole, RunsWhole, [UpdateNext]_allVars PROVE RunsWhole'
    OBVIOUS
  <2>1. CASE ~AppStarts
    BY <2>1, StepRunsOn DEF RunsOn, Whole
  <2>2. CASE AppStarts
    <3>1. running' = exec /\ (exec = running \/ exec = Crc(Active))
      BY <2>2, StepRunsOn, StartKeepsExec DEF RunsOn
    <3>2. exec # None /\ Active \in Banks
      BY Ranges, NoneAssumption DEF HInv, IInv, TypeOK
    <3>3. \E f \in Bootable : running' = Whole(f)
      BY <3>1, <3>2 DEF RecordedMeansWhole, Crc
    <3> QED BY <3>3 DEF Whole
  <2> QED BY <2>1, <2>2
<1>3. HInv /\ RunsWhole => OnlyWholeImagesRun
  BY DEF HInv, Recopied, Booting, Damaged, OnlyWholeImagesRun
<1> HIDE DEF RunsWhole
<1> QED BY <1>1, <1>2, <1>3, UpdateIsBoot, CrcOfWhole, HostInvariant, PTL DEF UpdateSpec

(* Until a new bank is selected every start of the application is of the      *)
(* firmware that ran before (bl_boot_app), if info was answered.             *)
THEOREM OldFirmwareStarts == UpdateSpec => UnselectedStartsOld
<1>1. HInv /\ [UpdateNext]_allVars => [AppStarts /\ ~selected /\ ~misled => exec' = running]_allVars
  <2> SUFFICES ASSUME HInv, [UpdateNext]_allVars, AppStarts, ~selected, ~misled PROVE exec' = running
    OBVIOUS
  <2> QED BY StartKeepsExec DEF HInv, OldStays
<1> QED BY <1>1, HostInvariant, PTL DEF UpdateSpec, UnselectedStartsOld
-----------------------------------------------------------------------------
(***************************************************************************)
(* The settings store, for every number of builds and fields, every layout   *)
(* of the builds and every width of seq: the type invariant and the          *)
(* inductive invariant SaveInv, that the store implements SettingsRegister,  *)
(* which is all the boot chain above takes it for, and that a save preserves *)
(* the fields its build knows and does not assign.                           *)
(***************************************************************************)

(***************************************************************************)
(* The inductive invariant.  While a save has not programmed its last word, *)
(* it aims at the slot that is not the newest, with the successor of the    *)
(* newest sequence number, and its image agrees with the stored one on      *)
(* every field it does not assign; from the last word on it is the stored   *)
(* image.                                                                   *)
(***************************************************************************)
Aimed ==
  /\ targetSlot # NewestSlot
  /\ Stored # Absent => image.seq = SeqNext(Stored.seq)

Merged ==
  /\ image.used = Size[writer]
  /\ \E E \in Owned[writer] : \A f \in (1..Size[writer]) \ E :
       image.field[f] = LoadBy(writer, Stored)[f]

SaveInv ==
  /\ SlotsOneApart
  /\ SavedIsStored
  /\ writer # Absent /\ erased => slot[targetSlot].image = image
  /\ Saving => Aimed
  /\ writer # Absent /\ ~Saving => Stored = image
  /\ Saving => Merged

-----------------------------------------------------------------------------
(* Sequence numbers.                                                        *)

\* seq + 1 stays in range, is newer than seq by the signed comparison of
\* Settings.h, and seq is older than it; also where the counter wraps.
LEMMA SeqNextIsNewer ==
  ASSUME NEW q \in Seqs
  PROVE  /\ SeqNext(q) \in Seqs
         /\ SeqNotOlder(SeqNext(q), q)
         /\ ~SeqNotOlder(q, SeqNext(q))
BY SeqAssumption DEF Seqs, SeqMod, SeqNext, SeqNotOlder

-----------------------------------------------------------------------------
(* Which slot is the newest.                                                *)

\* What NewestSlot and Stored are, spelled out by cases.
LEMMA StoredCases ==
  ASSUME SettingsTypeOK
  PROVE  /\ NewestSlot \in {-1, 0, 1}
         /\ NewestSlot # -1 => /\ NewestSlot \in Slots
                               /\ SettingsValid(slot[NewestSlot])
                               /\ Stored = slot[NewestSlot].image
                               /\ Stored \in SettingsImages
                               /\ Stored # Absent
         /\ NewestSlot = -1 => /\ Stored = Absent
                               /\ \A n \in Slots : ~SettingsValid(slot[n])
BY AbsentAssumption DEF SettingsTypeOK, NewestSlot, Stored, Slots

\* Spoiling or erasing the slot that is not the newest changes nothing for a
\* reader.
LEMMA SpoilOther ==
  ASSUME SettingsTypeOK, SettingsTypeOK',
         NEW t \in Slots, t # NewestSlot,
         slot'[1 - t] = slot[1 - t],
         ~SettingsValid(slot'[t])
  PROVE  NewestSlot' = NewestSlot /\ Stored' = Stored
<1>1. CASE t = 0
  BY <1>1 DEF SettingsTypeOK, NewestSlot, Stored, Slots, SettingsValid
<1>2. CASE t = 1
  BY <1>2 DEF SettingsTypeOK, NewestSlot, Stored, Slots, SettingsValid
<1> QED BY <1>1, <1>2 DEF Slots

\* Completing an image in the slot that is not the newest, numbered one past
\* the newest image, makes it the newest.
LEMMA CompleteOther ==
  ASSUME SettingsTypeOK, SettingsTypeOK',
         NEW t \in Slots, t # NewestSlot,
         slot'[1 - t] = slot[1 - t],
         SettingsValid(slot'[t]),
         Stored # Absent => slot'[t].image.seq = SeqNext(Stored.seq)
  PROVE  /\ NewestSlot' = t
         /\ Stored' = slot'[t].image
         /\ SlotsOneApart'
<1>1. CASE NewestSlot = -1
  <2>1. ~SettingsValid(slot[1 - t])
    BY <1>1, StoredCases DEF Slots
  <2> QED BY <2>1 DEF SettingsTypeOK, NewestSlot, Stored, Slots, SlotsOneApart, SettingsValid
<1>2. CASE NewestSlot # -1
  <2> DEFINE q == slot[1 - t].image.seq
  <2>1. NewestSlot = 1 - t
    BY <1>2, StoredCases DEF Slots
  <2>2. /\ SettingsValid(slot[1 - t])
        /\ Stored = slot[1 - t].image
        /\ Stored # Absent
    BY <1>2, <2>1, StoredCases
  <2>3. q \in Seqs
    BY DEF SettingsTypeOK, SettingsImages, Slots
  <2>4. slot'[t].image.seq = SeqNext(q)
    BY <2>2
  <2>5. SeqNotOlder(SeqNext(q), q) /\ ~SeqNotOlder(q, SeqNext(q))
    BY <2>3, SeqNextIsNewer
  <2>6. CASE t = 0
    BY <2>2, <2>4, <2>5, <2>6 DEF NewestSlot, Stored, SlotsOneApart, SettingsValid
  <2>7. CASE t = 1
    BY <2>2, <2>4, <2>5, <2>7 DEF NewestSlot, Stored, SlotsOneApart, SettingsValid
  <2> QED BY <2>6, <2>7 DEF Slots
<1> QED BY <1>1, <1>2

-----------------------------------------------------------------------------
(* Type correctness.                                                        *)

\* What BeginSave puts into image is an image of the saving build's layout.
LEMMA BeginSaveImage ==
  ASSUME SettingsTypeOK, NEW b \in Builds, BeginSave(b)
  PROVE  /\ image' \in SettingsImages
         /\ image'.seq = PreparedSeq
         /\ image'.used = Size[b]
         /\ \E E \in Owned[b] : \A f \in (1..Size[b]) \ E :
              image'.field[f] = LoadBy(b, Stored)[f]
<1>0. PICK E \in Owned[b] : \E v \in [E -> Values] :
        image' = [seq   |-> PreparedSeq,
                  used  |-> Size[b],
                  field |-> [f \in 1..Fields |->
                               IF f \in E THEN v[f] ELSE SettingsLoad(b)[f]]]
  BY DEF BeginSave
<1>1. PICK v \in [E -> Values] :
        image' = [seq   |-> PreparedSeq,
                  used  |-> Size[b],
                  field |-> [f \in 1..Fields |->
                               IF f \in E THEN v[f] ELSE SettingsLoad(b)[f]]]
  BY <1>0
<1>2. PreparedSeq \in Seqs
  BY StoredCases, SeqNextIsNewer, SeqAssumption DEF PreparedSeq, SettingsImages, Seqs, SeqMod
<1>3. Size[b] \in 1..Fields
  BY SizeAssumption
<1>4. \A f \in 1..Fields : SettingsLoad(b)[f] \in Values
  BY StoredCases, DefaultAssumption
     DEF SettingsLoad, LoadBy, LoadOne, SettingsImages, Structs
<1>5. image'.field \in Structs
  BY <1>1, <1>4 DEF Structs
<1>6. \A f \in (1..Size[b]) \ E : image'.field[f] = LoadBy(b, Stored)[f]
  BY <1>1, <1>3, FieldsAssumption DEF SettingsLoad
<1> QED BY <1>1, <1>2, <1>3, <1>5, <1>6 DEF SettingsImages

\* Every variable keeps its type; in particular seq stays within its width and
\* a slot never counts more words than its image has.
THEOREM SettingsTypeCorrect == SettingsSpec => []SettingsTypeOK
<1>1. SettingsInit => SettingsTypeOK
  <2>1. Blank \in SettingsImages
    BY FieldsAssumption, DefaultAssumption, SeqAssumption
       DEF Blank, SettingsImages, Structs, Seqs, SeqMod
  <2>2. Blank.used = 1
    BY DEF Blank
  <2> SUFFICES ASSUME SettingsInit PROVE SettingsTypeOK
    OBVIOUS
  <2>3. \A n \in Slots : slot[n] = [image |-> Blank, words |-> 0]
    BY DEF SettingsInit
  <2>4. [image |-> Blank, words |-> 0] \in [image : SettingsImages, words : 0..(Fields + 1)]
    BY <2>1, FieldsAssumption
  <2>5. slot \in [Slots -> [image : SettingsImages, words : 0..(Fields + 1)]]
    BY <2>4 DEF SettingsInit
  <2>6. \A n \in Slots : slot[n].words <= Words(slot[n].image)
    BY <2>2, <2>3 DEF Words
  <2> QED BY <2>1, <2>5, <2>6 DEF SettingsInit, SettingsTypeOK, Slots
<1>2. SettingsTypeOK /\ [SettingsNext]_settingsVars => SettingsTypeOK'
  <2> SUFFICES ASSUME SettingsTypeOK, [SettingsNext]_settingsVars PROVE SettingsTypeOK'
    OBVIOUS
  <2>1. ASSUME NEW b \in Builds, BeginSave(b) PROVE SettingsTypeOK'
    <3>1. image' \in SettingsImages
      BY <2>1, BeginSaveImage
    <3>2. PreparedSlot \in Slots
      BY StoredCases DEF PreparedSlot, Slots
    <3> QED BY <2>1, <3>1, <3>2 DEF BeginSave, SettingsTypeOK
  <2>2. CASE EraseSlot
    BY <2>2, FieldsAssumption DEF EraseSlot, Programmed, SettingsTypeOK, Words, SettingsImages
  <2>3. CASE ProgramWord
    BY <2>3, FieldsAssumption DEF ProgramWord, Programmed, SettingsTypeOK, Words, SettingsImages
  <2>4. CASE FinishSave
    BY <2>4 DEF FinishSave, SettingsTypeOK
  <2>5. CASE FlashError
    BY <2>5, FieldsAssumption DEF FlashError, Programmed, SettingsTypeOK, Words, SettingsImages
  <2>6. CASE SavePowerLoss
    BY <2>6, FieldsAssumption DEF SavePowerLoss, Programmed, SettingsTypeOK, Words, SettingsImages
  <2>7. CASE UNCHANGED settingsVars
    BY <2>7 DEF settingsVars, SettingsTypeOK
  <2> QED BY <2>1, <2>2, <2>3, <2>4, <2>5, <2>6, <2>7 DEF SettingsNext
<1> QED BY <1>1, <1>2, PTL DEF SettingsSpec

-----------------------------------------------------------------------------
(* The inductive invariant.                                                 *)

\* A reader sees the same as long as the slots do not change.
LEMMA SameSlots ==
  ASSUME UNCHANGED slot
  PROVE  NewestSlot' = NewestSlot /\ Stored' = Stored /\ (SlotsOneApart <=> SlotsOneApart')
BY DEF NewestSlot, Stored, SlotsOneApart, SettingsValid

\* While a save is under way, erasing its target or programming a word other
\* than the last is invisible to a reader, and the last word makes the image
\* of the save the stored one.
LEMMA WriteTarget ==
  ASSUME SettingsTypeOK, SettingsTypeOK', SaveInv, Saving,
         NEW n \in Nat, n <= Words(image), slot' = Programmed(n)
  PROVE  /\ SlotsOneApart'
         /\ n < Words(image) => NewestSlot' = NewestSlot /\ Stored' = Stored
         /\ n = Words(image) => Stored' = image
<1>1. /\ targetSlot \in Slots
      /\ targetSlot # NewestSlot
      /\ Stored # Absent => image.seq = SeqNext(Stored.seq)
  BY DEF SettingsTypeOK, SaveInv, Aimed
<1>2. /\ slot'[targetSlot] = [image |-> image, words |-> n]
      /\ slot'[1 - targetSlot] = slot[1 - targetSlot]
  BY <1>1 DEF Programmed, SettingsTypeOK, Slots
<1>3. SettingsValid(slot'[targetSlot]) <=> n = Words(image)
  BY <1>2 DEF SettingsValid
<1>4. Words(image) \in Nat
  BY FieldsAssumption DEF SettingsTypeOK, SettingsImages, Words
<1>5. CASE n = Words(image)
  BY <1>1, <1>2, <1>3, <1>5, CompleteOther
<1>6. CASE n < Words(image)
  <2>1. ~SettingsValid(slot'[targetSlot])
    BY <1>3, <1>4, <1>6
  <2>2. NewestSlot' = NewestSlot /\ Stored' = Stored
    BY <1>1, <1>2, <2>1, SpoilOther
  <2>3. SlotsOneApart'
    BY <1>1, <2>1 DEF Slots, SlotsOneApart
  <2> QED BY <1>4, <1>6, <2>2, <2>3
<1> QED BY <1>4, <1>5, <1>6

\* The layout of an image never makes it shorter than the header and a field.
LEMMA WordsPositive ==
  ASSUME SettingsTypeOK PROVE Words(image) \in Nat /\ Words(image) > 0
BY FieldsAssumption DEF SettingsTypeOK, SettingsImages, Words

\* SaveInv is preserved by every step.
LEMMA SaveInvStep ==
  ASSUME SettingsTypeOK, SettingsTypeOK', SaveInv, [SettingsNext]_settingsVars
  PROVE  SaveInv'
<1>1. ASSUME NEW b \in Builds, BeginSave(b) PROVE SaveInv'
  <2>1. NewestSlot' = NewestSlot /\ Stored' = Stored /\ SlotsOneApart'
    BY <1>1, SameSlots DEF BeginSave, SaveInv
  <2>2. writer' = b /\ writer' # Absent /\ erased' = FALSE /\ result' = "none"
    BY <1>1, AbsentAssumption DEF BeginSave
  <2>3. Aimed'
    <3>1. targetSlot' = PreparedSlot /\ image'.seq = PreparedSeq
      BY <1>1, BeginSaveImage DEF BeginSave
    <3>2. PreparedSlot # NewestSlot
      BY StoredCases DEF PreparedSlot
    <3> QED BY <2>1, <3>1, <3>2 DEF Aimed, PreparedSeq
  <2>4. Merged'
    BY <1>1, <2>1, <2>2, BeginSaveImage DEF Merged
  <2> QED BY <2>1, <2>2, <2>3, <2>4 DEF SaveInv, SavedIsStored, Saving
<1>2. CASE EraseSlot
  <2>1. Saving /\ slot' = Programmed(0) /\ erased' /\ UNCHANGED <<writer, image, targetSlot, result>>
    BY <1>2 DEF EraseSlot, Saving
  <2>2. SlotsOneApart' /\ NewestSlot' = NewestSlot /\ Stored' = Stored
    BY <2>1, WriteTarget, WordsPositive
  <2>3. slot'[targetSlot].image = image
    BY <2>1 DEF Programmed, SettingsTypeOK
  <2>4. Aimed /\ Merged
    BY <2>1 DEF SaveInv
  <2>5. Aimed' /\ Merged'
    BY <2>1, <2>2, <2>4 DEF Aimed, Merged
  <2>6. SavedIsStored'
    BY <2>1, <2>2 DEF SaveInv, SavedIsStored
  <2>7. Saving'
    BY <2>1, WordsPositive DEF Saving, Programmed, SettingsTypeOK, EraseSlot
  <2> QED BY <2>1, <2>2, <2>3, <2>5, <2>6, <2>7 DEF SaveInv
<1>3. CASE ProgramWord
  <2> DEFINE n == slot[targetSlot].words + 1
  <2>1. /\ Saving /\ slot' = Programmed(n)
        /\ erased /\ UNCHANGED <<writer, image, targetSlot, erased, result>>
    BY <1>3, WordsPositive DEF ProgramWord, Saving
  <2>2. n \in Nat /\ n <= Words(image)
    BY <1>3, WordsPositive, FieldsAssumption DEF ProgramWord, SettingsTypeOK
  <2>3. slot'[targetSlot] = [image |-> image, words |-> n]
    BY <2>1 DEF Programmed, SettingsTypeOK
  <2>4. Aimed /\ Merged /\ SlotsOneApart'
    BY <2>1, <2>2, WriteTarget DEF SaveInv
  <2>5. CASE n < Words(image)
    <3>1. NewestSlot' = NewestSlot /\ Stored' = Stored
      BY <2>1, <2>2, <2>5, WriteTarget
    <3>2. Saving'
      BY <2>1, <2>2, <2>3, <2>5, WordsPositive DEF Saving
    <3>3. Aimed' /\ Merged'
      BY <2>1, <2>4, <3>1 DEF Aimed, Merged
    <3>4. SavedIsStored'
      BY <2>1, <3>1 DEF SaveInv, SavedIsStored
    <3> QED BY <2>1, <2>3, <2>4, <3>2, <3>3, <3>4 DEF SaveInv
  <2>6. CASE n = Words(image)
    <3>1. Stored' = image
      BY <2>1, <2>2, <2>6, WriteTarget
    <3>2. ~Saving'
      BY <2>1, <2>3, <2>6 DEF Saving
    <3> QED BY <2>1, <2>3, <2>4, <3>1, <3>2 DEF SaveInv, SavedIsStored
  <2> QED BY <2>2, <2>5, <2>6, WordsPositive
<1>4. CASE FinishSave
  <2>1. ~Saving /\ writer # Absent /\ writer' = Absent /\ UNCHANGED <<slot, image, targetSlot, erased>>
    BY <1>4 DEF FinishSave, Saving
  <2>2. Stored' = image' /\ SlotsOneApart' /\ ~Saving'
    BY <2>1, SameSlots DEF SaveInv, Saving
  <2> QED BY <2>1, <2>2 DEF SaveInv, SavedIsStored
<1>5. CASE FlashError \/ SavePowerLoss
  <2>1. writer' = Absent /\ result' # "ok" /\ ~Saving'
    BY <1>5 DEF FlashError, SavePowerLoss, Saving
  <2>2. \/ UNCHANGED slot
        \/ Saving /\ \E n \in Nat : n <= Words(image) /\ slot' = Programmed(n)
    <3>1. CASE UNCHANGED slot
      BY <3>1
    <3>2. CASE ~erased /\ slot' = Programmed(0)
      BY <1>5, <3>2, WordsPositive DEF FlashError, SavePowerLoss, Saving
    <3>3. CASE /\ FlashError /\ erased
               /\ slot' = Programmed(slot[targetSlot].words + 1)
      <4>1. slot[targetSlot].words + 1 \in Nat /\ slot[targetSlot].words + 1 <= Words(image)
        BY <3>3, WordsPositive, FieldsAssumption DEF FlashError, SettingsTypeOK
      <4>2. Saving
        BY <3>3, WordsPositive DEF FlashError, SettingsTypeOK, Saving
      <4> QED BY <3>3, <4>1, <4>2
    <3> QED BY <1>5, <3>1, <3>2, <3>3 DEF FlashError, SavePowerLoss
  <2>3. SlotsOneApart'
    BY <2>2, SameSlots, WriteTarget DEF SaveInv
  <2> QED BY <2>1, <2>3 DEF SaveInv, SavedIsStored
<1>6. CASE UNCHANGED settingsVars
  <2>1. NewestSlot' = NewestSlot /\ Stored' = Stored /\ SlotsOneApart'
    BY <1>6, SameSlots DEF settingsVars, SaveInv
  <2>2. Saving' <=> Saving
    BY <1>6 DEF settingsVars, Saving
  <2> QED BY <1>6, <2>1, <2>2 DEF settingsVars, SaveInv, SavedIsStored, Aimed, Merged
<1> QED BY <1>1, <1>2, <1>3, <1>4, <1>5, <1>6 DEF SettingsNext

\* The inductive invariant of the store.
LEMMA SaveInvariant == SettingsSpec => []SaveInv
<1>1. SettingsInit => SaveInv
  <2> SUFFICES ASSUME SettingsInit PROVE SaveInv
    OBVIOUS
  <2>1. \A n \in Slots : ~SettingsValid(slot[n])
    BY DEF SettingsInit, Blank, SettingsValid, Words
  <2> QED BY <2>1 DEF SettingsInit, SaveInv, SlotsOneApart, SavedIsStored, Saving, Slots
<1>2. SettingsTypeOK /\ SettingsTypeOK' /\ SaveInv /\ [SettingsNext]_settingsVars => SaveInv'
  BY SaveInvStep
<1> QED BY <1>1, <1>2, SettingsTypeCorrect, PTL DEF SettingsSpec

\* The slots' sequence numbers are neighbours, so settings_pick never compares
\* numbers half the range apart, whatever the width of seq.
THEOREM OneApart == SettingsSpec => []SlotsOneApart
<1>1. SaveInv => SlotsOneApart
  BY DEF SaveInv
<1> QED BY <1>1, SaveInvariant, PTL

\* A save that returned success is what every later load reads.
THEOREM SavedStays == SettingsSpec => []SavedIsStored
<1>1. SaveInv => SavedIsStored
  BY DEF SaveInv
<1> QED BY <1>1, SaveInvariant, PTL

-----------------------------------------------------------------------------
(* What a step does to the stored image.                                    *)

\* A step leaves the stored image alone, or it programs the last word of the
\* save in progress and the image of that save is the stored one afterwards.
LEMMA StoredStep ==
  ASSUME SettingsTypeOK, SettingsTypeOK', SaveInv, [SettingsNext]_settingsVars
  PROVE  \/ Stored' = Stored
         \/ Saving /\ ~Saving' /\ Stored' = image /\ UNCHANGED image
<1>1. ASSUME Saving, UNCHANGED image, NEW n \in Nat, n <= Words(image), slot' = Programmed(n),
             n = Words(image) => writer' = Absent \/ (erased' /\ UNCHANGED targetSlot)
      PROVE  \/ Stored' = Stored
             \/ Saving /\ ~Saving' /\ Stored' = image /\ UNCHANGED image
  <2>1. CASE n < Words(image)
    BY <1>1, <2>1, WriteTarget
  <2>2. CASE n = Words(image)
    <3>1. Stored' = image
      BY <1>1, <2>2, WriteTarget
    <3>2. slot'[targetSlot] = [image |-> image, words |-> n]
      BY <1>1 DEF Programmed, SettingsTypeOK
    <3>3. ~Saving'
      BY <1>1, <2>2, <3>2 DEF Saving
    <3> QED BY <1>1, <3>1, <3>3
  <2> QED BY <1>1, <2>1, <2>2, WordsPositive
<1>2. CASE EraseSlot
  <2>1. Saving /\ UNCHANGED image /\ slot' = Programmed(0)
    BY <1>2 DEF EraseSlot, Saving
  <2> QED BY <2>1, WriteTarget, WordsPositive
<1>3. CASE ProgramWord
  <2>1. /\ slot[targetSlot].words + 1 \in Nat
        /\ slot[targetSlot].words + 1 <= Words(image)
        /\ Saving
    BY <1>3, WordsPositive, FieldsAssumption DEF ProgramWord, SettingsTypeOK, Saving
  <2> QED BY <1>1, <1>3, <2>1 DEF ProgramWord
<1>4. CASE FlashError \/ SavePowerLoss
  <2>1. writer' = Absent /\ UNCHANGED image
    BY <1>4 DEF FlashError, SavePowerLoss
  <2>2. CASE UNCHANGED slot
    BY <2>2, SameSlots
  <2>3. CASE ~erased /\ slot' = Programmed(0)
    <3>1. Saving
      BY <1>4, <2>3 DEF FlashError, SavePowerLoss, Saving
    <3> QED BY <2>3, <3>1, WriteTarget, WordsPositive
  <2>4. CASE FlashError /\ erased /\ slot' = Programmed(slot[targetSlot].words + 1)
    <3>1. /\ slot[targetSlot].words + 1 \in Nat
          /\ slot[targetSlot].words + 1 <= Words(image)
          /\ Saving
      BY <2>4, WordsPositive, FieldsAssumption DEF FlashError, SettingsTypeOK, Saving
    <3> QED BY <1>1, <2>1, <2>4, <3>1
  <2> QED BY <1>4, <2>2, <2>3, <2>4 DEF FlashError, SavePowerLoss
<1>5. CASE (\E b \in Builds : BeginSave(b)) \/ FinishSave \/ UNCHANGED settingsVars
  BY <1>5, SameSlots DEF BeginSave, FinishSave, settingsVars
<1> QED BY <1>2, <1>3, <1>4, <1>5 DEF SettingsNext

\* The two slots implement the atomic register: a step of the store begins,
\* commits or abandons a save, or is invisible.
THEOREM ImplementsRegister == SettingsSpec => AtomicStore
<1> DEFINE pend == IF Saving THEN image ELSE Absent
<1>1. SettingsInit => Register!Init
  <2> SUFFICES ASSUME SettingsInit PROVE Register!Init
    OBVIOUS
  <2>1. \A n \in Slots : ~SettingsValid(slot[n])
    BY DEF SettingsInit, Blank, SettingsValid, Words
  <2>2. Stored = Absent
    BY <2>1 DEF Stored, NewestSlot, Slots
  <2> QED BY <2>2 DEF SettingsInit, Saving, Register!Init
<1>2. SettingsTypeOK /\ SettingsTypeOK' /\ SaveInv /\ SaveInv' /\ [SettingsNext]_settingsVars => [Register!Next]_(Register!vars)
  <2> SUFFICES ASSUME SettingsTypeOK, SettingsTypeOK', SaveInv, SaveInv', [SettingsNext]_settingsVars
               PROVE  Register!Next \/ UNCHANGED <<Stored, pend>>
    BY DEF Register!vars
  <2>0. image # Absent /\ image' # Absent
    BY AbsentAssumption DEF SettingsTypeOK
  <2>1. CASE Saving /\ ~Saving' /\ Stored' = image
    <3>1. Register!Commit
      BY <2>0, <2>1 DEF Register!Commit
    <3> QED BY <3>1 DEF Register!Next
  <2>2. CASE Stored' = Stored /\ Saving /\ ~Saving'
    <3>1. Register!Abandon
      BY <2>0, <2>2 DEF Register!Abandon
    <3> QED BY <3>1 DEF Register!Next
  <2>3. CASE Stored' = Stored /\ ~Saving /\ Saving'
    <3>1. Register!Begin
      BY <2>0, <2>3 DEF Register!Begin, SettingsTypeOK
    <3> QED BY <3>1 DEF Register!Next
  <2>4. CASE Stored' = Stored /\ ~Saving /\ ~Saving'
    BY <2>4
  <2>5. CASE Stored' = Stored /\ Saving /\ Saving'
    <3>1. UNCHANGED image
      BY <2>5 DEF SettingsNext, settingsVars, Saving, BeginSave, EraseSlot, ProgramWord, FinishSave,
                  FlashError, SavePowerLoss
    <3> QED BY <2>5, <3>1
  <2> QED BY StoredStep, <2>1, <2>2, <2>3, <2>4, <2>5
<1> QED BY <1>1, <1>2, SettingsTypeCorrect, SaveInvariant, PTL DEF SettingsSpec, AtomicStore, Register!Spec

\* Whatever faults interrupt a save, a field that the saving build knows and
\* does not assign reads the same before and after.
THEOREM KnownFields == SettingsSpec => KnownFieldsSurvive
<1>1. SettingsTypeOK /\ SettingsTypeOK' /\ SaveInv /\ [SettingsNext]_settingsVars =>
        [Stored' # Stored =>
           \E E \in Owned[writer] : \A f \in (1..Size[writer]) \ E :
             LoadBy(writer, Stored')[f] = LoadBy(writer, Stored)[f]]_settingsVars
  <2> SUFFICES ASSUME SettingsTypeOK, SettingsTypeOK', SaveInv, [SettingsNext]_settingsVars, Stored' # Stored
               PROVE  \E E \in Owned[writer] : \A f \in (1..Size[writer]) \ E :
                        LoadBy(writer, Stored')[f] = LoadBy(writer, Stored)[f]
    OBVIOUS
  <2>1. Saving /\ Stored' = image /\ Merged /\ writer \in Builds
    BY StoredStep DEF SaveInv, Saving, SettingsTypeOK
  <2>2. PICK E \in Owned[writer] : \A f \in (1..Size[writer]) \ E :
          image.field[f] = LoadBy(writer, Stored)[f]
    BY <2>1 DEF Merged
  <2>3. \A f \in 1..Size[writer] : LoadBy(writer, image)[f] = image.field[f]
    <3>1. image.used = Size[writer] /\ Size[writer] \in 1..Fields /\ image # Absent
      BY <2>1, SizeAssumption, AbsentAssumption DEF Merged, SettingsTypeOK
    <3> QED BY <3>1, FieldsAssumption DEF LoadBy, LoadOne
  <2> QED BY <2>1, <2>2, <2>3
<1> QED BY <1>1, SettingsTypeCorrect, SaveInvariant, PTL DEF SettingsSpec, KnownFieldsSurvive
=============================================================================
