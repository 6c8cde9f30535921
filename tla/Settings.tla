------------------------------ MODULE Settings ------------------------------
(***************************************************************************)
(* The persistent settings: one struct, kept in two flash slots that are    *)
(* written alternately ("ping-pong"), by the application                    *)
(* (SettingsStore.c) and by the bootloader (flash.c), which are built        *)
(* separately and may know different versions of the struct (Settings.h).   *)
(*                                                                         *)
(* A settings image is a header word (crc, magic, used_size, seq) followed  *)
(* by its fields, one word each, in the frozen append-only order 1..Fields. *)
(* A build knows a prefix of that order.  A slot remembers how many of the  *)
(* words of its image have been programmed since it was erased.             *)
(***************************************************************************)
EXTENDS Integers

CONSTANTS
  Builds,       \* the programs that save settings: bootloader, app versions
  Fields,       \* number of fields of the newest layout
  Size,         \* Size[b]: how many of them the struct of build b has
  Owned,        \* Owned[b]: the sets of fields one save of b assigns
  Values,       \* field values
  Default,      \* Default[f]: what settings_defaults gives field f
  SeqHalf,      \* seq is counted modulo 2 * SeqHalf (2^32 in the code)
  Absent        \* no build, no image

ASSUME FieldsAssumption == Fields \in Nat \ {0}
ASSUME SizeAssumption == Size \in [Builds -> 1..Fields]
ASSUME OwnedAssumption ==
  /\ Owned \in [Builds -> SUBSET SUBSET (1..Fields)]
  /\ \A b \in Builds : \A E \in Owned[b] : E \subseteq 1..Size[b]
ASSUME DefaultAssumption == Default \in [1..Fields -> Values]
ASSUME SeqAssumption == SeqHalf \in Nat \ {0, 1}

SeqMod == 2 * SeqHalf
Seqs == 0..(SeqMod - 1)
Slots == {0, 1}

(***************************************************************************)
(* Structs.  Fields a build does not know carry their default, so a struct  *)
(* in RAM is a total function and `used' says how much of it is real.       *)
(***************************************************************************)
Structs == [1..Fields -> Values]
SettingsImages == [seq : Seqs, used : 1..Fields, field : Structs]
ASSUME AbsentAssumption == Absent \notin Builds /\ Absent \notin SettingsImages

VARIABLES
  slot,     \* slot[n]: the image being or having been programmed, and the
            \* number of its words that are in flash (0 after an erase)
  writer,   \* the build that is saving, or Absent
  image,    \* its struct in RAM, sealed, with the layout it was sealed for
  targetSlot, \* the slot settings_prepare chose
  erased,   \* the sector erase of this save has been done
  result    \* what the last finished save returned to its caller

settingsVars == <<slot, writer, image, targetSlot, erased, result>>

Words(i) == i.used + 1

SettingsTypeOK ==
  /\ slot \in [Slots -> [image : SettingsImages, words : 0..(Fields + 1)]]
  /\ \A n \in Slots : slot[n].words <= Words(slot[n].image)
  /\ writer \in Builds \union {Absent}
  /\ image \in SettingsImages
  /\ targetSlot \in Slots
  /\ erased \in BOOLEAN
  /\ result \in {"none", "ok", "error"}

-----------------------------------------------------------------------------
(* Reading (Settings.h).                                                    *)

SettingsValid(s) == s.words = Words(s.image)

SeqNext(q) == IF q = SeqMod - 1 THEN 0 ELSE q + 1

\* Faulty variant: the numbers are compared without the wrap.
SeqNotOlderUnsigned(q, r) == q >= r

\* (int32_t)(q - r) >= 0
SeqNotOlder(q, r) == (IF q >= r THEN q - r ELSE q - r + SeqMod) < SeqHalf

\* The slot that holds the newest valid image, -1 if neither is valid.
NewestSlot ==
  IF SettingsValid(slot[0]) /\ SettingsValid(slot[1])
  THEN IF SeqNotOlder(slot[1].image.seq, slot[0].image.seq) THEN 1 ELSE 0
  ELSE IF SettingsValid(slot[0]) THEN 0
  ELSE IF SettingsValid(slot[1]) THEN 1 ELSE -1

\* The fields of a build's struct after settings_load_one of an image.
LoadOne(b, i) ==
  [f \in 1..Fields |-> IF f <= i.used /\ f <= Size[b] THEN i.field[f] ELSE Default[f]]

Stored == IF NewestSlot = -1 THEN Absent ELSE slot[NewestSlot].image

\* settings_pick: the newest valid slot, or the defaults
LoadBy(b, i) == IF i = Absent THEN Default ELSE LoadOne(b, i)

\* Faulty variant: the writer starts from the defaults.
SettingsLoadSkipped(b) == LoadBy(b, Absent)

SettingsLoad(b) == LoadBy(b, Stored)

-----------------------------------------------------------------------------
(* Writing (SettingsStore.c, flash.c).                                      *)

\* No image yet: contents that are never read.
Blank == [seq |-> 0, used |-> 1, field |-> Default]

SettingsInit ==
  /\ slot = [n \in Slots |-> [image |-> Blank, words |-> 0]]
  /\ writer = Absent
  /\ image = Blank
  /\ targetSlot = 0
  /\ erased = FALSE
  /\ result = "none"

\* Faulty variant: the newest slot is written in place.
PreparedSlotInPlace == IF NewestSlot = -1 THEN 0 ELSE NewestSlot

\* settings_prepare: one past the newest image, into the other slot.
PreparedSeq == IF Stored = Absent THEN 1 ELSE SeqNext(Stored.seq)
PreparedSlot == IF NewestSlot = -1 THEN 0 ELSE 1 - NewestSlot

\* The target slot has been erased and then the first n words of image programmed.
Programmed(n) == [slot EXCEPT ![targetSlot] = [image |-> image, words |-> n]]

\* Every save: load the struct, assign some of its fields, prepare and seal.
BeginSave(b) ==
  /\ writer = Absent
  /\ \E E \in Owned[b] : \E v \in [E -> Values] :
       image' = [seq   |-> PreparedSeq,
                 used  |-> Size[b],
                 field |-> [f \in 1..Fields |->
                              IF f \in E THEN v[f] ELSE SettingsLoad(b)[f]]]
  /\ writer' = b
  /\ targetSlot' = PreparedSlot
  /\ erased' = FALSE
  /\ result' = "none"
  /\ UNCHANGED slot

EraseSlot ==
  /\ writer # Absent
  /\ ~erased
  /\ slot' = Programmed(0)
  /\ erased' = TRUE
  /\ UNCHANGED <<writer, image, targetSlot, result>>

ProgramWord ==
  /\ writer # Absent
  /\ erased
  /\ slot[targetSlot].words < Words(image)
  /\ slot' = Programmed(slot[targetSlot].words + 1)
  /\ UNCHANGED <<writer, image, targetSlot, erased, result>>

FinishSave ==
  /\ writer # Absent
  /\ erased
  /\ slot[targetSlot].words = Words(image)
  /\ writer' = Absent
  /\ result' = "ok"
  /\ UNCHANGED <<slot, image, targetSlot, erased>>

\* HAL_FLASHEx_Erase fails, whether or not the sector is spoilt; or programming
\* a word or its read-back fails, whether or not the word is in the flash.
FlashError ==
  /\ writer # Absent
  /\ \/ UNCHANGED slot
     \/ /\ ~erased
        /\ slot' = Programmed(0)
     \/ /\ erased
        /\ slot' = Programmed(slot[targetSlot].words + 1)
  /\ erased => slot[targetSlot].words < Words(image)
  /\ writer' = Absent
  /\ result' = "error"
  /\ UNCHANGED <<image, targetSlot, erased>>

\* A brown-out or reset: the RAM is lost, an interrupted erase may have spoilt
\* the sector, and whichever build runs next starts from the flash.
SavePowerLoss ==
  /\ writer # Absent
  /\ \/ /\ ~erased
        /\ slot' = Programmed(0)
     \/ UNCHANGED slot
  /\ writer' = Absent
  /\ result' = "none"
  /\ UNCHANGED <<image, targetSlot, erased>>

SettingsNext ==
  \/ \E b \in Builds : BeginSave(b)
  \/ EraseSlot
  \/ ProgramWord
  \/ FinishSave
  \/ FlashError
  \/ SavePowerLoss

SettingsSpec == SettingsInit /\ [][SettingsNext]_settingsVars

-----------------------------------------------------------------------------
(* Properties.                                                              *)

\* The save in progress has not put its last word into the flash yet.
Saving == writer # Absent /\ ~(erased /\ slot[targetSlot].words = Words(image))

Register == INSTANCE SettingsRegister
              WITH Values  <- SettingsImages,
                   value   <- Stored,
                   pending <- IF Saving THEN image ELSE Absent,
                   None    <- Absent

\* The two slots behave as one atomic register: what settings_load reads
\* changes only to the image of the save in progress, in the single step that
\* programs its last word; a brown-out or a flash error at any other moment
\* leaves the previous image (Settings.h: "a brown-out mid-erase leaves the
\* previous slot intact").
AtomicStore == Register!Spec

\* While both slots hold a valid image their sequence numbers are neighbours,
\* so the signed comparison of settings_pick stays right across a wrap of seq.
SlotsOneApart ==
  SettingsValid(slot[0]) /\ SettingsValid(slot[1]) =>
    \/ slot[1].image.seq = SeqNext(slot[0].image.seq)
    \/ slot[0].image.seq = SeqNext(slot[1].image.seq)

\* A save that reported success is what the next settings_load of any build
\* reads: result 0 is never returned for an image that lost to an older one.
SavedIsStored == result = "ok" => Stored = image

\* A save may change the fields it assigns; every other field that its build
\* knows keeps the value the previous image gave it, also when a power loss
\* came between (read-modify-write of the whole struct).
KnownFieldsSurvive ==
  [][Stored' # Stored =>
       \E E \in Owned[writer] : \A f \in (1..Size[writer]) \ E :
         LoadBy(writer, Stored')[f] = LoadBy(writer, Stored)[f]]_settingsVars

\* The stronger claim of Settings.h 6-7 and 15-18: the fields survive whoever
\* reads them next, also those the writing build does not know.
AllFieldsSurvive ==
  [][Stored' # Stored =>
       \E E \in Owned[writer] : \A b \in Builds : \A f \in (1..Size[b]) \ E :
         LoadBy(b, Stored')[f] = LoadBy(b, Stored)[f]]_settingsVars
=============================================================================
