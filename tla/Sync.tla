-------------------------------- MODULE Sync --------------------------------
(***************************************************************************)
(* One scale of the motion core (app/src/Ramps.c) and the steps the servo is *)
(* asked to follow it with: the encoder turns, the 100 kHz interrupt reads   *)
(* its timer, keeps the position and scales the movement by num / den,       *)
(* carrying the remainder; the client writes position, ratio and sync.       *)
(* The scales are independent: the interrupt adds up what they ask for.      *)
(***************************************************************************)
EXTENDS Ratio

CONSTANTS
  Nums, Dens,   \* sync ratios the client sets
  Half,         \* half the range of an int16_t and of the encoder timer: 2^15
  Laps,         \* ranges of an int16_t in the range of a position: 2^16
  MaxDebt       \* bound: the encoder stands once more than this is owed

ASSUME RatioAssumption == Nums \subseteq Int /\ Dens \subseteq Int
ASSUME CounterAssumption == Half \in Nat \ {0} /\ Laps \in Nat \ {0}

CountMod == 2 * Half
PosMod == Laps * CountMod

VARIABLES
  count,         \* the encoder timer's counter
  seen,          \* scalesDeltaPos.position
  position,      \* scales.position
  oldPosition,   \* scalesSyncDeltaPos.oldPosition
  error,         \* scalesSyncDeltaPos.error
  num, den,      \* scales.syncRatioNum, syncRatioDen
  syncEnable,    \* scales.syncEnable
  unseen,        \* history: counts since the last interrupt
  place,         \* history: where the scale is, from the last position written
  owed,          \* history: num * counts - den * steps asked for
  written        \* history: the position was written since the last interrupt

ratio == <<num, den, syncEnable>>
timer == <<count, seen, unseen>>
syncVars == <<timer, position, oldPosition, error, ratio, place, owed, written>>

(* Mutant: without the cast to int16_t.                                     *)
Int16Unsigned(x) == x % CountMod

(* (int16_t) x                                                               *)
Int16(x) == LET r == x % CountMod IN IF r < Half THEN r ELSE r - CountMod

SyncTypeOK ==
  /\ count \in 0..(CountMod - 1) /\ seen \in 0..(CountMod - 1)
  /\ position \in 0..(PosMod - 1) /\ oldPosition \in 0..(PosMod - 1) /\ place \in 0..(PosMod - 1)
  /\ num \in Nums /\ den \in Dens /\ syncEnable \in BOOLEAN /\ written \in BOOLEAN
  /\ error \in Int /\ owed \in Int
  /\ unseen \in Int /\ Abs(unseen) < Half

SyncInit ==
  /\ count = 0 /\ seen = 0 /\ position = 0 /\ oldPosition = 0 /\ error = 0
  /\ num \in Nums /\ den \in Dens /\ syncEnable = FALSE
  /\ unseen = 0 /\ place = 0 /\ owed = 0 /\ written = FALSE

(* Fewer than Half counts come in the 10 us between two interrupts.           *)
Turn ==
  \E d \in {-1, 1} :
    /\ Abs(unseen + d) < Half /\ Abs(owed + num * d) <= MaxDebt
    /\ count' = (count + d) % CountMod
    /\ unseen' = unseen + d
    /\ place' = (place + d) % PosMod
    /\ owed' = owed + num * d
    /\ UNCHANGED <<seen, position, oldPosition, error, ratio, written>>

Delta == Int16(count - seen)
Moved == Int16(position + Delta - oldPosition)
StartValue == Moved * num + error
ScaledDelta == Quot(StartValue, den)

Remainder == Rem(StartValue, den)

(* The loop body of SynchroRefreshTimerIsr.  Steps of a scale that does not   *)
(* sync are not asked for, and what a written position adds is nothing the   *)
(* encoder is owed.                                                          *)
SyncTick ==
  /\ seen' = count /\ unseen' = 0
  /\ position' = (position + Delta) % PosMod
  /\ oldPosition' = position'
  /\ error' = Remainder
  /\ owed' = IF syncEnable /\ ~written THEN owed - den * ScaledDelta ELSE Remainder
  /\ written' = FALSE
  /\ UNCHANGED <<count, ratio, place>>

(* The client's set commands; a new ratio applies to the counts not yet seen. *)
SetPosition ==
  /\ Abs(error) <= MaxDebt
  /\ position' \in 0..(PosMod - 1)
  /\ place' = (position' + unseen) % PosMod /\ written' = TRUE
  /\ UNCHANGED <<timer, oldPosition, error, ratio, owed>>

SetRatio ==
  /\ \/ num' \in Nums /\ den' = den
     \/ den' \in Dens /\ num' = num
  /\ owed' = error + num' * unseen
  /\ UNCHANGED <<timer, position, oldPosition, error, syncEnable, place, written>>

SetSyncEnable ==
  /\ syncEnable' \in BOOLEAN
  /\ UNCHANGED <<timer, position, oldPosition, error, num, den, place, owed, written>>

SyncNext == Turn \/ SyncTick \/ SetPosition \/ SetRatio \/ SetSyncEnable

SyncSpec == SyncInit /\ [][SyncNext]_syncVars

-----------------------------------------------------------------------------
(* Properties *)

(* No encoder count is lost or counted twice, across the wrap of the timer    *)
(* and of the position and whatever the client writes.                       *)
NoCountLost == (position + unseen) % PosMod = place

(* No movement is forgotten: what the servo still owes the encoder is the     *)
(* remainder carried and what the counts not yet seen will add, for every     *)
(* ratio, a denominator of zero included, of which `set` makes no error: then  *)
(* the whole movement is kept until there is another (deltaPositionAndError).  *)
DebtKept == owed = error + num * unseen

(* However long it follows, the servo is asked for the exact ratio: after     *)
(* every interrupt less than one step is owed (deltaPositionAndError carries  *)
(* the remainder).  And an interrupt never asks for more than is owed, nor    *)
(* the other way: a remainder kept under one ratio is paid once under the     *)
(* next, and motion that turns round or a ratio that changes sign make the    *)
(* servo no step too many.                                                   *)
NoDrift ==
  [][SyncTick =>
       /\ den # 0 => Abs(owed') < Abs(den)
       /\ syncEnable /\ ~written => Abs(owed') <= Abs(owed) /\ (owed' # 0 => Sign(owed') = Sign(owed))]_syncVars
=============================================================================
