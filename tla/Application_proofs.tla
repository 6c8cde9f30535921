------------------------- MODULE Application_proofs -------------------------
(***************************************************************************)
(* Proofs about the application's own parts.  Sync, for every ratio, every   *)
(* counter width and every number of ticks: the inductive invariant Tracked  *)
(* says what the two histories count, that the timer is ahead of seen by the *)
(* unseen counts and the debt is the remainder carried plus what the unseen  *)
(* counts will add.  Servo, for every speed and acceleration.  The line      *)
(* protocol: what the interrupt assembles fits its buffer and is made of the *)
(* client's bytes only; and once a fault is over every line is executed once, *)
(* as the client meant it.                                                   *)
(***************************************************************************)
EXTENDS Sync, Servo, Protocol, SequenceTheorems, TLAPS

-----------------------------------------------------------------------------
(* Division *)

(* A number is determined modulo m by its remainder, whatever the quotient.   *)
LEMMA RemainderUnique ==
  ASSUME NEW m \in Nat \ {0}, NEW q \in Int, NEW r \in 0..(m - 1)
  PROVE  (m * q + r) % m = r
  BY Z3

LEMMA Division ==
  ASSUME NEW m \in Nat \ {0}, NEW a \in Int
  PROVE  a \div m \in Int /\ a % m \in 0..(m - 1) /\ a = m * (a \div m) + (a % m)
  BY Z3

(* Wrapping once more, or once less, makes no difference.                     *)
LEMMA WrapSum ==
  ASSUME NEW m \in Nat \ {0}, NEW a \in Int, NEW d \in Int
  PROVE  ((a % m) + d) % m = (a + d) % m
<1>1. ASSUME NEW q \in Int, NEW r \in 0..(m - 1), a = m * q + r,
             NEW p \in Int, NEW t \in 0..(m - 1), r + d = m * p + t
      PROVE  (a + d) % m = t
  <2>1. m * q + m * p = m * (q + p)
    BY <1>1, Z3
  <2>2. a + d = m * (q + p) + t
    BY <1>1, <2>1
  <2>3. (m * (q + p) + t) % m = t
    BY <1>1, RemainderUnique
  <2> QED BY <2>2, <2>3
<1>2. a \div m \in Int /\ a % m \in 0..(m - 1) /\ a = m * (a \div m) + (a % m)
  BY Division
<1>3. (a % m) + d \in Int
  BY <1>2
<1>4. /\ ((a % m) + d) \div m \in Int /\ ((a % m) + d) % m \in 0..(m - 1)
      /\ (a % m) + d = m * (((a % m) + d) \div m) + (((a % m) + d) % m)
  BY <1>3, Division
<1> QED BY <1>1, <1>2, <1>4

(* The remainder of C's division is smaller than the divisor, and lies between *)
(* zero and what was divided.                                                *)
LEMMA RemainderBound ==
  ASSUME NEW a \in Int, NEW b \in Int
  PROVE  /\ Rem(a, b) \in Int /\ Quot(a, b) \in Int
         /\ b # 0 => Abs(Rem(a, b)) < Abs(b)
         /\ Abs(Rem(a, b)) <= Abs(a)
         /\ Rem(a, b) # 0 => Sign(Rem(a, b)) = Sign(a)
<1> DEFINE m == Abs(b)
           n == Abs(a)
<1>0. CASE b = 0
  <2>1. Quot(a, b) = 0 /\ Rem(a, b) = a
    BY <1>0 DEF Quot, Rem
  <2> QED BY <1>0, <2>1 DEF Abs
<1>10. CASE b # 0
  <2>1. m \in Nat \ {0} /\ n \in Nat
    BY <1>10 DEF Abs
  <2>2. n \div m \in Int /\ n % m \in 0..(m - 1) /\ n = m * (n \div m) + (n % m) /\ n \div m >= 0
    <3> HIDE DEF m, n
    <3> QED BY <2>1, Z3
  <2>3. a = Sign(a) * n /\ b = Sign(b) * m /\ Sign(a) \in {-1, 1} /\ Sign(b) \in {-1, 1}
    BY DEF Abs, Sign
  <2>4. Quot(a, b) = Sign(a) * Sign(b) * (n \div m)
    BY <1>10 DEF Quot
  <2>5. b * Quot(a, b) = Sign(a) * (m * (n \div m))
    <3> HIDE DEF m, n
    <3> QED BY <2>1, <2>2, <2>3, <2>4, Z3
  <2>6. Rem(a, b) = Sign(a) * (n % m)
    <3> HIDE DEF m, n
    <3> QED BY <2>1, <2>2, <2>3, <2>5, Z3 DEF Rem
  <2>7. Quot(a, b) \in Int
    <3> HIDE DEF m, n
    <3> QED BY <2>2, <2>3, <2>4
  <2>8. Rem(a, b) \in Int /\ Abs(Rem(a, b)) < m
    <3> HIDE DEF m, n
    <3> QED BY <2>1, <2>2, <2>3, <2>6 DEF Abs
  <2>9. n % m <= n
    <3>1. m * (n \div m) >= 0
      <4> HIDE DEF m, n
      <4> QED BY <2>1, <2>2, Z3
    <3> HIDE DEF m, n
    <3> QED BY <2>1, <2>2, <3>1
  <2>10. Abs(Rem(a, b)) <= n
    <3> HIDE DEF m, n
    <3> QED BY <2>1, <2>2, <2>3, <2>6, <2>9 DEF Abs
  <2>11. Rem(a, b) # 0 => Sign(Rem(a, b)) = Sign(a)
    <3> HIDE DEF m, n
    <3> QED BY <2>1, <2>2, <2>3, <2>6 DEF Sign
  <2> QED BY <2>7, <2>8, <2>10, <2>11
<1> QED BY <1>0, <1>10

-----------------------------------------------------------------------------
(* Casts *)

LEMMA Widths == CountMod \in Nat \ {0} /\ PosMod \in Nat \ {0}
<1>1. CountMod \in Nat \ {0}
  BY CounterAssumption DEF CountMod
<1>2. ASSUME NEW a \in Nat \ {0}, NEW b \in Nat \ {0}
      PROVE  a * b \in Nat \ {0}
  <2>1. a * b > 0 /\ a * b \in Int
    BY Z3
  <2> QED BY <2>1
<1>3. Laps * CountMod \in Nat \ {0}
  BY <1>1, <1>2, CounterAssumption
<1> QED BY <1>1, <1>3 DEF PosMod

(* A movement of less than half the range survives the cast to int16_t.       *)
LEMMA Int16Small ==
  ASSUME NEW x \in Int, Abs(x) < Half
  PROVE  Int16(x) = x
<1>1. CountMod \in Nat \ {0} /\ CountMod = 2 * Half /\ Half \in Nat
  BY Widths, CounterAssumption DEF CountMod
<1>2. CASE x >= 0
  <2>1. (CountMod * 0 + x) % CountMod = x
    BY <1>1, <1>2, RemainderUnique DEF Abs
  <2> QED BY <1>1, <1>2, <2>1 DEF Int16, Abs
<1>3. CASE x < 0
  <2>1. (CountMod * (-1) + (x + CountMod)) % CountMod = x + CountMod
    BY <1>1, <1>3, RemainderUnique DEF Abs
  <2>2. x % CountMod = x + CountMod
    BY <1>1, <2>1
  <2> QED BY <1>1, <1>3, <2>2 DEF Int16, Abs
<1> QED BY <1>2, <1>3

(* It also survives that the timer wrapped between the two readings.          *)
LEMMA Int16Wrapped ==
  ASSUME NEW a \in Int, NEW x \in Int, Abs(x) < Half
  PROVE  Int16(((a + x) % CountMod) - a) = x
<1>1. (((a + x) % CountMod) + (-a)) % CountMod = ((a + x) + (-a)) % CountMod
  <2>1. a + x \in Int /\ -a \in Int
    OBVIOUS
  <2> QED BY <2>1, Widths, WrapSum
<1>2. (a + x) % CountMod \in Int
  BY Widths, Z3
<1>3. (((a + x) % CountMod) - a) % CountMod = x % CountMod
  BY <1>1, <1>2
<1> QED BY <1>3, Int16Small DEF Int16

-----------------------------------------------------------------------------
(* The invariant *)

Tracked ==
  /\ count = (seen + unseen) % CountMod
  /\ ~written => position = oldPosition
  /\ DebtKept
  /\ NoCountLost

IInv == SyncTypeOK /\ Tracked

(* The initial states satisfy the invariant.                                 *)
LEMMA InitIInv == SyncInit => IInv
<1> SUFFICES ASSUME SyncInit PROVE IInv
  OBVIOUS
<1>1. 0 % CountMod = 0 /\ 0 % PosMod = 0
  BY Widths, Z3
<1>2. SyncTypeOK
  <2>1. 0 \in 0..(CountMod - 1) /\ 0 \in 0..(PosMod - 1)
    BY Widths
  <2>2. Abs(0) < Half
    BY CounterAssumption DEF Abs
  <2>3. syncEnable \in BOOLEAN /\ written \in BOOLEAN
    BY DEF SyncInit
  <2>4. Abs(unseen) < Half
    BY <2>2 DEF SyncInit
  <2> QED BY <2>1, <2>3, <2>4 DEF SyncInit, SyncTypeOK
<1>3. Tracked
  <2>1. num \in Int
    BY RatioAssumption DEF SyncInit
  <2> QED BY <1>1, <2>1 DEF SyncInit, Tracked, DebtKept, NoCountLost
<1> QED BY <1>2, <1>3 DEF IInv

(* What the type invariant says about the numbers.                           *)
LEMMA Numbers ==
  ASSUME SyncTypeOK
  PROVE  /\ num \in Int /\ den \in Int /\ Abs(unseen) < Half
         /\ count \in Int /\ seen \in Int /\ position \in Int /\ place \in Int
         /\ oldPosition \in Int /\ error \in Int /\ owed \in Int /\ unseen \in Int
  BY RatioAssumption, Widths DEF SyncTypeOK

(* A remainder stays in the range of its modulus.                            *)
LEMMA Wrapped ==
  ASSUME NEW m \in Nat \ {0}, NEW a \in Int
  PROVE  /\ a % m \in 0..(m - 1)
         /\ a \in 0..(m - 1) => a % m = a
<1>1. a % m \in 0..(m - 1)
  BY Division
<1>2. ASSUME a \in 0..(m - 1) PROVE a % m = a
  <2>1. (m * 0 + a) % m = a
    BY <1>2, RemainderUnique
  <2> QED BY <2>1
<1> QED BY <1>1, <1>2

(* The interrupt sees exactly the counts that came since the last one, and    *)
(* asks for the movement they stand for when nothing else moved the position. *)
LEMMA DeltaIsUnseen ==
  ASSUME IInv
  PROVE  Delta = unseen /\ (~written => Moved = unseen)
<1>1. Delta = unseen
  BY Numbers, Int16Wrapped DEF Delta, IInv, Tracked
<1>2. ASSUME ~written PROVE Moved = unseen
  <2>1. position + Delta - oldPosition = unseen
    BY <1>1, <1>2, Numbers DEF IInv, Tracked
  <2> QED BY <2>1, Numbers, Int16Small DEF Moved, IInv
<1> QED BY <1>1, <1>2

-----------------------------------------------------------------------------
(* Every action preserves it *)

LEMMA TurnIInv == IInv /\ Turn => IInv'
<1> SUFFICES ASSUME IInv, NEW d \in {-1, 1}, Abs(unseen + d) < Half,
                    count' = (count + d) % CountMod, unseen' = unseen + d,
                    place' = (place + d) % PosMod, owed' = owed + num * d,
                    UNCHANGED <<seen, position, oldPosition, error, ratio, written>>
             PROVE  IInv'
  BY DEF Turn
<1>1. count' = (seen + (unseen + d)) % CountMod
  <2>1. count' = (((seen + unseen) % CountMod) + d) % CountMod
    BY DEF IInv, Tracked
  <2>2. seen + unseen \in Int /\ d \in Int /\ (seen + unseen) + d = seen + (unseen + d)
    BY Numbers DEF IInv
  <2>3. (((seen + unseen) % CountMod) + d) % CountMod = ((seen + unseen) + d) % CountMod
    BY <2>2, Widths, WrapSum, Zenon
  <2> QED BY <2>1, <2>2, <2>3
<1>2. place' = (position + (unseen + d)) % PosMod
  <2>1. place' = (((position + unseen) % PosMod) + d) % PosMod
    BY DEF IInv, Tracked, DebtKept, NoCountLost
  <2>2. position + unseen \in Int /\ d \in Int /\ (position + unseen) + d = position + (unseen + d)
    BY Numbers DEF IInv
  <2>3. (((position + unseen) % PosMod) + d) % PosMod = ((position + unseen) + d) % PosMod
    BY <2>2, Widths, WrapSum, Zenon
  <2> QED BY <2>1, <2>2, <2>3
<1>3. owed' = error + num * (unseen + d)
  <2>1. num * unseen + num * d = num * (unseen + d)
    BY Numbers, Z3 DEF IInv
  <2>2. num * unseen \in Int /\ num * d \in Int
    BY Numbers, Z3 DEF IInv
  <2> QED BY <2>1, <2>2, Numbers DEF IInv, Tracked, DebtKept
<1>4. SyncTypeOK'
  <2>1. count' \in 0..(CountMod - 1) /\ place' \in 0..(PosMod - 1)
    <3>1. count + d \in Int /\ place + d \in Int
      BY Numbers DEF IInv
    <3> QED BY <3>1, Widths, Wrapped
  <2>2. num * (unseen + d) \in Int
    BY Numbers, Z3 DEF IInv
  <2> QED BY <1>3, <2>1, <2>2, Numbers DEF IInv, SyncTypeOK, ratio, Abs
<1>5. Tracked'
  BY <1>1, <1>2, <1>3 DEF IInv, Tracked, DebtKept, NoCountLost, ratio
<1> QED BY <1>4, <1>5 DEF IInv

(* What the debt is after an interrupt: the remainder it carries, which is      *)
(* what the interrupt left of what it was asked to pay.                      *)
Repaid ==
  /\ owed' = Remainder /\ Remainder \in Int
  /\ den # 0 => Abs(Remainder) < Abs(den)

Eased == Abs(owed') <= Abs(owed) /\ (owed' # 0 => Sign(owed') = Sign(owed))

LEMMA TickOwes == IInv /\ SyncTick => Repaid /\ (syncEnable /\ ~written => Eased)
<1> SUFFICES ASSUME IInv, SyncTick
             PROVE  Repaid /\ (syncEnable /\ ~written => Eased)
  OBVIOUS
<1>1. Moved \in Int
  <2>1. position + Delta - oldPosition \in Int
    BY DeltaIsUnseen, Numbers DEF IInv
  <2>2. (position + Delta - oldPosition) % CountMod \in Int /\ CountMod \in Int
    BY <2>1, Widths, Wrapped
  <2> QED BY <2>2 DEF Moved, Int16
<1>2. Moved * num \in Int /\ StartValue \in Int
  <2>1. Moved * num \in Int
    BY <1>1, Numbers, Z3 DEF IInv
  <2> QED BY <2>1, Numbers DEF IInv, StartValue
<1>3. /\ ScaledDelta \in Int /\ Remainder \in Int
      /\ den # 0 => Abs(Remainder) < Abs(den)
      /\ Abs(Remainder) <= Abs(StartValue)
      /\ Remainder # 0 => Sign(Remainder) = Sign(StartValue)
  BY <1>2, Numbers, RemainderBound DEF IInv, ScaledDelta, Remainder
<1>4. CASE syncEnable /\ ~written
  <2>1. StartValue = unseen * num + error
    BY <1>4, DeltaIsUnseen DEF StartValue
  <2>2. unseen * num = num * unseen /\ num * unseen \in Int
    BY Numbers, Z3 DEF IInv
  <2>3. owed = StartValue
    BY <2>1, <2>2, Numbers DEF IInv, Tracked, DebtKept
  <2>4. owed' = StartValue - den * ScaledDelta
    BY <1>4, <2>3 DEF SyncTick
  <2>5. Remainder = StartValue - den * ScaledDelta
    BY DEF Remainder, Rem, ScaledDelta
  <2> QED BY <1>3, <2>3, <2>4, <2>5 DEF Repaid, Eased
<1>5. CASE ~(syncEnable /\ ~written)
  BY <1>3, <1>5 DEF SyncTick, Repaid
<1> QED BY <1>4, <1>5

LEMMA TickIInv == IInv /\ SyncTick => IInv'
<1> SUFFICES ASSUME IInv, SyncTick PROVE IInv'
  OBVIOUS
<1>1. owed' = Remainder /\ Remainder \in Int
  BY TickOwes DEF Repaid
<1>2. position' = (position + unseen) % PosMod /\ place' = place /\ position' = place
  BY DeltaIsUnseen DEF SyncTick, IInv, Tracked, DebtKept, NoCountLost
<1>3. SyncTypeOK'
  <2>1. seen' = count /\ count' = count /\ unseen' = 0 /\ error' = Remainder
    BY DEF SyncTick
  <2>2. position' = place /\ oldPosition' = place /\ place' = place
    BY <1>2 DEF SyncTick
  <2>3. num' = num /\ den' = den /\ syncEnable' = syncEnable /\ written' = FALSE
    BY DEF SyncTick, ratio
  <2>4. Abs(unseen') < Half
    BY <2>1, CounterAssumption DEF Abs
  <2>5. syncEnable' \in BOOLEAN /\ written' \in BOOLEAN
    BY <2>3 DEF IInv, SyncTypeOK
  <2> QED BY <1>1, <2>1, <2>2, <2>3, <2>4, <2>5 DEF IInv, SyncTypeOK
<1>4. Tracked'
  <2>1. count' = (seen' + unseen') % CountMod
    <3>1. count \in 0..(CountMod - 1) /\ count % CountMod = count
      BY Numbers, Widths, Wrapped DEF IInv, SyncTypeOK
    <3> QED BY <3>1, Numbers DEF SyncTick, IInv
  <2>2. (position' + unseen') % PosMod = place'
    <3>1. place \in 0..(PosMod - 1) /\ place % PosMod = place
      BY Numbers, Widths, Wrapped DEF IInv, SyncTypeOK
    <3> QED BY <1>2, <3>1 DEF SyncTick
  <2>3. owed' = error' + num' * unseen'
    <3>1. num * 0 = 0
      BY Numbers, Z3 DEF IInv
    <3> QED BY <1>1, <3>1 DEF SyncTick, ratio
  <2>4. position' = oldPosition'
    BY DEF SyncTick
  <2> QED BY <2>1, <2>2, <2>3, <2>4 DEF Tracked, DebtKept, NoCountLost
<1> QED BY <1>3, <1>4 DEF IInv

LEMMA SetPositionIInv == IInv /\ SetPosition => IInv'
<1> SUFFICES ASSUME IInv, SetPosition PROVE IInv'
  OBVIOUS
<1>1. position' \in Int /\ place' \in 0..(PosMod - 1)
  BY Numbers, Widths, Wrapped DEF SetPosition, IInv
<1>2. SyncTypeOK'
  BY <1>1 DEF IInv, SyncTypeOK, SetPosition, timer, ratio, Abs
<1>3. Tracked'
  BY DEF IInv, Tracked, DebtKept, NoCountLost, SetPosition, timer, ratio
<1> QED BY <1>2, <1>3 DEF IInv

LEMMA SetRatioIInv == IInv /\ SetRatio => IInv'
<1> SUFFICES ASSUME IInv, SetRatio PROVE IInv'
  OBVIOUS
<1>1. num' \in Nums /\ den' \in Dens
  BY DEF SetRatio, IInv, SyncTypeOK
<1>2. owed' \in Int
  <2>1. num' * unseen \in Int
    BY <1>1, RatioAssumption, Numbers, Z3 DEF IInv
  <2> QED BY <2>1, Numbers DEF SetRatio, IInv
<1>3. SyncTypeOK'
  BY <1>1, <1>2 DEF IInv, SyncTypeOK, SetRatio, timer, Abs
<1>4. Tracked'
  BY DEF IInv, Tracked, DebtKept, NoCountLost, SetRatio, timer
<1> QED BY <1>3, <1>4 DEF IInv

LEMMA SetSyncIInv == IInv /\ SetSyncEnable => IInv'
  BY DEF IInv, SyncTypeOK, Tracked, DebtKept, NoCountLost, SetSyncEnable, timer, Abs

LEMMA NextIInv == IInv /\ [SyncNext]_syncVars => IInv'
<1>1. ASSUME IInv, UNCHANGED syncVars PROVE IInv'
  BY <1>1 DEF IInv, SyncTypeOK, Tracked, DebtKept, NoCountLost, syncVars, timer, ratio, Abs
<1> QED BY <1>1, TurnIInv, TickIInv, SetPositionIInv, SetRatioIInv, SetSyncIInv DEF SyncNext

-----------------------------------------------------------------------------
(* Theorems *)

(* The invariant holds whenever the interrupt runs.                          *)
LEMMA Invariant == SyncSpec => []IInv
  BY InitIInv, NextIInv, PTL DEF SyncSpec

(* Every variable keeps its type: positions and counters stay in their width. *)
THEOREM TypeCorrect == SyncSpec => []SyncTypeOK
<1>1. IInv => SyncTypeOK
  BY DEF IInv
<1> QED BY <1>1, Invariant, PTL

(* No encoder count is lost or counted twice (SynchroRefreshTimerIsr).        *)
THEOREM CountsKept == SyncSpec => []NoCountLost
<1>1. IInv => NoCountLost
  BY DEF IInv, Tracked
<1> QED BY <1>1, Invariant, PTL

(* No movement is forgotten, whatever the ratio (deltaPositionAndError).       *)
THEOREM NothingForgotten == SyncSpec => []DebtKept
<1>1. IInv => DebtKept
  BY DEF IInv, Tracked
<1> QED BY <1>1, Invariant, PTL

(* After every interrupt less than one step is owed, for every ratio but that  *)
(* of denominator zero, and no interrupt asks for more than is owed, nor the   *)
(* other way (deltaPositionAndError).                                        *)
THEOREM DriftFree == SyncSpec => NoDrift
<1>1. IInv /\ [SyncNext]_syncVars =>
        [SyncTick =>
          /\ den # 0 => Abs(owed') < Abs(den)
          /\ syncEnable /\ ~written => Abs(owed') <= Abs(owed) /\ (owed' # 0 => Sign(owed') = Sign(owed))]_syncVars
  BY TickOwes DEF Repaid, Eased
<1> QED BY <1>1, Invariant, PTL DEF SyncSpec, NoDrift

-----------------------------------------------------------------------------

(* Whatever the pin did while there was nothing to do, a slot that last went  *)
(* back left it reset.                                                       *)
PinAgrees ==
  /\ dir \in {-1, 1}
  /\ prevDir = -1 => dir = -1

(* What one slot does to the pin, for any difference of the step counters.    *)
LEMMA SlotPin ==
  ASSUME NEW change, Slot(change), PinAgrees
  PROVE  PinAgrees' /\ (step' => dir' = prevDir' /\ (dir' = -1 => dir = -1))
<1>1. Direction(change) \in {-1, 1} /\ (change = 0 => Direction(change) = 1)
  BY DEF Direction
<1>2. prevDir' = Direction(change) /\ dir' = (IF change = 0 THEN dir ELSE Direction(change))
  BY DEF Slot
<1>3. PinAgrees'
  BY <1>1, <1>2 DEF PinAgrees
<1>4. ASSUME step' PROVE dir' = prevDir' /\ (dir' = -1 => dir = -1)
  <2>1. change # 0 /\ Direction(change) = prevDir
    BY <1>4 DEF Slot, Steps
  <2> QED BY <1>2, <2>1 DEF PinAgrees
<1> QED BY <1>3, <1>4

(* What the interrupt does to the pin.                                       *)
LEMMA IsrPin ==
  ASSUME Isr, PinAgrees
  PROVE  PinAgrees' /\ (step' => dir' = prevDir' /\ (dir' = -1 => dir = -1))
<1>1. PICK request, change : Tick(request) /\ (Slot(change) \/ NoSlot(change))
  BY DEF Isr, Tick
<1>2. CASE Slot(change)
  BY <1>2, SlotPin
<1>3. CASE NoSlot(change)
  BY <1>3 DEF NoSlot, PinAgrees
<1> QED BY <1>1, <1>2, <1>3

LEMMA NextPin == PinAgrees /\ [ServoNext]_servoVars => PinAgrees'
<1> SUFFICES ASSUME PinAgrees, [ServoNext]_servoVars PROVE PinAgrees'
  OBVIOUS
<1>1. CASE Isr
  BY <1>1, IsrPin
<1>2. CASE UpdateSpeed
  BY <1>2 DEF UpdateSpeed, pulse, PinAgrees
<1>3. CASE ServoEnable
  BY <1>3 DEF ServoEnable, EnableTest, EnableWrite, EnablePin, pulse, PinAgrees
<1>4. CASE ServoClient
  BY <1>4 DEF ServoClient, SetSync, SetMode, SetLimits, SetTarget, SetJog, pulse, PinAgrees
<1>5. CASE UNCHANGED servoVars
  BY <1>5 DEF servoVars, pulse, PinAgrees
<1> QED BY <1>1, <1>2, <1>3, <1>4, <1>5 DEF ServoNext

(* A pulse always counts in the direction of the DIR pin, and the pin turned   *)
(* back at least one slot before the first pulse back                        *)
(* (SynchroRefreshTimerIsr).                                                 *)
THEOREM DirLeads == ServoSpec => PulsesFollowDir
<1>1. ServoInit => PinAgrees
  BY DEF ServoInit, PinAgrees
<1>2. PinAgrees /\ [ServoNext]_servoVars => [step' /\ Isr => dir' = prevDir' /\ (dir' = -1 => dir = -1)]_servoVars
  BY IsrPin
<1> QED BY <1>1, <1>2, NextPin, PTL DEF ServoSpec, PulsesFollowDir

-----------------------------------------------------------------------------

(* The board listens to nothing while a byte of its answer is on the bus.    *)
Deaf ==
  /\ pc \in {"settle", "answer"} => txActive
  /\ echo # Empty => pc = "answer"

OutBytes == ClientBytes \union Terminators

ClientTypes ==
  /\ out \in Seq(OutBytes) /\ Len(out) <= LineMax + 2
  /\ asking \in BOOLEAN /\ due \in Commands \union {"none"} /\ ending \in Terminators \union {None}
  /\ outcome \in {"pending", "done", "wrong"} /\ clean \in 0..Settle

BufferTypes ==
  /\ line \in Seq(ClientBytes) /\ Len(line) <= LineMax
  /\ ready \in Meanings
  /\ pendEOL \in Terminators \union {None}
  /\ readyFlag \in BOOLEAN /\ woken \in BOOLEAN

TaskTypes ==
  /\ txActive \in BOOLEAN /\ late \in BOOLEAN /\ resetPending \in BOOLEAN
  /\ last \in Commands \union {"none", "unknown"}
  /\ pc \in {"wait", "service", "mark", "settle", "answer", "handoff", "gone"}
  /\ echo \in Seq(Bytes \union Terminators) /\ Len(echo) <= Len(Answer)

(* A step of an exchange, once the client has paused after a fault (clean > 0) *)
(* and, with the line after that, is understood (clean > 1): the board rests; *)
(* the client is sending a line of which the terminator has not come; the     *)
(* line is there to be executed; it has been, and the answer is on the bus.   *)
Quiet == ~readyFlag /\ pc \in {"wait", "service", "handoff"}
Done == outcome = "done" /\ last = due
Meant == outcome = "pending" /\ ((ready = due /\ due \in Commands) \/ (ready = "repeat" /\ last = due))

Resting ==
  /\ ~asking /\ out = Empty /\ line = Empty /\ pendEOL \in {None, ending} /\ Quiet
  /\ clean > 1 => Done

Expected(rest) ==
  /\ outcome = "pending"
  /\ \/ due \in Commands /\ line \o rest = Sent(due)
     \/ rest = Empty /\ line = Empty /\ last = due

Sending(rest, end) ==
  /\ asking /\ Quiet /\ out = rest \o end /\ ending = Head(end)
  /\ rest # Empty \/ line # Empty \/ (pendEOL \in {None, ending} /\ Tail(end) = Empty)
  /\ clean > 1 => Expected(rest)

Ended ==
  /\ asking /\ line = Empty /\ pendEOL \in {None, ending}
  /\ out = Empty \/ (out = <<LF>> /\ ending = CR /\ pendEOL = CR)

Complete ==
  /\ Ended
  /\ IF readyFlag THEN pc \in {"wait", "service", "handoff"} ELSE pc \in {"mark", "settle"}
  /\ clean > 1 => Meant

Answering ==
  /\ Ended /\ out = Empty /\ ~readyFlag /\ pc = "answer"
  /\ clean > 1 => Done

InStep ==
  \/ Resting
  \/ \E rest \in Seq(ClientBytes), end \in Endings : Sending(rest, end)
  \/ Complete \/ Answering

Heeding == pc \notin {"settle", "answer"} => ~txActive

PInv == ClientTypes /\ BufferTypes /\ TaskTypes /\ Deaf

-----------------------------------------------------------------------------
(* Bytes and lines                                                           *)

LEMMA Fields ==
  ASSUME NEW x, NEW y
  PROVE  Byte(x, y).of = x /\ Byte(x, y).at = y
BY DEF Byte

LEMMA TerminatorsApart ==
  /\ CR # LF /\ CR # None /\ LF # None
  /\ \A b \in ClientBytes : b \notin Terminators /\ b.of # "board"
<1>1. CR # LF /\ CR # None /\ LF # None
  <2>1. CR.at # LF.at /\ CR.at # None.at /\ LF.at # None.at
    BY Fields DEF CR, LF, None
  <2> QED BY <2>1
<1>2. "end" \notin Commands /\ "board" \notin Commands
  BY CommandsAssumption
<1>3. CR.of = "end" /\ LF.of = "end"
  BY Fields DEF CR, LF
<1>4. \A b \in ClientBytes : b.of \in Commands
  BY DEF ClientBytes
<1> QED BY <1>1, <1>2, <1>3, <1>4 DEF Terminators

LEMMA EmptyIs == \A S : Empty \in Seq(S) /\ Len(Empty) = 0
BY DEF Empty

LEMMA SentBytes ==
  ASSUME NEW c \in Commands
  PROVE  /\ Text(c) \in Seq(ClientBytes) /\ Sent(c) \in Seq(ClientBytes)
         /\ Text(c) # Empty /\ Sent(c) # Empty /\ Len(Sent(c)) <= 2
         /\ Text(c)[1].of = c /\ Sent(c)[1].of = c
<1>1. Byte(c, "text") \in ClientBytes /\ Byte(c, "sum") \in ClientBytes
  BY DEF Byte, ClientBytes
<1>2. Text(c) = <<Byte(c, "text")>>
  BY DEF Text
<1>3. Byte(c, "text").of = c
  BY Fields
<1>4. /\ Text(c) \in Seq(ClientBytes) /\ Text(c)[1] = Byte(c, "text")
      /\ Text(c) # Empty /\ Len(Text(c)) <= 1 /\ 1 \in 1..Len(Text(c))
  BY <1>1, <1>2 DEF Empty
<1>5. CASE c \in Checked
  <2>1. Sent(c) = Append(Text(c), Byte(c, "sum"))
    BY <1>5 DEF Sent
  <2>2. /\ Sent(c) \in Seq(ClientBytes) /\ Sent(c) # << >> /\ Len(Sent(c)) = Len(Text(c)) + 1
        /\ \A i \in 1..Len(Text(c)) : Sent(c)[i] = Text(c)[i]
    BY <1>1, <1>4, <2>1, AppendProperties
  <2>3. Len(Text(c)) + 1 <= 2
    BY <1>4
  <2> QED BY <1>3, <1>4, <2>2, <2>3 DEF Empty
<1>6. CASE c \notin Checked
  <2>1. Sent(c) = Text(c)
    BY <1>6 DEF Sent
  <2> QED BY <1>3, <1>4, <2>1
<1> QED BY <1>5, <1>6

(* Every line means something.                                               *)
LEMMA EveryLineMeans == ASSUME NEW l PROVE Meaning(l) \in Meanings
<1>1. CASE l = Empty
  <2>1. \A c \in Commands : l # Text(c) /\ l # Sent(c)
    BY <1>1, SentBytes
  <2>2. ~HasSum(l)
    BY <1>1 DEF Empty, HasSum
  <2> QED BY <1>1, <2>1, <2>2 DEF Meaning, Meanings
<1>2. CASE l # Empty /\ \E c \in Commands : l \in {Text(c), Sent(c)}
  <2>1. PICK c \in Commands : l \in {Text(c), Sent(c)}
    BY <1>2
  <2>2. l[1].of \in Commands
    BY <2>1, SentBytes
  <2>3. Meaning(l) \in {l[1].of, "bad checksum", "unknown"}
    BY <1>2 DEF Meaning
  <2> QED BY <2>2, <2>3 DEF Meanings
<1>3. CASE l # Empty /\ ~(\E c \in Commands : l \in {Text(c), Sent(c)})
  BY <1>3 DEF Meaning, Meanings
<1> QED BY <1>1, <1>2, <1>3

-----------------------------------------------------------------------------
(* The receive interrupt                                                     *)

(* The client's bytes: the buffers keep their types.                         *)
LEMMA Heard ==
  ASSUME BufferTypes, NEW b \in OutBytes, RxCplt(b)
  PROVE  BufferTypes'
<1>1. CASE ~Listening
  BY <1>1 DEF RxCplt, BufferTypes, buffers
<1>2. CASE Listening
  <2>1. ProtocolFeedByte(b) /\ woken' = (woken \/ readyFlag')
    BY <1>2 DEF RxCplt
  <2>2. CASE FeedContent(b)
    <3>1. b \in ClientBytes
      BY <2>2 DEF FeedContent, OutBytes
    <3>2. line' \in Seq(ClientBytes) /\ Len(line') <= LineMax
      BY <2>2, <3>1, AppendProperties, LineAssumption DEF FeedContent, Extended, BufferTypes
    <3> QED BY <2>1, <2>2, <3>2 DEF FeedContent, BufferTypes
  <2>3. CASE FeedEnd(b)
    BY <2>1, <2>3, EveryLineMeans, LineAssumption DEF FeedEnd, BufferTypes, Empty
  <2>4. CASE FeedSecondHalf(b)
    BY <2>1, <2>4 DEF FeedSecondHalf, BufferTypes
  <2>5. CASE FeedEmpty(b)
    BY <2>1, <2>5, EveryLineMeans DEF FeedEmpty, BufferTypes
  <2> QED BY <2>1, <2>2, <2>3, <2>4, <2>5 DEF ProtocolFeedByte
<1> QED BY <1>1, <1>2

(* The board's own bytes: nothing is heard.                                  *)
LEMMA EchoDropped ==
  ASSUME TaskTypes, Deaf, Transmit
  PROVE  UNCHANGED <<buffers, woken>>
BY DEF Deaf, Transmit, RxCplt, Listening

-----------------------------------------------------------------------------
(* The invariant                                                             *)

LEMMA AnswerBytes == Answer \in Seq(Bytes \union Terminators) /\ Len(Answer) = 3
<1>1. Byte("board", "crc") \in Bytes /\ LF \in Terminators
  BY DEF Bytes, Answer, Terminators
<1> QED BY <1>1 DEF Answer

LEMMA InitInv == Init => PInv
<1> SUFFICES ASSUME Init PROVE PInv
  OBVIOUS
<1>1. 0 <= LineMax /\ 0 <= LineMax + 2 /\ Settle \in 0..Settle
  BY LineAssumption, SettleAssumption
<1>2. ClientTypes
  BY <1>1, EmptyIs DEF Init, ClientTypes
<1>3. BufferTypes
  BY <1>1, EmptyIs DEF Init, BufferTypes, Meanings
<1>4. TaskTypes
  <2>1. Empty \in Seq(Bytes \union Terminators) /\ Len(Empty) <= Len(Answer)
    BY EmptyIs, AnswerBytes
  <2> QED BY <2>1 DEF Init, TaskTypes
<1>5. Deaf
  BY DEF Init, Deaf
<1> QED BY <1>2, <1>3, <1>4, <1>5 DEF PInv

LEMMA TaskInv ==
  ASSUME PInv, Task \/ ProtocolStart \/ Answered(FALSE)
  PROVE  PInv'
<1> USE DEF PInv
<1>c. UNCHANGED <<client, outcome, clean>> => ClientTypes'
  BY DEF ClientTypes, client
<1>b. UNCHANGED <<buffers, woken>> => BufferTypes'
  BY DEF BufferTypes, buffers
<1>1. CASE Wait
  BY <1>1, <1>c DEF Wait, BufferTypes, TaskTypes, Deaf, buffers
<1>2. CASE NothingReady
  BY <1>2, <1>c, <1>b DEF NothingReady, TaskTypes, Deaf
<1>3. CASE TakeLine
  BY <1>3, <1>c DEF TakeLine, BufferTypes, TaskTypes, Deaf
<1>4. CASE MarkBusy
  BY <1>4, <1>c, <1>b DEF MarkBusy, TaskTypes, Deaf
<1>5. CASE ProtocolProcessLine
  <2>1. outcome' \in {"pending", "done", "wrong"} /\ UNCHANGED <<client, clean>>
    BY <1>5 DEF ProtocolProcessLine, Rejects, Dispatches, ClientTypes
  <2>2. ClientTypes'
    BY <2>1 DEF ClientTypes, client
  <2>3. last' \in Commands \union {"none", "unknown"} /\ resetPending' \in BOOLEAN
    BY <1>5 DEF ProtocolProcessLine, Rejects, Dispatches, TaskTypes, BufferTypes, Meanings
  <2>4. TaskTypes' /\ Deaf'
    BY <1>5, <2>3, AnswerBytes DEF ProtocolProcessLine, TaskTypes, Deaf
  <2> QED BY <1>5, <1>b, <2>2, <2>4 DEF ProtocolProcessLine
<1>6. CASE Transmit
  <2>1. UNCHANGED <<buffers, woken>>
    BY <1>6, EchoDropped
  <2>2. echo' \in Seq(Bytes \union Terminators) /\ Len(echo') <= Len(Answer)
    BY <1>6, HeadTailProperties, AnswerBytes DEF Transmit, TaskTypes, Empty
  <2>3. TaskTypes' /\ Deaf'
    BY <1>6, <2>2 DEF Transmit, TaskTypes, Deaf, task
  <2> QED BY <1>6, <1>c, <1>b, <2>1, <2>3 DEF Transmit
<1>7. ASSUME NEW heard \in BOOLEAN, Answered(heard) PROVE PInv'
  <2>1. ClientTypes'
    BY <1>7, SettleAssumption DEF Answered, ClientTypes, Disturbed
  <2> QED BY <1>7, <1>b, <2>1 DEF Answered, TaskTypes, Deaf
<1>8. CASE Handoff
  <2>1. ClientTypes'
    BY <1>8, SettleAssumption DEF Handoff, ClientTypes, Disturbed, client
  <2> QED BY <1>8, <1>b, <2>1 DEF Handoff, TaskTypes, Deaf
<1>9. CASE ProtocolStart
  <2>1. BufferTypes'
    <3>1. 0 <= LineMax
      BY LineAssumption
    <3> QED BY <1>9, <3>1, EmptyIs DEF ProtocolStart, BufferTypes, Meanings
  <2> QED BY <1>9, <1>c, <2>1 DEF ProtocolStart, TaskTypes, Deaf
<1> QED BY <1>1, <1>2, <1>3, <1>4, <1>5, <1>6, <1>7, <1>8, <1>9 DEF Task

LEMMA Asked ==
  ASSUME PInv, NEW bytes \in Seq(ClientBytes), Len(bytes) <= 2, NEW c \in Commands \union {"none"},
         NEW end \in Endings, Ask(bytes, c, end), clean' \in 0..Settle
  PROVE  PInv'
<1>1. /\ end \in Seq(OutBytes) /\ Len(end) \in Nat /\ Len(end) <= 2
      /\ Head(end) \in Terminators
  <2>1. CR \in OutBytes /\ LF \in OutBytes /\ CR \in Terminators /\ LF \in Terminators
    BY DEF OutBytes, Terminators
  <2> HIDE DEF OutBytes, Terminators
  <2>2. CASE end = <<CR>>
    BY <2>1, <2>2
  <2>3. CASE end = <<LF>>
    BY <2>1, <2>3
  <2>4. CASE end = <<CR, LF>>
    BY <2>1, <2>4
  <2> QED BY <2>2, <2>3, <2>4 DEF Endings
<1>2. bytes \in Seq(OutBytes)
  BY DEF OutBytes
<1>3. bytes \o end \in Seq(OutBytes) /\ Len(bytes \o end) = Len(bytes) + Len(end)
  BY <1>1, <1>2, ConcatProperties
<1>4. Len(bytes \o end) <= LineMax + 2
  BY <1>1, <1>3, LineAssumption
<1>5. ClientTypes'
  BY <1>1, <1>3, <1>4 DEF Ask, ClientTypes
<1> QED BY <1>5 DEF Ask, PInv, BufferTypes, TaskTypes, Deaf, buffers, task

LEMMA ClientInv ==
  ASSUME PInv, Client
  PROVE  PInv'
<1>1. ASSUME NEW c \in Commands, NEW end \in Endings, AskCommand(c, end) PROVE PInv'
  <2>1. clean' \in 0..Settle
    BY <1>1, SettleAssumption DEF AskCommand, PInv, ClientTypes
  <2>2. Sent(c) \in Seq(ClientBytes) /\ Len(Sent(c)) <= 2
    BY SentBytes
  <2> QED BY <1>1, <2>1, <2>2, Asked DEF AskCommand
<1>2. ASSUME NEW end \in Endings, AskRepeat(end) PROVE PInv'
  <2>1. clean' \in 0..Settle
    BY <1>2, SettleAssumption DEF AskRepeat, Disturbed, PInv, ClientTypes
  <2>2. Empty \in Seq(ClientBytes) /\ Len(Empty) <= 2
    BY DEF Empty
  <2>3. due \in Commands \union {"none"}
    BY DEF PInv, ClientTypes
  <2> QED BY <1>2, <2>1, <2>2, <2>3, Asked DEF AskRepeat
<1>3. CASE SendByte
  <2>1. Head(out) \in OutBytes /\ out' \in Seq(OutBytes) /\ Len(out') <= LineMax + 2
    BY <1>3, HeadTailProperties, LineAssumption DEF SendByte, PInv, ClientTypes, Empty
  <2>2. BufferTypes'
    BY <1>3, <2>1, Heard DEF SendByte, PInv
  <2>3. ClientTypes'
    BY <1>3, <2>1, SettleAssumption DEF SendByte, Disturbed, PInv, ClientTypes
  <2>4. TaskTypes' /\ Deaf'
    BY <1>3 DEF SendByte, Urgent, PInv, BufferTypes, TaskTypes, Deaf, task
  <2> QED BY <2>2, <2>3, <2>4 DEF PInv
<1> QED BY <1>1, <1>2, <1>3 DEF Client

LEMMA FaultInv ==
  ASSUME PInv, LoseByte \/ GivesUp
  PROVE  PInv'
<1>1. out' \in Seq(OutBytes) /\ Len(out') <= LineMax + 2
  BY HeadTailProperties, LineAssumption DEF LoseByte, GivesUp, PInv, ClientTypes, Empty
<1>2. clean' \in 0..Settle /\ asking' \in BOOLEAN /\ UNCHANGED <<due, ending, outcome>>
  <2>1. 0 \in 0..Settle
    BY SettleAssumption
  <2>2. CASE LoseByte
    BY <2>1, <2>2 DEF LoseByte, Disturbed, PInv, ClientTypes
  <2>3. CASE GivesUp
    BY <2>1, <2>3 DEF GivesUp, Disturbed, PInv, ClientTypes
  <2> QED BY <2>2, <2>3
<1>3. ClientTypes'
  BY <1>1, <1>2 DEF PInv, ClientTypes
<1>4. UNCHANGED <<buffers, txActive, woken, late, task, echo>>
  BY DEF LoseByte, GivesUp
<1> QED BY <1>3, <1>4 DEF PInv, BufferTypes, TaskTypes, Deaf, buffers, task

LEMMA PInvStep == PInv /\ [Next]_vars => PInv'
<1>1. PInv /\ UNCHANGED vars => PInv'
  BY DEF PInv, ClientTypes, BufferTypes, TaskTypes, Deaf, vars, buffers, task, client
<1> QED BY <1>1, TaskInv, ClientInv, FaultInv DEF Next, Faults

-----------------------------------------------------------------------------
(* The steps of an exchange                                                  *)

SInv == PInv /\ Heeding /\ (clean > 0 => InStep)

LEMMA HeadOfConcat ==
  ASSUME NEW S, NEW a \in Seq(S), a # << >>, NEW b \in Seq(S)
  PROVE  Head(a \o b) = Head(a) /\ Tail(a \o b) = Tail(a) \o b
<1>1. /\ a \o b \in Seq(S) /\ Len(a \o b) = Len(a) + Len(b)
      /\ \A i \in 1..Len(a) + Len(b) : (a \o b)[i] = IF i <= Len(a) THEN a[i] ELSE b[i - Len(a)]
  BY ConcatProperties
<1>2. Len(a) \in Nat \ {0} /\ Len(b) \in Nat
  BY EmptySeq
<1>3. a \o b # << >>
  BY <1>1, <1>2
<1>4. Head(a \o b) = Head(a)
  BY <1>1, <1>2
<1>5. /\ Tail(a) \in Seq(S) /\ Len(Tail(a)) = Len(a) - 1
      /\ \A i \in 1..Len(Tail(a)) : Tail(a)[i] = a[i + 1]
  BY HeadTailProperties
<1>6. /\ Tail(a \o b) \in Seq(S) /\ Len(Tail(a \o b)) = Len(a \o b) - 1
      /\ \A i \in 1..Len(Tail(a \o b)) : Tail(a \o b)[i] = (a \o b)[i + 1]
  BY <1>1, <1>3, HeadTailProperties
<1>7. /\ Tail(a) \o b \in Seq(S) /\ Len(Tail(a) \o b) = Len(Tail(a)) + Len(b)
      /\ \A i \in 1..Len(Tail(a)) + Len(b) :
           (Tail(a) \o b)[i] = IF i <= Len(Tail(a)) THEN Tail(a)[i] ELSE b[i - Len(Tail(a))]
  BY <1>5, ConcatProperties
<1>8. Len(Tail(a \o b)) = Len(Tail(a) \o b)
  BY <1>1, <1>2, <1>5, <1>6, <1>7
<1>9. ASSUME NEW i \in 1..Len(Tail(a \o b)) PROVE Tail(a \o b)[i] = (Tail(a) \o b)[i]
  BY <1>1, <1>2, <1>5, <1>6, <1>7, <1>8
<1>10. Tail(a \o b) = Tail(a) \o b
  BY <1>6, <1>7, <1>8, <1>9, SeqEqual
<1> QED BY <1>4, <1>10

LEMMA HeadMoves ==
  ASSUME NEW S, NEW l \in Seq(S), NEW a \in Seq(S), a # << >>
  PROVE  Append(l, Head(a)) \o Tail(a) = l \o a
<1>1. Head(a) \in S /\ Tail(a) \in Seq(S)
  BY HeadTailProperties
<1>2. Append(l, Head(a)) = l \o <<Head(a)>> /\ <<Head(a)>> \in Seq(S)
  BY <1>1, AppendIsConcat
<1>3. a = <<Head(a)>> \o Tail(a)
  <2>1. Len(a) \in Nat \ {0}
    BY EmptySeq
  <2>2. Len(Tail(a)) = Len(a) - 1 /\ \A i \in 1..Len(Tail(a)) : Tail(a)[i] = a[i + 1]
    BY HeadTailProperties
  <2>3. /\ <<Head(a)>> \o Tail(a) \in Seq(S)
        /\ Len(<<Head(a)>> \o Tail(a)) = 1 + Len(Tail(a))
        /\ \A i \in 1..1 + Len(Tail(a)) :
             (<<Head(a)>> \o Tail(a))[i] = IF i <= 1 THEN <<Head(a)>>[i] ELSE Tail(a)[i - 1]
    BY <1>1, <1>2, ConcatProperties
  <2>4. ASSUME NEW i \in 1..Len(a) PROVE a[i] = (<<Head(a)>> \o Tail(a))[i]
    BY <2>1, <2>2, <2>3
  <2> QED BY <2>1, <2>2, <2>3, <2>4, SeqEqual
<1> QED BY <1>1, <1>2, <1>3, ConcatAssociative

LEMMA EndingIs ==
  ASSUME NEW end \in Endings
  PROVE  /\ end \in Seq(OutBytes) /\ end # Empty /\ Head(end) \in Terminators
         /\ Tail(end) = Empty \/ (Tail(end) = <<LF>> /\ Head(end) = CR)
<1>1. CR \in OutBytes /\ LF \in OutBytes /\ CR \in Terminators /\ LF \in Terminators
  BY DEF OutBytes, Terminators
<1> HIDE DEF OutBytes, Terminators
<1>2. CASE end = <<CR>>
  BY <1>1, <1>2 DEF Empty
<1>3. CASE end = <<LF>>
  BY <1>1, <1>3 DEF Empty
<1>4. CASE end = <<CR, LF>>
  BY <1>1, <1>4 DEF Empty
<1> QED BY <1>2, <1>3, <1>4 DEF Endings

LEMMA MeaningOfSent == \A c \in Commands : Meaning(Sent(c)) = c
<1> SUFFICES ASSUME NEW c \in Commands PROVE Meaning(Sent(c)) = c
  OBVIOUS
<1>1. Sent(c) # Empty /\ Sent(c)[1].of = c
  BY SentBytes
<1>2. ~(HasSum(Sent(c)) /\ Sent(c) \notin {Sent(d) : d \in Checked})
  <2>1. CASE c \in Checked
    BY <2>1
  <2>2. CASE c \notin Checked
    <3>1. Sent(c) = <<Byte(c, "text")>>
      BY <2>2 DEF Sent, Text
    <3>2. \A i \in DOMAIN Sent(c) : Sent(c)[i] = Byte(c, "text")
      BY <3>1
    <3>3. Byte(c, "text").at # "sum"
      BY Fields
    <3> QED BY <3>2, <3>3 DEF HasSum
  <2> QED BY <2>1, <2>2
<1>3. \E d \in Commands : Sent(c) \in {Text(d), Sent(d)}
  OBVIOUS
<1> HIDE DEF Meaning
<1>4. Meaning(Sent(c)) = Sent(c)[1].of
  BY <1>1, <1>2, <1>3 DEF Meaning
<1> QED BY <1>1, <1>4

LEMMA MeaningOfEmpty == Meaning(Empty) = "repeat"
<1>1. \A c \in Commands : Empty # Text(c) /\ Empty # Sent(c)
  BY SentBytes
<1>2. ~HasSum(Empty)
  BY DEF Empty, HasSum
<1> QED BY <1>1, <1>2 DEF Meaning

LEMMA DisturbedInStep ==
  ASSUME Disturbed
  PROVE  clean' > 0 => InStep'
BY DEF Disturbed

-----------------------------------------------------------------------------
(* The client sends                                                          *)

(* A byte of the line's text is assembled.                                   *)
LEMMA SendsText ==
  ASSUME SInv, NEW rest \in Seq(ClientBytes), NEW end \in Endings, Sending(rest, end), rest # Empty,
         SendByte, clean' = clean
  PROVE  Sending(Tail(rest), end)'
<1>1. end \in Seq(OutBytes) /\ rest \in Seq(OutBytes)
  BY EndingIs DEF OutBytes
<1>2. Head(out) = Head(rest) /\ out' = Tail(rest) \o end
  BY <1>1, HeadOfConcat DEF SendByte, Sending, Empty
<1>3. Head(rest) \in ClientBytes /\ Head(rest) \notin Terminators
  BY HeadTailProperties, TerminatorsApart DEF Empty
<1>4. Listening
  BY DEF SInv, Heeding, Sending, Quiet, Listening
<1>5. ProtocolFeedByte(Head(rest))
  BY <1>2, <1>4 DEF SendByte, RxCplt
<1>6. line' = Extended(Head(rest)) /\ UNCHANGED <<ready, readyFlag>>
  BY <1>3, <1>5 DEF ProtocolFeedByte, FeedContent, FeedEnd, FeedSecondHalf, FeedEmpty
<1>7. line \in Seq(ClientBytes) /\ Len(line) \in Nat
  BY DEF SInv, PInv, BufferTypes
<1>8. line' # Empty
  <2>1. CASE Len(line) < LineMax
    BY <1>3, <1>6, <1>7, <2>1, AppendProperties DEF Extended, Empty
  <2>2. CASE ~(Len(line) < LineMax)
    <3>1. Len(line) # 0
      BY <2>2, <1>7, LineAssumption
    <3> QED BY <1>6, <2>2, <3>1, EmptyIs DEF Extended
  <2> QED BY <2>1, <2>2
<1>9. ASSUME clean > 1 PROVE Expected(Tail(rest))'
  <2>1. due \in Commands /\ line \o rest = Sent(due) /\ outcome = "pending"
    BY <1>9 DEF Sending, Expected
  <2>2. Len(line) + Len(rest) = Len(Sent(due))
    BY <1>7, <2>1, ConcatProperties
  <2>3. Len(Sent(due)) <= 2
    BY <2>1, SentBytes
  <2>4. Len(rest) \in Nat \ {0}
    BY EmptySeq DEF Empty
  <2>5. Len(line) < LineMax
    BY <1>7, <2>2, <2>3, <2>4, LineAssumption
  <2>6. line' \o Tail(rest) = Sent(due)
    BY <1>6, <1>7, <2>1, <2>5, HeadMoves DEF Extended, Empty
  <2> QED BY <2>1, <2>6 DEF Expected, SendByte
<1> QED BY <1>2, <1>6, <1>8, <1>9 DEF Sending, Quiet, SendByte, task

(* The terminator completes it.                                              *)
LEMMA SendsEnd ==
  ASSUME SInv, NEW end \in Endings, Sending(Empty, end), SendByte, clean' = clean
  PROVE  Complete'
<1>1. /\ end \in Seq(OutBytes) /\ end # Empty /\ Head(end) \in Terminators
      /\ Tail(end) = Empty \/ (Tail(end) = <<LF>> /\ Head(end) = CR)
  BY EndingIs
<1>2. out = end
  BY <1>1, ConcatEmptySeq DEF Sending, Empty
<1>3. Head(out) = ending /\ ending \in Terminators /\ out' = Tail(end)
  BY <1>1, <1>2 DEF SendByte, Sending
<1>4. Listening
  BY DEF SInv, Heeding, Sending, Quiet, Listening
<1>5. ProtocolFeedByte(ending)
  BY <1>3, <1>4 DEF SendByte, RxCplt
<1>6. UNCHANGED <<asking, pc, ending, due, last, outcome>> /\ asking /\ pc \in {"wait", "service", "handoff"}
  BY DEF SendByte, Sending, Quiet, task
<1>7. line' = Empty /\ readyFlag' = TRUE /\ pendEOL' \in {None, ending} /\ ready' = Meaning(line)
      /\ (Tail(end) # Empty => pendEOL' = ending)
  <2>1. CASE line # Empty
    BY <1>3, <1>5, <2>1 DEF ProtocolFeedByte, FeedContent, FeedEnd, FeedSecondHalf, FeedEmpty
  <2>2. CASE line = Empty
    <3>1. pendEOL \in {None, ending} /\ Tail(end) = Empty
      BY <2>2 DEF Sending
    <3>2. ~SecondHalf(ending)
      BY <3>1 DEF SecondHalf
    <3> QED BY <1>3, <1>5, <2>2, <3>1, <3>2 DEF ProtocolFeedByte, FeedContent, FeedEnd, FeedSecondHalf, FeedEmpty
  <2> QED BY <2>1, <2>2
<1>8. ASSUME clean > 1 PROVE Meant'
  <2>1. Expected(Empty)
    BY <1>8 DEF Sending
  <2>2. CASE due \in Commands /\ line \o Empty = Sent(due)
    <3>1. line = Sent(due)
      BY <2>2, ConcatEmptySeq DEF Empty, SInv, PInv, BufferTypes
    <3>2. ready' = due
      BY <1>7, <2>2, <3>1, MeaningOfSent
    <3> QED BY <1>6, <2>1, <2>2, <3>2 DEF Meant, Expected
  <2>3. CASE line = Empty /\ last = due
    <3>1. ready' = "repeat"
      BY <1>7, <2>3, MeaningOfEmpty
    <3> QED BY <1>6, <2>1, <2>3, <3>1 DEF Meant, Expected
  <2> QED BY <2>1, <2>2, <2>3 DEF Expected
<1>9. Ended'
  BY <1>1, <1>3, <1>6, <1>7 DEF Ended, Sending
<1> QED BY <1>6, <1>7, <1>8, <1>9 DEF Complete

(* The LF of CR LF comes while the task is about to work on the line.        *)
LEMMA SendsSecondHalf ==
  ASSUME SInv, Complete, SendByte, clean' = clean
  PROVE  Complete'
<1>1. out = <<LF>> /\ ending = CR /\ pendEOL = CR /\ line = Empty /\ asking
  BY DEF SendByte, Complete, Ended
<1>2. Head(out) = LF /\ out' = Empty
  BY <1>1 DEF SendByte, Empty
<1>3. LF \in Terminators /\ SecondHalf(LF)
  BY <1>1, TerminatorsApart DEF Terminators, SecondHalf
<1>4. RxCplt(LF)
  BY <1>2 DEF SendByte
<1>5. UNCHANGED <<asking, pc, ending, due, last, outcome>>
  BY DEF SendByte, task
<1>6. line' = Empty /\ pendEOL' \in {None, ending} /\ UNCHANGED <<ready, readyFlag>>
  <2>1. CASE Listening
    BY <1>1, <1>3, <1>4, <2>1
    DEF RxCplt, ProtocolFeedByte, FeedContent, FeedEnd, FeedSecondHalf, FeedEmpty
  <2>2. CASE ~Listening
    BY <1>1, <1>4, <2>2 DEF RxCplt, buffers
  <2> QED BY <2>1, <2>2
<1> QED BY <1>1, <1>2, <1>5, <1>6 DEF Complete, Ended, Meant

LEMMA SendInStep ==
  ASSUME SInv, SendByte
  PROVE  clean' > 0 => InStep'
<1> SUFFICES ASSUME clean' > 0 PROVE InStep'
  OBVIOUS
<1>1. clean' = clean /\ clean > 0 /\ InStep
  BY SettleAssumption DEF SendByte, Disturbed, SInv
<1>2. CASE \E rest \in Seq(ClientBytes), end \in Endings : Sending(rest, end)
  <2>1. PICK rest \in Seq(ClientBytes), end \in Endings : Sending(rest, end)
    BY <1>2
  <2>2. CASE rest # Empty
    <3>1. Tail(rest) \in Seq(ClientBytes)
      BY <2>2, HeadTailProperties DEF Empty
    <3> QED BY <1>1, <2>1, <2>2, <3>1, SendsText DEF InStep
  <2>3. CASE rest = Empty
    BY <1>1, <2>1, <2>3, SendsEnd DEF InStep
  <2> QED BY <2>2, <2>3
<1>3. CASE Complete
  BY <1>1, <1>3, SendsSecondHalf DEF InStep
<1>4. ~Resting /\ ~Answering
  BY DEF SendByte, Resting, Answering
<1> QED BY <1>1, <1>2, <1>3, <1>4 DEF InStep

(* A client that is not waiting finds the board at rest.                     *)
LEMMA AskInStep ==
  ASSUME SInv, NEW end \in Endings
  PROVE  /\ \A c \in Commands : AskCommand(c, end) => (clean' > 0 => InStep')
         /\ AskRepeat(end) => (clean' > 0 => InStep')
<1>1. ASSUME ~asking, clean > 0 PROVE Resting
  BY <1>1 DEF SInv, InStep, Sending, Complete, Answering, Ended
<1>2. ASSUME NEW c \in Commands, AskCommand(c, end), clean' > 0 PROVE InStep'
  <2>1. /\ out' = Sent(c) \o end /\ asking' /\ due' = c /\ ending' = Head(end) /\ outcome' = "pending"
        /\ UNCHANGED <<line, pendEOL, readyFlag, pc, last>>
    BY <1>2 DEF AskCommand, Ask, buffers, task
  <2>2. Sent(c) \in Seq(ClientBytes) /\ Sent(c) # Empty
    BY SentBytes
  <2>3. Quiet
    BY <1>1, <1>2, SettleAssumption DEF AskCommand, Ask, Paused, Quiet, Resting
  <2>4. ASSUME clean' > 1 PROVE line = Empty
    <3>1. clean > 0
      BY <1>2, <2>4, SettleAssumption DEF AskCommand, SInv, PInv, ClientTypes
    <3> QED BY <1>1, <1>2, <3>1 DEF AskCommand, Ask, Resting
  <2>5. ASSUME clean' > 1 PROVE Expected(Sent(c))'
    <3>1. line' \o Sent(c) = Sent(c)
      BY <2>1, <2>2, <2>4, <2>5, ConcatEmptySeq DEF Empty
    <3> QED BY <2>1, <3>1 DEF Expected
  <2>6. Sending(Sent(c), end)'
    BY <2>1, <2>2, <2>3, <2>5 DEF Sending, Quiet
  <2> QED BY <2>2, <2>6 DEF InStep
<1>3. ASSUME AskRepeat(end), clean' > 0 PROVE InStep'
  <2>1. /\ out' = Empty \o end /\ asking' /\ due' = due /\ ending' = Head(end) /\ outcome' = "pending"
        /\ UNCHANGED <<line, pendEOL, readyFlag, pc, last>>
    BY <1>3 DEF AskRepeat, Ask, buffers, task
  <2>2. clean' = clean /\ Len(end) = 1 /\ (ending = None \/ ending = Head(end))
    BY <1>3, SettleAssumption DEF AskRepeat, Disturbed
  <2>3. Resting
    BY <1>1, <1>3, <2>2 DEF AskRepeat, Ask
  <2>4. Tail(end) = Empty
    <3>1. end # <<CR, LF>>
      BY <2>2
    <3>2. end = <<CR>> \/ end = <<LF>>
      BY <3>1 DEF Endings
    <3>3. CASE end = <<CR>>
      BY <3>3 DEF Empty
    <3>4. CASE end = <<LF>>
      BY <3>4 DEF Empty
    <3> QED BY <3>2, <3>3, <3>4
  <2>5. Sending(Empty, end)'
    BY <2>1, <2>2, <2>3, <2>4 DEF Sending, Resting, Expected, Quiet, Done
  <2> QED BY <2>5, EmptyIs DEF InStep
<1> QED BY <1>2, <1>3

-----------------------------------------------------------------------------
(* The task works                                                            *)

LEMMA PauseInStep ==
  ASSUME SInv, Wait \/ NothingReady
  PROVE  clean' > 0 => InStep'
<1> SUFFICES ASSUME clean' > 0 PROVE InStep'
  OBVIOUS
<1>1. /\ UNCHANGED <<line, pendEOL, ready, readyFlag, last, out, asking, due, ending, outcome, clean>>
      /\ pc \in {"wait", "service"} /\ pc' \in {"wait", "service"}
  BY DEF Wait, NothingReady, buffers, client
<1>2. InStep
  BY <1>1 DEF SInv
<1>3. CASE Resting
  BY <1>1, <1>3 DEF InStep, Resting, Quiet, Done
<1>4. CASE \E rest \in Seq(ClientBytes), end \in Endings : Sending(rest, end)
  <2>1. PICK rest \in Seq(ClientBytes), end \in Endings : Sending(rest, end)
    BY <1>4
  <2>2. Sending(rest, end)'
    BY <1>1, <2>1 DEF Sending, Quiet, Expected
  <2> QED BY <2>2 DEF InStep
<1>5. CASE Complete
  BY <1>1, <1>5 DEF InStep, Complete, Ended, Meant
<1>6. CASE Answering
  BY <1>1, <1>6 DEF Answering
<1> QED BY <1>2, <1>3, <1>4, <1>5, <1>6 DEF InStep

LEMMA TakeInStep ==
  ASSUME SInv, TakeLine \/ MarkBusy
  PROVE  clean' > 0 => InStep'
<1> SUFFICES ASSUME clean' > 0 PROVE InStep'
  OBVIOUS
<1>1. /\ UNCHANGED <<line, pendEOL, ready, last, out, asking, due, ending, outcome, clean>>
      /\ (pc = "service" /\ readyFlag /\ ~readyFlag' /\ pc' = "mark") \/ (pc = "mark" /\ readyFlag' = readyFlag /\ pc' = "settle")
  BY DEF TakeLine, MarkBusy, buffers, client
<1>2. InStep
  BY <1>1 DEF SInv
<1>3. Complete
  BY <1>1, <1>2 DEF InStep, Resting, Sending, Answering, Quiet
<1> QED BY <1>1, <1>3 DEF InStep, Complete, Ended, Meant

LEMMA ProcessInStep ==
  ASSUME SInv, ProtocolProcessLine
  PROVE  clean' > 0 => InStep'
<1> SUFFICES ASSUME clean' > 0 PROVE InStep'
  OBVIOUS
<1>1. /\ UNCHANGED <<line, pendEOL, readyFlag, out, asking, due, ending, clean>>
      /\ pc = "settle" /\ pc' = "answer" /\ BusSettled
  BY DEF ProtocolProcessLine, buffers, client
<1>2. InStep
  BY <1>1 DEF SInv
<1>3. Complete
  BY <1>1, <1>2 DEF InStep, Resting, Sending, Answering, Quiet
<1>4. Ended' /\ out' = Empty /\ ~readyFlag'
  BY <1>1, <1>3 DEF Complete, Ended, BusSettled
<1>5. ASSUME clean > 1 PROVE Done'
  <2>1. Meant
    BY <1>3, <1>5 DEF Complete
  <2>2. ready # "bad checksum"
    BY <2>1, CommandsAssumption DEF Meant
  <2>3. last' = due
    <3>1. last' = IF ready = "repeat" THEN last ELSE ready
      BY <2>2 DEF ProtocolProcessLine, Rejects, Dispatches
    <3> QED BY <2>1, <3>1, CommandsAssumption DEF Meant
  <2>4. outcome' = "done"
    BY <2>1, <2>2, <2>3 DEF ProtocolProcessLine, Rejects, Dispatches, Meant
  <2> QED BY <1>1, <2>3, <2>4 DEF Done
<1> QED BY <1>1, <1>4, <1>5 DEF InStep, Answering

LEMMA AnswerInStep ==
  ASSUME SInv, Transmit \/ Answered(TRUE)
  PROVE  clean' > 0 => InStep'
<1> SUFFICES ASSUME clean' > 0 PROVE InStep'
  OBVIOUS
<1>1. clean' = clean /\ pc = "answer"
  BY DEF Transmit, Answered
<1>2. InStep
  BY <1>1 DEF SInv
<1>3. Answering
  BY <1>1, <1>2 DEF InStep, Resting, Sending, Complete, Quiet
<1>4. CASE Transmit
  <2>1. UNCHANGED buffers
    BY <1>4, EchoDropped DEF SInv, PInv
  <2> QED BY <1>3, <1>4, <2>1 DEF InStep, Answering, Ended, Done, Transmit, buffers, task, client
<1>5. CASE Answered(TRUE)
  <2>1. /\ UNCHANGED <<line, pendEOL, readyFlag, last, out, due, ending, outcome, clean>>
        /\ pc' \in {"handoff", "wait"} /\ ~asking'
    BY <1>3, <1>5 DEF Answered, Answering, buffers
  <2> QED BY <1>3, <2>1 DEF InStep, Answering, Ended, Resting, Quiet, Done
<1> QED BY <1>4, <1>5

LEMMA RestartInStep ==
  ASSUME SInv, ProtocolStart
  PROVE  clean' > 0 => InStep'
<1>1. pc = "gone" /\ clean' = clean
  BY DEF ProtocolStart
<1>2. ~InStep
  BY <1>1 DEF InStep, Resting, Sending, Complete, Answering, Quiet
<1> QED BY <1>1, <1>2 DEF SInv

LEMMA HeedingStays ==
  ASSUME SInv, [Next]_vars
  PROVE  Heeding'
<1> USE DEF SInv, Heeding
<1>1. CASE Task
  BY <1>1 DEF Task, Wait, NothingReady, TakeLine, MarkBusy, ProtocolProcessLine, Transmit, Answered, Handoff, task
<1>2. CASE ProtocolStart
  BY <1>2 DEF ProtocolStart
<1>3. CASE Client
  BY <1>3 DEF Client, AskCommand, AskRepeat, Ask, SendByte, task
<1>4. CASE Faults
  BY <1>4 DEF Faults, LoseByte, GivesUp, Answered, task
<1>5. CASE UNCHANGED vars
  BY <1>5 DEF vars, task
<1> QED BY <1>1, <1>2, <1>3, <1>4, <1>5 DEF Next

LEMMA StutterInStep ==
  ASSUME SInv, UNCHANGED vars
  PROVE  clean' > 0 => InStep'
<1> SUFFICES ASSUME clean' > 0 PROVE InStep'
  OBVIOUS
<1>1. UNCHANGED <<line, pendEOL, ready, readyFlag, last, out, asking, due, ending, outcome, clean, pc>>
  BY DEF vars, buffers, task, client
<1>2. InStep
  BY <1>1 DEF SInv
<1>3. CASE \E rest \in Seq(ClientBytes), end \in Endings : Sending(rest, end)
  <2>1. PICK rest \in Seq(ClientBytes), end \in Endings : Sending(rest, end)
    BY <1>3
  <2>2. Sending(rest, end)'
    BY <1>1, <2>1 DEF Sending, Quiet, Expected
  <2> QED BY <2>2 DEF InStep
<1>4. CASE Resting
  BY <1>1, <1>4 DEF InStep, Resting, Quiet, Done
<1>5. CASE Complete
  BY <1>1, <1>5 DEF InStep, Complete, Ended, Meant
<1>6. CASE Answering
  BY <1>1, <1>6 DEF InStep, Answering, Ended, Done
<1> QED BY <1>2, <1>3, <1>4, <1>5, <1>6 DEF InStep

LEMMA NextInStep ==
  ASSUME SInv, Next
  PROVE  clean' > 0 => InStep'
<1>1. CASE Task
  <2>1. CASE Handoff
    BY <2>1, DisturbedInStep DEF Handoff
  <2> QED BY <1>1, <2>1, PauseInStep, TakeInStep, ProcessInStep, AnswerInStep DEF Task
<1>2. CASE ProtocolStart
  BY <1>2, RestartInStep
<1>3. CASE Client
  <2>1. ASSUME NEW c \in Commands, NEW end \in Endings, AskCommand(c, end) PROVE clean' > 0 => InStep'
    BY <2>1, AskInStep
  <2>2. ASSUME NEW end \in Endings, AskRepeat(end) PROVE clean' > 0 => InStep'
    BY <2>2, AskInStep
  <2> QED BY <1>3, <2>1, <2>2, SendInStep DEF Client
<1>4. CASE Faults
  <2>1. Disturbed
    BY <1>4 DEF Faults, LoseByte, GivesUp, Answered
  <2> QED BY <2>1, DisturbedInStep
<1> QED BY <1>1, <1>2, <1>3, <1>4 DEF Next

LEMMA SInvariant == Spec => []SInv
<1>1. Init => SInv
  <2> SUFFICES ASSUME Init PROVE SInv
    OBVIOUS
  <2>1. Heeding
    BY DEF Init, Heeding
  <2>2. Resting
    BY DEF Init, Resting, Quiet, Done
  <2> QED BY <2>1, <2>2, InitInv DEF SInv, InStep
<1>2. SInv /\ [Next]_vars => SInv'
  BY PInvStep, HeedingStays, NextInStep, StutterInStep DEF SInv
<1> QED BY <1>1, <1>2, PTL DEF Spec

-----------------------------------------------------------------------------
(* The theorems                                                              *)

(* Whatever the client sends and whatever is lost, a line fits its buffer and *)
(* holds no byte of the board's own answer (ProtocolFeedByte,                *)
(* HAL_UART_RxCpltCallback).                                                 *)
THEOREM LinesAreSound == Spec => []LineSound
<1>1. PInv => LineSound
  <2> SUFFICES ASSUME PInv PROVE LineSound
    OBVIOUS
  <2>1. line \in Seq(Bytes)
    BY DEF PInv, BufferTypes, Bytes
  <2>2. TypeOK
    BY <2>1 DEF TypeOK, PInv, ClientTypes, BufferTypes, TaskTypes
  <2>3. NoEcho
    BY TerminatorsApart DEF NoEcho, PInv, BufferTypes
  <2> QED BY <2>2, <2>3 DEF LineSound
<1>2. SInv => PInv
  BY DEF SInv
<1> QED BY <1>1, <1>2, SInvariant, PTL

(* What a client that waits for its answers asks for is executed once and     *)
(* nothing else is, and a fault is over after one pause and one line, if      *)
(* that line and the next are counted (ProtocolFeedByte, ProtocolService).   *)
THEOREM ExactlyOnce ==
  ASSUME Settle >= 2
  PROVE  Spec => []OncePerLine
<1>1. SInv => OncePerLine
  <2> SUFFICES ASSUME SInv, Settled PROVE outcome # "wrong" /\ (Between => outcome = "done")
    BY DEF OncePerLine
  <2>1. clean > 1 /\ clean > 0
    BY SettleAssumption DEF Settled
  <2>2. InStep
    BY <2>1 DEF SInv
  <2> QED BY <2>1, <2>2 DEF InStep, Resting, Sending, Complete, Answering, Ended, Done, Meant, Expected, Between
<1> QED BY <1>1, SInvariant, PTL
=============================================================================
