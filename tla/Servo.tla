------------------------------- MODULE Servo -------------------------------
(***************************************************************************)
(* The servo of the motion core (app/src/Ramps.c): the 100 kHz interrupt     *)
(* that turns what the scales ask for (Sync), index moves and jogging into   *)
(* step pulses, the tasks that set its pace, mode and enable pin, and the    *)
(* client's writes to the variables they share.                             *)
(*                                                                         *)
(* Speeds are integers: Unit of them is one step per tick, and Accel is what *)
(* one tick adds.  The step counters are kept as their difference.           *)
(***************************************************************************)
EXTENDS Ratio

CONSTANTS
  Requests,   \* steps the synced scales ask for in one tick
  Unit,       \* speed of one step per tick: the interrupt's rate
  Accel,      \* servo.acceleration
  MaxSpeeds, IndexSpeeds,   \* servo.maxSpeed, servo.indexSpeed the client sets
  Targets,    \* servo.stepsToGo the client sets
  Jogs,       \* servo.jogSpeed the client sets
  CounterMod, \* range of servoCycles and its counter, uint16_t
  Writes,     \* bound: writes of the client
  LagHalf     \* half the range of desiredSteps - currentSteps, uint32_t

ASSUME RequestAssumption == Requests \subseteq Int /\ Targets \subseteq Int /\ Jogs \subseteq Int
ASSUME SpeedAssumption ==
  /\ Unit \in Nat \ {0} /\ Accel \in Nat \ {0}
  /\ MaxSpeeds \subseteq Nat \ {0} /\ IndexSpeeds \subseteq Int
ASSUME WidthAssumption == CounterMod \in Nat /\ CounterMod > Unit /\ LagHalf \in Nat \ {0}

VARIABLES
  sync,          \* some scale has syncEnable
  mode,          \* fastData.servoMode: 0 off, 1 sync and index, 2 jog
  maxSpeed, indexSpeed, jogSpeed,
  speed,         \* servo.currentSpeed
  stepsToGo,
  rampError,     \* rampsDeltaPos.error
  lag,           \* servo.desiredSteps - servo.currentSteps
  dir,           \* the DIR pin: 1 set, -1 reset
  prevDir,       \* servoPreviousDirection
  cycles, counter,   \* servoCycles, servoCyclesCounter
  step,          \* the STEP pin
  enabled,       \* the ENA pin is active
  enabler,       \* where servoEnableTask is
  writes         \* bound: writes the client still makes; then the encoders stand too

commanded == <<sync, maxSpeed, indexSpeed, jogSpeed>>
ramp == <<speed, stepsToGo, rampError>>
pulse == <<lag, dir, prevDir, counter, step>>
servoVars == <<commanded, mode, ramp, pulse, cycles, enabled, enabler, writes>>

AtMost(x, y) == IF x < y THEN x ELSE y
AtLeast(x, y) == IF x > y THEN x ELSE y

(* The difference of two uint32_t, read as an int32_t.                       *)
Wrap(x) == ((x + LagHalf) % (2 * LagHalf)) - LagHalf

ServoTypeOK ==
  /\ sync \in BOOLEAN /\ mode \in 0..2
  /\ maxSpeed \in MaxSpeeds \cup {Unit} /\ indexSpeed \in IndexSpeeds \cup {0} /\ jogSpeed \in Jogs \cup {0}
  /\ speed \in Int /\ stepsToGo \in Int /\ rampError \in Int /\ Abs(rampError) < Unit
  /\ lag \in (-LagHalf)..(LagHalf - 1) /\ dir \in {-1, 1} /\ prevDir \in {-1, 0, 1}
  /\ cycles \in 0..(CounterMod - 1) /\ counter \in 0..(CounterMod - 1)
  /\ step \in BOOLEAN /\ enabled \in BOOLEAN /\ enabler \in {"waits", "writes", "pin"} /\ writes \in 0..Writes

ServoInit ==
  /\ sync = FALSE /\ mode = 0 /\ maxSpeed \in MaxSpeeds /\ indexSpeed = 0 /\ jogSpeed = 0
  /\ speed = 0 /\ stepsToGo = 0 /\ rampError = 0
  /\ lag = 0 /\ dir = -1 /\ prevDir = 0
  /\ cycles = 0 /\ counter = 0 /\ step = FALSE
  /\ enabled = FALSE /\ enabler = "waits" /\ writes = Writes

-----------------------------------------------------------------------------
(* Ramps.  Towards a target in the positive direction: the code for the       *)
(* negative one is its mirror image.                                        *)

Cap == IF indexSpeed > 0 /\ indexSpeed <= maxSpeed THEN indexSpeed ELSE maxSpeed

(* Braking from v takes v^2 / (2 * Accel) / Unit steps; both tests may apply   *)
(* to neither.                                                               *)
Ahead(togo, v) == 2 * Accel * Unit * togo - v * v

IndexTowards(togo, v) ==
  CASE Ahead(togo, v) > 0 /\ v < Cap -> AtMost(v + Accel, Cap)
    [] Ahead(togo, v) < 0 -> AtLeast(v - Accel, 0)
    [] OTHER -> v

IndexSpeed == Sign(stepsToGo) * IndexTowards(Abs(stepsToGo), Sign(stepsToGo) * speed)

JogStart(v) ==
  CASE jogSpeed > 0 /\ v < jogSpeed -> AtMost(v + Accel, jogSpeed)
    [] jogSpeed < 0 /\ v > jogSpeed -> AtLeast(v - Accel, jogSpeed)
    [] OTHER -> v

(* Mutant: a jog speed of zero does not stop the motor.                     *)
JogStopPosNever(v) == v

JogStopPos(v) == IF v > 0 /\ v > jogSpeed THEN AtLeast(v - Accel, 0) ELSE v
JogStopNeg(v) == IF v < 0 /\ v < jogSpeed THEN AtMost(v + Accel, 0) ELSE v

Increment(v) == Quot(v + rampError, Unit)

Advance(v) ==
  /\ speed' = v
  /\ rampError' = Rem(v + rampError, Unit)

(* The ramp's share of the tick; inc is what it adds to desiredSteps.         *)
Rest(inc) == mode = 0 /\ inc = 0 /\ UNCHANGED ramp

Indexed(inc) ==
  /\ mode = 1 /\ stepsToGo # 0
  /\ inc = Increment(IndexSpeed)
  /\ Advance(IndexSpeed) /\ stepsToGo' = stepsToGo - inc

AtTarget(inc) ==
  /\ mode = 1 /\ stepsToGo = 0
  /\ inc = 0
  /\ speed' = 0 /\ UNCHANGED <<stepsToGo, rampError>>

Jogged(inc) ==
  /\ mode = 2
  /\ LET v == JogStopNeg(JogStopPos(JogStart(speed)))
     IN inc = Increment(v) /\ Advance(v)
  /\ UNCHANGED stepsToGo

-----------------------------------------------------------------------------
(* Step pulses                                                              *)

(* The processor divides by zero to zero: until updateSpeedTask first runs,   *)
(* the counter runs through all of its range.                                *)
NextCounter == IF cycles = 0 THEN (counter + 1) % CounterMod ELSE (counter + 1) % cycles

Direction(change) == IF change < 0 THEN -1 ELSE 1

(* Mutant: a pulse in the interrupt that turns the pin.                     *)
StepsAtOnce(change) == change # 0

Steps(change) == change # 0 /\ Direction(change) = prevDir

Slot(change) ==
  /\ mode # 0 /\ counter = 0
  /\ dir' = IF change = 0 THEN dir ELSE Direction(change)
  /\ lag' = IF Steps(change) THEN change - Direction(change) ELSE change
  /\ prevDir' = Direction(change) /\ step' = Steps(change)

NoSlot(change) ==
  /\ ~(mode # 0 /\ counter = 0)
  /\ lag' = change /\ step' = FALSE /\ UNCHANGED <<dir, prevDir>>

(* SynchroRefreshTimerIsr                                                    *)
Tick(request) ==
  \E inc \in (-Unit)..Unit :
    /\ Rest(inc) \/ Indexed(inc) \/ AtTarget(inc) \/ Jogged(inc)
    /\ LET change == Wrap(lag + request + inc) IN Slot(change) \/ NoSlot(change)
    /\ counter' = NextCounter
    /\ UNCHANGED <<commanded, mode, cycles, enabled, enabler, writes>>

Isr == \E request \in IF sync /\ writes > 0 THEN Requests ELSE {0} : Tick(request)

-----------------------------------------------------------------------------
(* Tasks *)

(* updateSpeedTask: the cadence of the pulses follows maxSpeed.               *)
UpdateSpeed ==
  /\ maxSpeed' = AtMost(maxSpeed, Unit)
  /\ cycles' = AtMost(Unit \div maxSpeed', CounterMod - 1)
  /\ UNCHANGED <<sync, indexSpeed, jogSpeed, mode, ramp, pulse, enabled, enabler, writes>>

(* servoEnableTask: the protocol task and the interrupt may come between the  *)
(* test, the write and the look at the mode that sets the pin.               *)
EnableTest ==
  /\ enabler = "waits" /\ sync /\ mode # 2
  /\ enabler' = "writes"
  /\ UNCHANGED <<commanded, mode, ramp, pulse, cycles, enabled, writes>>

EnableWrite ==
  /\ enabler = "writes"
  /\ mode' = 1 /\ enabler' = "pin"
  /\ UNCHANGED <<commanded, ramp, pulse, cycles, enabled, writes>>

EnablePin ==
  /\ enabler = "pin" \/ (enabler = "waits" /\ ~(sync /\ mode # 2))
  /\ enabled' = (mode # 0) /\ enabler' = "waits"
  /\ UNCHANGED <<commanded, mode, ramp, pulse, cycles, writes>>

ServoEnable == EnableTest \/ EnableWrite \/ EnablePin

-----------------------------------------------------------------------------
(* The client's set commands (Protocol.c writes the variable in one store)    *)

SetSync ==
  /\ sync' \in BOOLEAN
  /\ UNCHANGED <<maxSpeed, indexSpeed, jogSpeed, mode, ramp, pulse, cycles, enabled, enabler>>

SetMode ==
  /\ mode' \in 0..2
  /\ UNCHANGED <<commanded, ramp, pulse, cycles, enabled, enabler>>

SetLimits ==
  /\ \/ maxSpeed' \in MaxSpeeds /\ indexSpeed' = indexSpeed
     \/ indexSpeed' \in IndexSpeeds /\ maxSpeed' = maxSpeed
  /\ UNCHANGED <<sync, jogSpeed, mode, ramp, pulse, cycles, enabled, enabler>>

SetTarget ==
  /\ stepsToGo' \in Targets
  /\ UNCHANGED <<commanded, mode, speed, rampError, pulse, cycles, enabled, enabler>>

SetJog ==
  /\ jogSpeed' \in Jogs
  /\ UNCHANGED <<sync, maxSpeed, indexSpeed, mode, ramp, pulse, cycles, enabled, enabler>>

ServoClient ==
  /\ writes > 0 /\ writes' = writes - 1
  /\ SetSync \/ SetMode \/ SetLimits \/ SetTarget \/ SetJog

ServoNext == Isr \/ UpdateSpeed \/ ServoEnable \/ ServoClient

(* The timer interrupt and the tasks run for ever.                           *)
ServoSpec ==
  /\ ServoInit /\ [][ServoNext]_servoVars
  /\ WF_servoVars(Isr) /\ WF_servoVars(UpdateSpeed) /\ WF_servoVars(ServoEnable)

-----------------------------------------------------------------------------
(* Properties *)

(* A pulse counts in the direction of the DIR pin, and the pin turned back     *)
(* one slot before the first pulse back.                                     *)
PulsesFollowDir == [][step' /\ Isr => dir' = prevDir' /\ (dir' = -1 => dir = -1)]_servoVars

(* Once the client and the scales are still the motor comes to where it is    *)
(* wanted and stays there, unless it is off or jogs, and the driver's pin     *)
(* agrees with the mode.                                                     *)
Wanted ==
  /\ enabled = (mode # 0)
  /\ \/ mode = 0
     \/ mode = 1 /\ lag = 0 /\ stepsToGo = 0
     \/ mode = 2 /\ (jogSpeed = 0 => lag = 0)
MotorReaches == (writes = 0) ~> []Wanted
=============================================================================
