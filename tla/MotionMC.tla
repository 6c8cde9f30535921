------------------------------ MODULE MotionMC ------------------------------
(***************************************************************************)
(* The motion core: in every behaviour one of its two halves, a scale or the  *)
(* servo, moves and the other stands (they meet in a number of steps that a  *)
(* tick of Servo takes from Requests, as many as a tick of Sync may ask for).  *)
(***************************************************************************)
EXTENDS Sync, Servo

VARIABLE half   \* the half that moves

MCNums == {1, -3}
MCDens == {0, 2, -3}
MCRequests == {-1, 0, 1}
MCTargets == {-1, 2}
MCJogs == {-2, 0, 1}

motionVars == <<half, syncVars, servoVars>>

(* The half that stands has but one state.                                   *)
Still ==
  \/ half = "servo" /\ num = 1 /\ den = 2
  \/ half = "scale" /\ maxSpeed = 1

MotionInit == half \in {"scale", "servo"} /\ SyncInit /\ ServoInit /\ Still

MotionNext ==
  /\ \/ half = "scale" /\ SyncNext /\ UNCHANGED servoVars
     \/ half = "servo" /\ ServoNext /\ UNCHANGED syncVars
  /\ UNCHANGED half

MotionSpec ==
  /\ MotionInit /\ [][MotionNext]_motionVars
  /\ WF_motionVars(half = "servo" /\ Isr /\ UNCHANGED <<half, syncVars>>)
  /\ WF_motionVars(half = "servo" /\ UpdateSpeed /\ UNCHANGED <<half, syncVars>>)
  /\ WF_motionVars(half = "servo" /\ ServoEnable /\ UNCHANGED <<half, syncVars>>)
=============================================================================
