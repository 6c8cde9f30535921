-------------------------- MODULE SettingsRegister --------------------------
(***************************************************************************)
(* What the settings store promises to its users: one register that holds   *)
(* a settings image or nothing.  A save first hands an image over (Begin);  *)
(* from then on it either becomes the stored value, in one step (Commit),   *)
(* or is dropped (Abandon) because a flash operation failed or the power    *)
(* went away.  No step ever loses the stored value or stores anything but   *)
(* the image of the save in progress.                                       *)
(***************************************************************************)
CONSTANTS Values,    \* settings images
          None       \* no image: nothing stored, or no save in progress

VARIABLES value,     \* the image a reader loads
          pending    \* the image of the save in progress

vars == <<value, pending>>

TypeOK == /\ value \in Values \union {None}
          /\ pending \in Values \union {None}

Init == value \in Values \union {None} /\ pending = None

Begin == /\ pending = None
         /\ pending' \in Values
         /\ UNCHANGED value

Commit == /\ pending # None
          /\ value' = pending
          /\ pending' = None

Abandon == /\ pending # None
           /\ pending' = None
           /\ UNCHANGED value

Next == Begin \/ Commit \/ Abandon

Spec == Init /\ [][Next]_vars
=============================================================================
