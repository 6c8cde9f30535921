------------------------------- MODULE Ratio -------------------------------
(***************************************************************************)
(* The integer division of the motion core (app/src/Ramps.c).                *)
(***************************************************************************)
EXTENDS Integers

Abs(x) == IF x < 0 THEN -x ELSE x
Sign(x) == IF x < 0 THEN -1 ELSE 1

(* Mutant: division towards minus infinity.                                 *)
QuotFloor(a, b) == CASE b = 0 -> 0 [] b > 0 -> a \div b [] OTHER -> (-a) \div (-b)

(* Division of C, towards zero; the processor divides by zero to zero.        *)
Quot(a, b) == IF b = 0 THEN 0 ELSE Sign(a) * Sign(b) * (Abs(a) \div Abs(b))

(* Mutant: nothing remains of a division by zero.                           *)
RemOrNothing(a, b) == IF b = 0 THEN 0 ELSE a - b * Quot(a, b)

Rem(a, b) == a - b * Quot(a, b)
=============================================================================
