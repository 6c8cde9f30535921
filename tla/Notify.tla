-------------------------------- MODULE Notify --------------------------------
(***************************************************************************)
(* Task notifications (xTaskGenericNotify and its kin in tasks.c): a state   *)
(* and a value in every task control block.                                  *)
(***************************************************************************)
EXTENDS Sched

CONSTANT Bits  \* the bits of ulNotifiedValue, 0 the lowest

(* A value is the set of its bits.                                           *)
Increment(v) ==
  LET clear == Bits \ v IN IF clear = {} THEN {} ELSE (v \ 0 .. Min(clear)) \cup {Min(clear)}
Decrement(v) == (v \ {Min(v)}) \cup (Bits \cap (0 .. Min(v) - 1))
Actions ==
  {"eSetBits", "eIncrement", "eSetValueWithOverwrite", "eSetValueWithoutOverwrite", "eNoAction"}
NewValue(u, action, v) ==
  CASE action = "eSetBits" -> k.nval[u] \cup v
    [] action = "eIncrement" -> Increment(k.nval[u])
    [] action = "eSetValueWithOverwrite" -> v
    [] action = "eSetValueWithoutOverwrite" -> IF k.nstate[u] = "received" THEN k.nval[u] ELSE v
    [] action = "eNoAction" -> k.nval[u]
Received(u, action, v) == [k EXCEPT !.nstate[u] = "received", !.nval[u] = NewValue(u, action, v)]
Urgent(u) == k.nstate[u] = "waiting" /\ k.prio[u] > k.prio[k.cur]

GenericNotify(u, action, v) ==
  LET k1 == Received(u, action, v)
      k2 == IF k.nstate[u] = "waiting" THEN Ready(k1, u) ELSE k1
  IN IF Urgent(u) THEN Yield(k2) ELSE k2
(* Faulty variant: the task is not made ready.                               *)
GenericNotifyQuiet(u, action, v) == Received(u, action, v)
GenericNotifyFromISR(u, action, v) ==
  LET k1 == Received(u, action, v)
      k2 == IF k.nstate[u] = "waiting" THEN ReadyOrPend(k1, u) ELSE k1
  IN IF Urgent(u) THEN Yield([k2 EXCEPT !.missed = TRUE]) ELSE k2
(* To block for a notification, at most n ticks.                             *)
Block(n) ==
  LET k1 == [k EXCEPT !.nstate[k.cur] = "waiting"]
  IN IF n > 0 THEN Yield(AddCurrentToDelayed(k1, n, TRUE)) ELSE k1
=============================================================================
