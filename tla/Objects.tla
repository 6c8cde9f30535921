------------------------------- MODULE Objects -------------------------------
(***************************************************************************)
(* The kernel objects tasks share (queues, event groups, stream buffers,     *)
(* timers), each a record under its name, and the end every call has that    *)
(* suspends the scheduler.  The call's frame says where it goes on when the  *)
(* scheduler is resumed ("next") and whether it has put its task on a list   *)
(* to wait ("blocks").                                                       *)
(***************************************************************************)
EXTENDS Sched

CONSTANT Nothing  \* NULL: no holder, no task, a slot never written

VARIABLE obj

objectVars == <<k, pc, frame, program, obj>>

(* A record with the fields of both (@@ of module TLC, which the provers do   *)
(* not know).                                                                *)
Joined(f, g) == [x \in DOMAIN f \cup DOMAIN g |-> IF x \in DOMAIN f THEN f[x] ELSE g[x]]

NoObject == [kind |-> "none"]
Put(o, object) == obj' = [obj EXCEPT ![o] = object]
FromISR(next) == k' = next /\ ~Halted /\ UNCHANGED <<pc, frame, program>>
(* What portYIELD_FROM_ISR and queueYIELD_IF_USING_PREEMPTION do.            *)
YieldIf(switch, kernel) == IF switch THEN Yield(kernel) ELSE kernel

Returns(from, next) == Moves(from, "user", next) /\ Leave
Goes(from, to, next) == Moves(from, to, next) /\ UNCHANGED frame

(* xTaskResumeAll, and portYIELD_WITHIN_API when the task is to wait and     *)
(* resuming has not already asked for the switch.                            *)
GoesOn(to) == IF to = "user" THEN Leave ELSE UNCHANGED frame
Resume ==
  LET to == IF Here.blocks /\ ~AlreadyYielded(k) THEN "yield" ELSE Here.next
  IN /\ pc[k.cur] = "resume"
     /\ Moves("resume", to, ResumeAll(k)) /\ GoesOn(to) /\ UNCHANGED obj
YieldWithinAPI ==
  /\ pc[k.cur] = "yield"
  /\ Moves("yield", Here.next, Yield(k)) /\ GoesOn(Here.next) /\ UNCHANGED obj

(* osDelay (vTaskDelay); Kernel has it in full.                              *)
osDelay(n) == [op |-> "delay", ticks |-> n]
Delay ==
  \E c \in Calls("delay") :
    /\ Moves("user", "resume", AddCurrentToDelayed(SuspendAll(k), c.ticks, FALSE))
    /\ Enter([op |-> "delay", on |-> Nothing, next |-> "user", blocks |-> TRUE]) /\ UNCHANGED obj

(* The wake-up of the first task that waits on an event list.                *)
WakeOne(kernel, e) ==
  IF kernel.events[e] = <<>> THEN kernel
  ELSE YieldIf(RemovedIsUrgent(kernel, e), RemoveFromEventList(kernel, e))
=============================================================================
