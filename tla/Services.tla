------------------------------- MODULE Services -------------------------------
(***************************************************************************)
(* The services of the kernel together: any task may use any of the objects  *)
(* its program has, and the heap they are made from.                         *)
(***************************************************************************)
EXTENDS Requests

serviceVars == <<k, pc, frame, program, obj, heap>>

(* A run begins at some tick (program.start), so that the count wraps while  *)
(* tasks wait, and is followed for program.ticks ticks.                      *)
Init ==
  /\ program \in Programs
  /\ k = [Started(program) EXCEPT !.tick = program.start]
  /\ pc = [t \in Task |-> "user"] /\ frame = [t \in Task |-> NoCall]
  /\ obj = program.objects /\ HeapInit
Passed == k.ovf * TickRange + k.tick + k.pended - program.start
Interrupts == ((SysTick /\ Passed < program.ticks) \/ PendSV \/ AssertFailed) /\ UNCHANGED obj
(* A task that is in its own code goes on with it, the idle task above all.   *)
OwnCode == ~k.pendsv /\ pc[k.cur] = "user" /\ UNCHANGED objectVars

(* pvPortMalloc and vPortFree work while the scheduler is suspended; without *)
(* a block that is large enough nothing changes.  The application frees what *)
(* it has allocated.                                                         *)
HeapUse(c) ==
  /\ pc[k.cur] = "user" /\ HeapCall("resume")
  /\ Enter([op |-> c.op, on |-> Nothing, next |-> "user", blocks |-> FALSE])
TaskMalloc ==
  \E c \in Calls("malloc") :
    /\ HeapUse(c)
    /\ IF Fits(c.bytes) = {} THEN UNCHANGED heap ELSE \E b \in heap.free : Malloc(c.bytes, b)
TaskFree ==
  \E c \in Calls("free") : \E b \in heap.used : ForItself(b) /\ HeapUse(c) /\ FreeMemory(b)

Next ==
  \/ TaskMalloc \/ TaskFree \/ OwnerSteps
  \/ /\ OwnCode \/ Interrupts \/ Resume \/ YieldWithinAPI \/ Delay \/ QueueSteps
        \/ GroupSteps \/ StreamSteps \/ TimerSteps \/ PoolSteps
     /\ UNCHANGED heap
Spec == Init /\ [][Next]_serviceVars
=============================================================================
