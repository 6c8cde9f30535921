-------------------------------- MODULE Sched --------------------------------
(***************************************************************************)
(* How tasks and interrupts take turns on the one processor (tasks.c and the *)
(* Cortex-M4 port, port.c): the part of the kernel that every service shares. *)
(* Tasks call the API, the tick and other interrupts run between any two of  *)
(* their steps, and PendSV switches tasks.  What a call does inside one      *)
(* critical section is one step; a call that suspends the scheduler, or      *)
(* leaves its critical section, lets interrupts in between its steps.        *)
(*                                                                         *)
(* What the tasks and interrupts do is chosen once, in Init, from Programs:  *)
(* each lists the tasks with their priorities, the calls each task may make, *)
(* in any order and for ever, and the calls of an interrupt.                 *)
(***************************************************************************)
EXTENDS TaskLists, FiniteSets

CONSTANTS
  IdleTask,
  Programs,    \* see above
  MaxPended    \* bound: ticks while the scheduler is suspended

VARIABLES
  k,         \* the kernel's lists (TaskLists)
  pc,        \* where each task is: "user", its own code, or a step of a call
  frame,     \* the call each task is in, and its locals
  program    \* what the tasks and interrupts do

schedVars == <<k, pc, frame, program>>

Blockable == {"osDelay", "osDelayUntil", "osThreadFlagsWait", "ulTaskNotifyTake"}
Sleeping(t) == Contains(k.delayed, t) \/ Contains(k.overflow, t)
NoCall == [op |-> "none"]

(* osKernelInitialize, osThreadNew of every task, osKernelStart: the idle    *)
(* task comes last, and PendSV has not run.                                  *)
Create(j, c) == NewTask(j, c.thread, c.prio, FALSE)
Started(p) ==
  Create(FoldLeft(Create, NoTasks(IdleTask),
                  [i \in DOMAIN p.tasks |-> [thread |-> p.tasks[i], prio |-> p.prio[p.tasks[i]]]]),
         [thread |-> IdleTask, prio |-> 0])
SchedInit ==
  /\ program \in Programs
  /\ k = Started(program)
  /\ pc = [t \in Task |-> "user"] /\ frame = [t \in Task |-> NoCall]

(* The running task takes a step of its call: interrupts are enabled, so no  *)
(* switch is pending.                                                        *)
Moves(from, to, next) ==
  /\ ~k.pendsv /\ pc[k.cur] = from
  /\ pc' = [pc EXCEPT ![k.cur] = to] /\ k' = next
  /\ UNCHANGED program
Calls(op) ==
  IF k.pendsv \/ pc[k.cur] # "user" THEN {}
  ELSE {c \in program.calls[k.cur] : c.op = op /\ (k.susp = 0 \/ op \notin Blockable)}
Interrupt(op) == {c \in program.isr : c.op = op}
Enter(c) == frame' = [frame EXCEPT ![k.cur] = c]
Here == frame[k.cur]
Leave == frame' = [frame EXCEPT ![k.cur] = NoCall]

(* A failed configASSERT masks the interrupts and loops.                     *)
Halted == pc[k.cur] = "asserted"
AssertFailed == Halted /\ UNCHANGED schedVars

(* xPortSysTickHandler.  PendSV has the same priority and a lower number, so *)
(* it goes first.                                                            *)
SysTick ==
  /\ ~k.pendsv /\ k.pended < MaxPended /\ ~Halted
  /\ LET r == IncrementTick(k)
     IN k' = [r.kernel EXCEPT !.pendsv = r.switch]
  /\ UNCHANGED <<pc, frame, program>>

PendSV ==
  /\ k.pendsv /\ ~Halted
  /\ k' = SwitchContext([k EXCEPT !.pendsv = FALSE])
  /\ UNCHANGED <<pc, frame, program>>

(* Preemption: when the scheduler is not suspended, no switch is pending and *)
(* a task is in its own code, it is ready and no ready task is more urgent,  *)
(* whichever call, interrupt or tick made that task ready.                   *)
HighestRuns ==
  k.susp = 0 /\ ~k.pendsv /\ pc[k.cur] = "user" =>
    IsReady(k, k.cur) /\ \A t \in Task : IsReady(k, t) => k.prio[t] <= k.prio[k.cur]
=============================================================================
