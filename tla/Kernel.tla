------------------------------- MODULE Kernel -------------------------------
(***************************************************************************)
(* The FreeRTOS scheduler of the application as its tasks see it: delays,    *)
(* notifications and thread flags, suspension, priorities, threads created   *)
(* and ended (tasks.c and the thread part of the wrapper cmsis_os2.c).       *)
(***************************************************************************)
EXTENDS Notify

CONSTANTS
  MaxNesting,  \* bound: nested suspensions of the scheduler
  MaxLate      \* bound: ticks a task may be kept from running in osDelayUntil

(* What a program may ask for: calls whose arguments the wrapper and the      *)
(* kernel take, on tasks of the program; nobody stops the idle task, which   *)
(* calls nothing itself.  The bounds leave the tick's count unambiguous.     *)
Sensible(p) ==
  /\ p.tasks \in Seq(Task \ {IdleTask}) /\ IsInjective(p.tasks)
  /\ p.prio \in [Task -> Nat] /\ p.calls[IdleTask] = {}
  /\ \A c \in p.isr \cup UNION {p.calls[t] : t \in Task} :
       /\ c.op \in {"osThreadFlagsSet", "xTaskNotify", "vTaskNotifyGiveFromISR", "xTaskNotifyStateClear",
                     "ulTaskNotifyValueClear", "osThreadSetPriority", "osThreadNew",
                     "osThreadResume", "xTaskResumeFromISR"} => c.thread \in Task
       /\ c.op \in {"osThreadSuspend", "osThreadTerminate"} => c.thread \in Task \ {IdleTask}
       /\ c.op = "osThreadSetPriority" => c.prio \in Levels
       /\ c.op = "osDelay" => c.ticks \in 1 .. MaxDelay
       /\ c.op = "osDelayUntil" => c.until \in Ticks
       /\ c.op \in {"osThreadFlagsWait", "ulTaskNotifyTake"} => c.timeout \in 0 .. MaxDelay
       /\ c.op \in {"osThreadFlagsSet", "osThreadFlagsWait", "xTaskNotify"} => c.flags \subseteq Bits
       /\ c.op = "xTaskNotify" => c.action \in Actions
ASSUME KernelAssumption ==
  /\ IdleTask \in Task /\ IsFiniteSet(Task) /\ Bits \subseteq Nat
  /\ MaxPended \in Nat /\ MaxNesting \in Nat \ {0} /\ MaxLate \in Nat \ {0}
  /\ MaxLate + MaxPended <= TickRange \div 2
  /\ \A p \in Programs : Sensible(p)

VARIABLES
  left,      \* reference: ticks until the task is to be woken
  systicks   \* reference: SysTick interrupts, counted like the tick

vars == <<k, pc, frame, program, left, systicks>>

(* What the thread calls of cmsis_os2.c ask for.                             *)
osThreadNew(u) == [op |-> "osThreadNew", thread |-> u]
osThreadSetPriority(u, p) == [op |-> "osThreadSetPriority", thread |-> u, prio |-> p]
osThreadYield == [op |-> "osThreadYield"]
osThreadSuspend(u) == [op |-> "osThreadSuspend", thread |-> u]
osThreadResume(u) == [op |-> "osThreadResume", thread |-> u]
osThreadExit == [op |-> "osThreadExit"]
osThreadTerminate(u) == [op |-> "osThreadTerminate", thread |-> u]

Locations == {"user", "delay", "until", "untilPlace", "resume", "yield", "query", "wait", "take",
              "count", "suspended", "listed", "clear", "asserted"}
Alive(u) == IsReady(k, u) \/ Sleeping(u) \/ u \in k.suspended

Init == SchedInit /\ left = [t \in Task |-> 0] /\ systicks = 0

Same == UNCHANGED <<frame, left>>

(* The reference counts a tick when the kernel does.                         *)
Floor(t) == IF pc[t] = "until" \/ pc[t] = "untilPlace" THEN -MaxLate ELSE 0
Counted == (k'.tick - k.tick) % TickRange
Aged == [t \in Task |-> Max({Floor(t), left[t] - Counted})]
Due(t, n) == left' = [left EXCEPT ![t] = n]

KernelTick ==
  /\ SysTick
  /\ \A t \in Task : Floor(t) < 0 => left[t] > -MaxLate
  /\ systicks' = (systicks + 1) % TickRange
  /\ left' = Aged

-----------------------------------------------------------------------------
(* osDelay, osDelayUntil: vTaskDelay, vTaskDelayUntil, then portYIELD unless  *)
(* resuming the scheduler has already asked for the switch.                  *)
Delay ==
  \E c \in Calls("osDelay") :
    Moves("user", "delay", SuspendAll(k)) /\ Enter(c) /\ UNCHANGED left
DelayPlace ==
  /\ Moves("delay", "resume", AddCurrentToDelayed(k, Here.ticks, FALSE))
  /\ Due(k.cur, Here.ticks) /\ UNCHANGED frame

(* The caller names a tick; a distance of half the range or more is refused. *)
DelayUntil ==
  \E c \in Calls("osDelayUntil") :
    LET n == (c.until - k.tick) % TickRange
    IN /\ 0 < n /\ n < TickRange \div 2
       /\ Moves("user", "until", k)
       /\ Enter([op |-> "osDelayUntil", prev |-> k.tick, n |-> n]) /\ Due(k.cur, n)
Until == Moves("until", "untilPlace", SuspendAll(k)) /\ Same
(* Faulty variant: without regard to the wrap of the count.                  *)
ShouldDelayUnwrapped(prev, wake) == wake > k.tick
ShouldDelay(prev, wake) ==
  IF k.tick < prev THEN wake < prev /\ wake > k.tick ELSE wake < prev \/ wake > k.tick
UntilPlace ==
  LET wake == (Here.prev + Here.n) % TickRange
  IN /\ Moves("untilPlace", "resume",
              IF ShouldDelay(Here.prev, wake)
                THEN AddCurrentToDelayed(k, (wake - k.tick) % TickRange, FALSE) ELSE k)
     /\ Same
Resume ==
  /\ Moves("resume", IF AlreadyYielded(k) THEN "user" ELSE "yield", ResumeAll(k))
  /\ left' = Aged /\ Leave
YieldWithinAPI == Moves("yield", "user", Yield(k)) /\ Leave /\ UNCHANGED left

ThreadYield == Calls("osThreadYield") # {} /\ Moves("user", "user", Yield(k)) /\ Same

-----------------------------------------------------------------------------
(* osKernelLock, osKernelUnlock, osKernelRestoreLock.                        *)
SchedulerState == IF k.susp = 0 THEN "running" ELSE "suspended"
KernelLock ==
  /\ Calls("osKernelLock") # {} /\ SchedulerState = "running"
  /\ Moves("user", "user", SuspendAll(k)) /\ Same
KernelUnlock ==
  /\ Calls("osKernelLock") # {} /\ SchedulerState = "suspended"
  /\ Moves("user", "user", ResumeAll(k)) /\ left' = Aged /\ UNCHANGED frame
KernelRestoreLock ==
  \E c \in Calls("osKernelRestoreLock") :
    /\ IF c.lock THEN k.susp < MaxNesting ELSE k.susp > 0
    /\ Moves("user", "user", IF c.lock THEN SuspendAll(k) ELSE ResumeAll(k))
    /\ left' = Aged /\ UNCHANGED frame

-----------------------------------------------------------------------------
(* Notifications (Notify).                                                   *)
(* Who waits for a notification must be in no event list; the pending list    *)
(* holds him when he waits for ever and an interrupt resumes him.            *)
Misplaced(u) == k.nstate[u] = "waiting" /\ OnEventList(k, u)
NotDue(u) == IF k.nstate[u] = "waiting" THEN Due(u, 0) ELSE UNCHANGED left

(* osThreadFlagsSet notifies, then asks for the value with a second          *)
(* notification; in an interrupt nothing comes between the two.              *)
FlagsSet ==
  \E c \in Calls("osThreadFlagsSet") :
    ~Misplaced(c.thread) /\ Moves("user", "query", GenericNotify(c.thread, "eSetBits", c.flags)) /\ Enter(c) /\ NotDue(c.thread)
FlagsQuery ==
  Moves("query", "user", GenericNotify(Here.thread, "eNoAction", {})) /\ Leave /\ NotDue(Here.thread)
Notify ==
  \E c \in Calls("xTaskNotify") :
    ~Misplaced(c.thread) /\ Moves("user", "user", GenericNotify(c.thread, c.action, c.flags)) /\ NotDue(c.thread) /\ UNCHANGED frame
FromISR(u, next) ==
  /\ ~Halted /\ ~Misplaced(u)
  /\ k' = next /\ NotDue(u) /\ UNCHANGED <<pc, frame, program>>
FlagsSetFromISR ==
  \E c \in Interrupt("osThreadFlagsSet") :
    FromISR(c.thread, GenericNotifyFromISR(c.thread, "eSetBits", c.flags))
NotifyGiveFromISR ==
  \E c \in Interrupt("vTaskNotifyGiveFromISR") :
    FromISR(c.thread, GenericNotifyFromISR(c.thread, "eIncrement", {}))

Notifying == Calls("osThreadFlagsSet") \cup Calls("xTaskNotify")
NotifyingFromISR == Interrupt("osThreadFlagsSet") \cup Interrupt("vTaskNotifyGiveFromISR")
NotifyAsserts ==
  /\ \/ ~k.pendsv /\ pc[k.cur] = "user" /\ \E c \in Notifying : Misplaced(c.thread)
     \/ ~Halted /\ \E c \in NotifyingFromISR : Misplaced(c.thread)
  /\ pc' = [pc EXCEPT ![k.cur] = "asserted"] /\ UNCHANGED <<k, frame, program, left>>

(* Block for a notification unless there is one already.                     *)
Waits(from, to, blocked, n) ==
  /\ Moves(from, to, IF blocked THEN Block(n) ELSE k)
  /\ Due(k.cur, IF blocked /\ n # MaxDelay THEN n ELSE 0)

(* osThreadFlagsWait: its loop over xTaskNotifyWait, which first waits and   *)
(* then takes what has come.                                                 *)
FlagsWait ==
  \E c \in Calls("osThreadFlagsWait") :
    Moves("user", "wait", k) /\ UNCHANGED left
      /\ Enter([op |-> "osThreadFlagsWait", want |-> c.flags, all |-> c.all, clear |-> c.clear,
                timeout |-> c.timeout, tout |-> c.timeout, t0 |-> k.tick, got |-> {}])
NotifyWait == Waits("wait", "take", k.nstate[k.cur] # "received", Here.tout) /\ UNCHANGED frame
Gathered == (Here.got \cap Here.want) \cup k.nval[k.cur]
Satisfied == IF Here.all THEN Here.want \subseteq Gathered ELSE Here.want \cap Gathered # {}
Taken == [k EXCEPT !.nstate[k.cur] = "no",
                   !.nval[k.cur] = IF Here.clear THEN @ \ Here.want ELSE @]
FlagsWaitDone ==
  LET received == k.nstate[k.cur] = "received"
  IN /\ pc[k.cur] = "take"
     /\ ~received \/ Satisfied \/ Here.timeout = 0
     /\ Moves("take", "user", IF received THEN Taken ELSE [k EXCEPT !.nstate[k.cur] = "no"])
     /\ Leave /\ UNCHANGED left
FlagsWaitAgain ==
  LET spent == (k.tick - Here.t0) % TickRange
  IN /\ pc[k.cur] = "take"
     /\ k.nstate[k.cur] = "received" /\ ~Satisfied /\ Here.timeout # 0
     /\ Moves("take", "wait", Taken)
     /\ Enter([Here EXCEPT !.got = Gathered, !.tout = IF spent > @ THEN 0 ELSE @ - spent])
     /\ UNCHANGED left

(* osThreadFlagsGet reads the flags with a notification of the task itself;   *)
(* osThreadFlagsClear writes back what it has read, without the flags.       *)
FlagsGet == Calls("osThreadFlagsGet") # {} /\ Moves("user", "user", GenericNotify(k.cur, "eNoAction", {})) /\ Same
FlagsClear ==
  \E c \in Calls("osThreadFlagsClear") :
    /\ Moves("user", "clear", GenericNotify(k.cur, "eNoAction", {}))
    /\ Enter([op |-> "osThreadFlagsClear", left |-> k.nval[k.cur] \ c.flags]) /\ UNCHANGED left
FlagsWriteBack ==
  Moves("clear", "user", GenericNotify(k.cur, "eSetValueWithOverwrite", Here.left)) /\ Leave /\ UNCHANGED left

(* ulTaskNotifyTake.                                                         *)
NotifyTake ==
  \E c \in Calls("ulTaskNotifyTake") :
    Waits("user", "count", k.nval[k.cur] = {}, c.timeout) /\ Enter(c)
NotifyTakeDone ==
  /\ Moves("count", "user",
           [k EXCEPT !.nstate[k.cur] = "no",
                     !.nval[k.cur] = IF @ = {} \/ Here.clear THEN {} ELSE Decrement(@)])
  /\ Leave /\ UNCHANGED left

NotifyStateClear ==
  \E c \in Calls("xTaskNotifyStateClear") :
    /\ k.nstate[c.thread] = "received"
    /\ Moves("user", "user", [k EXCEPT !.nstate[c.thread] = "no"]) /\ Same
NotifyValueClear ==
  \E c \in Calls("ulTaskNotifyValueClear") :
    Moves("user", "user", [k EXCEPT !.nval[c.thread] = @ \ c.flags]) /\ Same

-----------------------------------------------------------------------------
(* osThreadSuspend (vTaskSuspend), osThreadResume (vTaskResume) and          *)
(* xTaskResumeFromISR.                                                       *)
Off(u) == Unevent(Unlist(k, u), u)
Put(j, u) ==
  [j EXCEPT !.suspended = @ \cup {u}, !.nstate[u] = IF @ = "waiting" THEN "no" ELSE @]
Suspend ==
  \E c \in Calls("osThreadSuspend") :
    /\ Alive(c.thread) /\ (c.thread = k.cur => k.susp = 0)
    /\ Moves("user", "suspended", Put(Off(c.thread), c.thread))
    /\ Enter(c)
    /\ IF pc[c.thread] = "until" THEN UNCHANGED left ELSE Due(c.thread, 0)
SuspendReset ==
  Moves("suspended", IF Here.thread = k.cur THEN "yield" ELSE "user", ResetUnblock(k)) /\ Same

IsSuspended(u) == u \in k.suspended /\ ~OnEventList(k, u)
ThreadResume ==
  \E c \in Calls("osThreadResume") :
    /\ c.thread # k.cur /\ IsSuspended(c.thread)
    /\ Moves("user", "user",
             IF k.prio[c.thread] >= k.prio[k.cur] THEN Yield(Ready(k, c.thread)) ELSE Ready(k, c.thread))
    /\ Same
ResumeFromISR ==
  \E c \in Interrupt("xTaskResumeFromISR") :
    /\ ~Halted /\ IsSuspended(c.thread)
    /\ k' = LET k1 == ReadyOrPend(k, c.thread)
            IN IF k.susp = 0 /\ k.prio[c.thread] >= k.prio[k.cur] THEN Yield(k1) ELSE k1
    /\ UNCHANGED <<pc, frame, program, left>>

(* osThreadSetPriority: vTaskPrioritySet.                                    *)
Reprioritised(u, p) ==
  LET k1 == [k EXCEPT !.prio[u] = IF k.base[u] = k.prio[u] THEN p ELSE @, !.base[u] = p,
                      !.order[u] = IF k.flags[u] = {} THEN Priorities - p ELSE @]
  IN IF Contains(k.ready[k.prio[u]], u) THEN Ready(k1, u) ELSE k1
SetPriority ==
  \E c \in Calls("osThreadSetPriority") :
    LET u == c.thread
        yield == IF c.prio > k.base[u] THEN u # k.cur /\ c.prio >= k.prio[k.cur] ELSE u = k.cur
    IN /\ Alive(u) /\ c.prio # k.base[u]
       /\ Moves("user", "user", IF yield THEN Yield(Reprioritised(u, c.prio)) ELSE Reprioritised(u, c.prio))
       /\ Same

(* osThreadNew (xTaskCreate) when there is memory for the task; the new task *)
(* starts its code from the beginning.                                       *)
ThreadNew ==
  \E c \in Calls("osThreadNew") :
    LET u == c.thread
    IN /\ ~Alive(u) /\ ~Contains(k.dead, u)
       /\ k' = NewTask(k, u, program.prio[u], TRUE)
       /\ ~k.pendsv /\ pc[k.cur] = "user"
       /\ pc' = [pc EXCEPT ![u] = "user",
                           ![k.cur] = IF k.prio[k.cur] < k'.prio[u] THEN "yield" ELSE "user"]
       /\ frame' = [frame EXCEPT ![u] = NoCall] /\ Due(u, 0)
       /\ UNCHANGED program
(* osThreadTerminate, osThreadExit: vTaskDelete.  The task is freed with what *)
(* it waited for; one that deletes itself is left for the idle task to free.  *)
Deleted(u) == [Off(u) EXCEPT !.number = @ - 1, !.nstate[u] = "no"]
Terminate ==
  \E c \in Calls("osThreadTerminate") :
    LET u == c.thread
    IN /\ Alive(u) /\ u # k.cur
       /\ k' = ResetUnblock(Deleted(u))
       /\ ~k.pendsv /\ pc[k.cur] = "user" /\ pc' = [pc EXCEPT ![u] = "user"]
       /\ Due(u, 0) /\ UNCHANGED <<frame, program>>
Exit ==
  /\ Calls("osThreadExit") # {} /\ k.susp = 0
  /\ Moves("user", "yield", [Off(k.cur) EXCEPT !.dead = Append(@, k.cur)]) /\ Same

(* osThreadEnumerate: the array for uxTaskGetNumberOfTasks() tasks is filled  *)
(* by uxTaskGetSystemState while the scheduler is suspended.                 *)
Enumerate ==
  Calls("osThreadEnumerate") # {} /\ k.susp < MaxNesting /\ Moves("user", "listed", AfterEnumeration(SuspendAll(k))) /\ Same
Listed == Moves("listed", "user", ResumeAll(k)) /\ left' = Aged /\ UNCHANGED frame
(* osThreadGetState.                                                         *)
ThreadState(u) ==
  CASE TaskState(k, u) = "eRunning" -> "osThreadRunning"
    [] TaskState(k, u) = "eReady" -> "osThreadReady"
    [] TaskState(k, u) = "eDeleted" -> "osThreadTerminated"
    [] OTHER -> "osThreadBlocked"

(* prvIdleTask and prvCheckTasksWaitingTermination.                          *)
IdleFrees ==
  /\ k.cur = IdleTask /\ k.dead # <<>>
  /\ Moves("user", "user", [k EXCEPT !.dead = Tail(@), !.number = @ - 1]) /\ Same
IdleYields ==
  /\ k.cur = IdleTask /\ k.dead = <<>> /\ ReadyCount(k, 0) > 1
  /\ Moves("user", "user", Yield(k)) /\ Same

Steps ==
  \/ Delay \/ DelayPlace \/ DelayUntil \/ Until \/ UntilPlace \/ Resume \/ YieldWithinAPI
  \/ ThreadYield \/ KernelLock \/ KernelUnlock \/ KernelRestoreLock
  \/ FlagsSet \/ FlagsQuery \/ Notify \/ NotifyAsserts \/ FlagsWait \/ NotifyWait \/ FlagsWaitDone \/ FlagsWaitAgain
  \/ FlagsGet \/ FlagsClear \/ FlagsWriteBack \/ NotifyTake \/ NotifyTakeDone \/ NotifyStateClear \/ NotifyValueClear
  \/ Suspend \/ SuspendReset \/ ThreadResume \/ SetPriority \/ ThreadNew \/ Terminate \/ Exit
  \/ Enumerate \/ Listed
  \/ IdleFrees \/ IdleYields
Interrupts == FlagsSetFromISR \/ NotifyGiveFromISR \/ ResumeFromISR

Next ==
  \/ KernelTick
  \/ (PendSV \/ AssertFailed) /\ UNCHANGED <<left, systicks>>
  \/ Interrupts /\ UNCHANGED systicks
  \/ Steps /\ UNCHANGED systicks
(* The timer interrupt stays pending until it is taken, the processor takes  *)
(* the pending switch, and a task in the                                     *)
(* middle of a call goes on.  A task need never call anything.               *)
Tick == ~Halted /\ ~k.pendsv /\ k.pended < MaxPended /\ systicks' = (systicks + 1) % TickRange
CallStep ==
  /\ ~k.pendsv /\ pc[k.cur] \notin {"user", "asserted"}
  /\ \E l \in Locations \ {pc[k.cur]} : pc' = [pc EXCEPT ![k.cur] = l]
Fairness == SF_systicks(Tick) /\ WF_schedVars(PendSV) /\ WF_pc(CallStep)
Spec == Init /\ [][Next]_vars /\ Fairness
-----------------------------------------------------------------------------
TypeOK ==
  /\ program \in Programs /\ k.cur \in Task /\ k.top \in Levels
  /\ k.tick \in Ticks /\ systicks \in Ticks /\ k.unblock \in Ticks
  /\ k.pended \in 0 .. MaxPended /\ k.susp \in 0 .. MaxNesting
  /\ \A t \in Task : k.prio[t] \in Levels /\ k.nval[t] \subseteq Bits
                   /\ left[t] \in -MaxLate .. TickRange

(* The lists: a task is in at most one, a ready task in the ring of its      *)
(* priority, where uxTopReadyPriority lets the search find it.               *)
OneList ==
  \A t \in Task :
    /\ Cardinality({p \in Levels : Contains(k.ready[p], t)})
         + Cardinality({l \in {"delayed", "overflow", "dead"} : Contains(k[l], t)})
         + (IF t \in k.suspended THEN 1 ELSE 0) <= 1
    /\ IsReady(k, t) => Contains(k.ready[k.prio[t]], t) /\ k.prio[t] <= k.top

(* The tick's wrap: everything in the delayed list is ahead of the tick,     *)
(* everything in the overflow list behind it, both in the order of waking,   *)
(* and the tick looks at the list in time.  When the tick wraps, the delayed *)
(* list is therefore empty, as taskSWITCH_DELAYED_LISTS asserts.             *)
DelayedAhead ==
  /\ \A i \in DOMAIN k.delayed : k.wake[k.delayed[i]] > k.tick
  /\ \A i \in DOMAIN k.overflow : k.wake[k.overflow[i]] < k.tick
  /\ \A l \in {k.delayed, k.overflow} :
       \A i, j \in DOMAIN l : i < j => k.wake[l[i]] <= k.wake[l[j]]
  /\ k.delayed # <<>> => k.unblock <= k.wake[Head(k.delayed)]

(* osThreadGetCount counts the tasks that are in the lists, so the array     *)
(* made for that many tasks holds all that are enumerated; and a thread is   *)
(* enumerated as running, ready or terminated when osThreadGetState says so. *)
Accounted ==
  LET tasks == Enumerated(k)
      as == [eRunning |-> "osThreadRunning", eReady |-> "osThreadReady",
             eDeleted |-> "osThreadTerminated", eBlocked |-> "osThreadBlocked",
             eSuspended |-> "osThreadBlocked"]
  IN /\ Cardinality(tasks) = k.number
     /\ \A t \in tasks : as[ListedState(k, t)] = ThreadState(t)
     /\ \A t \in Task \ (tasks \cup {k.cur}) : ThreadState(t) = "osThreadTerminated"

ListsSound == TypeOK /\ OneList /\ DelayedAhead /\ Accounted

(* A delay or a timed wait ends exactly when its ticks have passed, also     *)
(* across the wrap and when ticks were held back by a suspended scheduler:   *)
(* not later (it sleeps only while ticks are left) and not earlier (it is    *)
(* back in its own code only when none is, unless something else woke it).   *)
DelaysExact ==
  \A t \in Task :
    /\ Sleeping(t) /\ ~OnEventList(k, t) => left[t] > 0 /\ left[t] = (k.wake[t] - k.tick) % TickRange
    /\ pc[t] = "user" /\ IsReady(k, t) => left[t] = 0

(* No SysTick interrupt is forgotten or counted twice, however long and      *)
(* however nested the scheduler's suspensions were.                          *)
TicksConserved == (k.tick + k.pended) % TickRange = systicks

(* A task that waits for a notification and has been given one is ready, or  *)
(* will be when the scheduler resumes, unless someone suspends it.           *)
Suspendable ==
  {c.thread : c \in {d \in UNION {program.calls[t] : t \in Task} : d.op = "osThreadSuspend"}}
NoLostWakeup ==
  \A t \in Task \ Suspendable :
    pc[t] \in {"take", "count"} /\ k.nstate[t] = "received" =>
      IsReady(k, t) \/ Contains(k.events["pending"], t)

(* A flag set by the interrupt reaches the task that waits for it, whatever  *)
(* the tasks that delay and the ticks are doing.                             *)
FlagWaiting ==
  program.name = "firmware" /\ \E t \in Task : pc[t] = "take" /\ k.nval[t] # {}
FlagsDelivered == FlagWaiting ~> ~FlagWaiting

(* Whoever delays is woken, although the other tasks keep suspending the     *)
(* scheduler (asked of the task the program names).                          *)
DelaysEnd == Sleeping(program.watch) ~> ~Sleeping(program.watch)
=============================================================================
