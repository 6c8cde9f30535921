------------------------------ MODULE TaskLists ------------------------------
(***************************************************************************)
(* The kernel's lists and the operations on them that every FreeRTOS service *)
(* is built from (app/lib/FreeRTOS/src/list.c and the list half of tasks.c): *)
(* ready, delayed, pending and event lists, the tick, the choice of the next *)
(* task, time-outs and inherited priorities.  A kernel is a record, so that  *)
(* a caller composes several operations in the one step its critical section *)
(* makes of them.                                                            *)
(*                                                                         *)
(* An event list holds the tasks that wait for one object; the list of the   *)
(* tasks readied while the scheduler was suspended (xPendingReadyList) holds *)
(* event items too and is the event list named "pending".                    *)
(***************************************************************************)
EXTENDS Integers, Sequences, SequencesExt

CONSTANTS
  Task,       \* every task there can be
  End,        \* xListEnd of a ready list
  EventLists, \* the event lists of the objects of the system
  Priorities, \* configMAX_PRIORITIES
  TickRange,  \* TickType_t counts modulo this
  OverflowRange  \* xNumOfOverflows counts modulo this

ASSUME TaskListsAssumption ==
  /\ End \notin Task /\ "pending" \notin EventLists
  /\ Priorities \in Nat \ {0, 1} /\ TickRange \in Nat \ {0, 1} /\ OverflowRange \in Nat \ {0, 1}

MaxDelay == TickRange - 1
Levels == 0 .. Priorities - 1
Ticks == 0 .. TickRange - 1

(* The lists before the first task exists (prvInitialiseTaskLists), with the  *)
(* fields of the task control blocks.                                        *)
EmptyReadyLists == [p \in Levels |-> <<End>>]
NoTasks(nobody) ==
  [cur |-> nobody, number |-> 0, ready |-> EmptyReadyLists, top |-> 0,
   delayed |-> <<>>, overflow |-> <<>>, suspended |-> {}, dead |-> <<>>,
   wake |-> [t \in Task |-> 0], events |-> [e \in EventLists \cup {"pending"} |-> <<>>],
   order |-> [t \in Task |-> Priorities], flags |-> [t \in Task |-> {}],
   prio |-> [t \in Task |-> 0], base |-> [t \in Task |-> 0], held |-> [t \in Task |-> 0],
   nstate |-> [t \in Task |-> "no"], nval |-> [t \in Task |-> {}],
   tick |-> 0, ovf |-> 0, pended |-> 0, unblock |-> MaxDelay,
   susp |-> 0, missed |-> FALSE, pendsv |-> FALSE]

(* A ready list is a ring that includes the end marker, written in visiting  *)
(* order: it ends with the element pxIndex points at.                        *)
Advance(ring) == Append(Tail(ring), Head(ring))
NextEntry(ring) == IF Head(ring) = End THEN Advance(Advance(ring)) ELSE Advance(ring)
InsertEnd(ring, t) == InsertAt(ring, Len(ring), t)
IsReady(k, t) == \E p \in Levels : Contains(k.ready[p], t)
ReadyCount(k, p) == Len(k.ready[p]) - 1

(* Before the first item that is greater, whatever follows it.               *)
ListInsert(list, t, value) ==
  LET greater == {i \in DOMAIN list : value[list[i]] > value[t]}
  IN InsertAt(list, IF greater = {} THEN Len(list) + 1 ELSE Min(greater), t)

(* uxListRemove of the state item, from whichever list holds it; an item is   *)
(* in one list, once.                                                        *)
Unlist(k, t) ==
  [k EXCEPT !.ready = [p \in Levels |-> RemoveFirst(@[p], t)], !.delayed = RemoveFirst(@, t),
            !.overflow = RemoveFirst(@, t), !.suspended = @ \ {t}, !.dead = RemoveFirst(@, t),
            !.wake[t] = 0]

OnEventList(k, t) == \E e \in DOMAIN k.events : Contains(k.events[e], t)
Unevent(k, t) == [k EXCEPT !.events = [e \in DOMAIN @ |-> RemoveFirst(@[e], t)]]

AddReady(k, t) ==
  [k EXCEPT !.ready[k.prio[t]] = InsertEnd(@, t),
            !.top = IF k.prio[t] > @ THEN k.prio[t] ELSE @]
Ready(k, t) == AddReady(Unlist(k, t), t)
(* A task whose wait is over, whatever it waited for.                        *)
WakeUp(k, t) == Ready(Unevent(k, t), t)

(* prvInitialiseNewTask.                                                     *)
InitialiseTask(k, t, p) ==
  LET urgency == IF p < Priorities THEN p ELSE Priorities - 1
  IN [k EXCEPT !.prio[t] = urgency, !.base[t] = urgency, !.held[t] = 0,
               !.order[t] = Priorities - urgency, !.flags[t] = {},
               !.nstate[t] = "no", !.nval[t] = {}]
(* prvAddNewTaskToReadyList: before the scheduler runs the last task created *)
(* among the most urgent becomes the first to run.                           *)
AddNewTask(k, t, running) ==
  AddReady(IF ~running /\ (k.cur \notin Task \/ k.prio[k.cur] <= k.prio[t])
             THEN [k EXCEPT !.cur = t, !.number = @ + 1] ELSE [k EXCEPT !.number = @ + 1], t)
NewTask(k, t, p, running) == AddNewTask(InitialiseTask(k, t, p), t, running)

(* uxTaskGetSystemState: the tasks that are in a list, each in the state of   *)
(* its list (vTaskGetInfo); the rings of the ready tasks are turned by one.  *)
Enumerated(k) ==
  {t \in Task : IsReady(k, t) \/ t \in k.suspended
                 \/ \E l \in {"delayed", "overflow", "dead"} : Contains(k[l], t)}
ListedState(k, t) ==
  CASE t = k.cur -> "eRunning"
    [] t # k.cur /\ IsReady(k, t) -> "eReady"
    [] t # k.cur /\ Contains(k.dead, t) -> "eDeleted"
    [] t # k.cur /\ t \in k.suspended /\ ~OnEventList(k, t) -> "eSuspended"
    [] OTHER -> "eBlocked"
AfterEnumeration(k) ==
  [k EXCEPT !.ready = [p \in Levels |-> IF Len(@[p]) = 1 THEN @[p] ELSE NextEntry(@[p])]]
(* eTaskGetState.                                                            *)
TaskState(k, t) ==
  CASE t = k.cur -> "eRunning"
    [] t # k.cur /\ (Contains(k.delayed, t) \/ Contains(k.overflow, t)) -> "eBlocked"
    [] t # k.cur /\ t \in k.suspended ->
         IF OnEventList(k, t) \/ k.nstate[t] = "waiting" THEN "eBlocked" ELSE "eSuspended"
    [] t # k.cur /\ t \notin k.suspended /\ IsReady(k, t) -> "eReady"
    [] OTHER -> "eDeleted"

ResetUnblock(k) ==
  [k EXCEPT !.unblock = IF k.delayed = <<>> THEN MaxDelay ELSE k.wake[Head(k.delayed)]]

(* Faulty variants: xNextTaskUnblockTime is not reset; the lists stay.       *)
SwitchDelayedListsStale(k) ==
  [k EXCEPT !.delayed = k.overflow, !.overflow = k.delayed, !.ovf = (@ + 1) % OverflowRange]
SwitchDelayedListsNot(k) == ResetUnblock([k EXCEPT !.ovf = (@ + 1) % OverflowRange])
SwitchDelayedLists(k) ==
  ResetUnblock([k EXCEPT !.delayed = k.overflow, !.overflow = k.delayed,
                         !.ovf = (@ + 1) % OverflowRange])

(* The current task leaves its list to sleep n ticks, or, when n is the      *)
(* largest number of ticks and the caller allows it, for ever.               *)
AddCurrentToDelayed(k, n, forever) ==
  LET t == k.cur
      k1 == Unlist(k, t)
      wake == (k.tick + n) % TickRange
      k2 == [k1 EXCEPT !.wake[t] = wake]
  IN IF n = MaxDelay /\ forever THEN [k1 EXCEPT !.suspended = @ \cup {t}]
     ELSE IF wake < k.tick THEN [k2 EXCEPT !.overflow = ListInsert(@, t, k2.wake)]
     ELSE [k2 EXCEPT !.delayed = ListInsert(@, t, k2.wake),
                     !.unblock = IF wake < @ THEN wake ELSE @]

(* xTaskIncrementTick: the kernel after it, and whether to switch tasks.     *)
WakeDue(k) ==
  LET later == {i \in DOMAIN k.delayed : k.wake[k.delayed[i]] > k.tick}
      due == SubSeq(k.delayed, 1, IF later = {} THEN Len(k.delayed) ELSE Min(later) - 1)
  IN [kernel |-> ResetUnblock(FoldLeft(WakeUp, k, due)),
      switch |-> \E i \in DOMAIN due : k.prio[due[i]] >= k.prio[k.cur]]

IncrementTick(k) ==
  IF k.susp > 0 THEN [kernel |-> [k EXCEPT !.pended = @ + 1], switch |-> FALSE]
  ELSE LET now == (k.tick + 1) % TickRange
           k1 == [k EXCEPT !.tick = now]
           k2 == IF now = 0 THEN SwitchDelayedLists(k1) ELSE k1
           woken == IF now >= k2.unblock THEN WakeDue(k2) ELSE [kernel |-> k2, switch |-> FALSE]
       IN [woken EXCEPT !.switch =
             \/ @
             \/ ReadyCount(woken.kernel, k.prio[k.cur]) > 1
             \/ k.missed]

(* Faulty variant: a nested suspension begins to count the ticks anew.       *)
SuspendAllAnew(k) == [k EXCEPT !.susp = @ + 1, !.pended = 0]
SuspendAll(k) == [k EXCEPT !.susp = @ + 1]

(* xTaskResumeAll: the tasks readied and the ticks counted meanwhile are     *)
(* made up for, and the switch one of them asked for is taken.               *)
(* Faulty variant: without asking for a switch.                              *)
MakeReadyQuiet(k, t) == WakeUp(k, t)
MakeReady(k, t) == [WakeUp(k, t) EXCEPT !.missed = @ \/ k.prio[t] >= k.prio[k.cur]]
ReplayTick(k, nth) ==
  LET r == IncrementTick(k) IN [r.kernel EXCEPT !.missed = @ \/ r.switch]
ResumeAll(k) ==
  LET k1 == [k EXCEPT !.susp = @ - 1]
      k2 == FoldLeft(MakeReady, k1, k.events["pending"])
      k3 == IF k.events["pending"] = <<>> THEN k2 ELSE ResetUnblock(k2)
      k4 == FoldLeft(ReplayTick, k3, [i \in 1 .. k.pended |-> i])
      k5 == [k4 EXCEPT !.pended = 0]
  IN IF k1.susp > 0 THEN k1 ELSE [k5 EXCEPT !.pendsv = @ \/ k5.missed]
(* What xTaskResumeAll returns: a switch was asked for.                      *)
AlreadyYielded(k) == k.susp = 1 /\ ResumeAll(k).missed

Yield(k) == [k EXCEPT !.pendsv = TRUE]

(* vTaskSwitchContext, from xPortPendSVHandler.                              *)
SwitchContext(k) ==
  LET p == Max({q \in 0 .. k.top : ReadyCount(k, q) > 0})
      ring == NextEntry(k.ready[p])
  IN IF k.susp > 0 THEN [k EXCEPT !.missed = TRUE]
     ELSE [k EXCEPT !.missed = FALSE, !.top = p, !.ready[p] = ring, !.cur = Last(ring)]

(* Waiting for an object, in the order of priority, in the order of arrival  *)
(* with the flags waited for as the item's value, and the timer task's form. *)
PlaceOnEventList(k, e, n) ==
  AddCurrentToDelayed([k EXCEPT !.events[e] = ListInsert(@, k.cur, k.order)], n, TRUE)
PlaceOnUnorderedEventList(k, e, flags, n) ==
  AddCurrentToDelayed([k EXCEPT !.events[e] = Append(@, k.cur),
                                !.flags[k.cur] = flags \cup {"used"}], n, TRUE)
PlaceOnEventListRestricted(k, e, n, forever) ==
  AddCurrentToDelayed([k EXCEPT !.events[e] = Append(@, k.cur)],
                      IF forever THEN MaxDelay ELSE n, forever)

(* Whoever removes a task from an event list while the scheduler is suspended *)
(* leaves its state item where it is and its event item in the pending list. *)
(* Faulty variant: a suspended scheduler is not told.                        *)
ReadyOrNot(k, t) == IF k.susp = 0 THEN Ready(k, t) ELSE k
ReadyOrPend(k, t) ==
  IF k.susp = 0 THEN Ready(k, t) ELSE [k EXCEPT !.events["pending"] = Append(@, t)]
RemoveFromEventList(k, e) ==
  LET t == Head(k.events[e])
  IN [ReadyOrPend(Unevent(k, t), t) EXCEPT !.missed = @ \/ k.prio[t] > k.prio[k.cur]]
RemovedIsUrgent(k, e) == k.prio[Head(k.events[e])] > k.prio[k.cur]
RemoveFromUnorderedEventList(k, t, flags) ==
  [WakeUp(k, t) EXCEPT !.flags[t] = flags \cup {"used"},
                       !.missed = @ \/ k.prio[t] > k.prio[k.cur]]
ResetEventItemValue(k) ==
  [k EXCEPT !.flags[k.cur] = {}, !.order[k.cur] = Priorities - k.prio[k.cur]]

(* A time-out is when the wait began and how many ticks it may still last.   *)
TimeOut(k, n) == [ovf |-> k.ovf, at |-> k.tick, left |-> n]
Elapsed(k, to) == (k.tick - to.at) % TickRange
TimedOut(k, to) ==
  /\ to.left # MaxDelay
  /\ (k.ovf # to.ovf /\ k.tick >= to.at) \/ Elapsed(k, to) >= to.left
(* What is left of it, when it has not expired.                              *)
Rest(k, to) == IF to.left = MaxDelay THEN to ELSE TimeOut(k, to.left - Elapsed(k, to))

(* Priority inheritance.  An event item's value follows the priority unless  *)
(* it is in use for flags.                                                   *)
ChangePriority(k, t, p) ==
  LET k1 == [k EXCEPT !.prio[t] = p,
                      !.order[t] = IF k.flags[t] = {} THEN Priorities - p ELSE @]
  IN IF Contains(k.ready[k.prio[t]], t) THEN Ready(k1, t) ELSE k1
Inherit(k, holder) ==
  IF holder \in Task /\ k.prio[holder] < k.prio[k.cur]
    THEN ChangePriority(k, holder, k.prio[k.cur]) ELSE k
Inherited(k, holder) == holder \in Task /\ k.base[holder] < k.prio[k.cur]

(* pvTaskIncrementMutexHeldCount.                                            *)
HoldsOneMore(k) == [k EXCEPT !.held[k.cur] = @ + 1]
MustDisinherit(k) == k.prio[k.cur] # k.base[k.cur] /\ k.held[k.cur] = 1
Disinherit(k) ==
  LET k1 == [k EXCEPT !.held[k.cur] = @ - 1]
  IN IF MustDisinherit(k)
       THEN [Ready([k1 EXCEPT !.prio[k.cur] = k.base[k.cur]], k.cur)
               EXCEPT !.order[k.cur] = Priorities - k.base[k.cur]]
       ELSE k1
(* Faulty variant: whoever else waits is forgotten.                          *)
DisinheritFully(k, holder, waiting) ==
  IF holder \in Task /\ k.prio[holder] # k.base[holder] /\ k.held[holder] = 1
    THEN ChangePriority(k, holder, k.base[holder]) ELSE k
DisinheritAfterTimeout(k, holder, waiting) ==
  LET p == IF k.base[holder] < waiting THEN waiting ELSE k.base[holder]
  IN IF holder \in Task /\ k.prio[holder] # p /\ k.held[holder] = 1
       THEN ChangePriority(k, holder, p) ELSE k
=============================================================================
