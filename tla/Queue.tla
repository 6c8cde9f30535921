-------------------------------- MODULE Queue --------------------------------
(***************************************************************************)
(* Queues, semaphores and mutexes (queue.c and their wrappers in             *)
(* cmsis_os2.c): the ring of a queue's items, the calls that wait for an     *)
(* item or for room, the locks that make interrupts defer their wake-ups     *)
(* while a task is putting itself on an event list, and the priority that    *)
(* the holder of a mutex inherits.                                           *)
(*                                                                         *)
(* xQueueGenericSend, xQueueReceive, xQueuePeek and xQueueSemaphoreTake are  *)
(* the same loop, written once here over the steps "try", "suspend", "lock", *)
(* "place", "unlockTx", "unlockRx", "resume" and "final".  The time-out is   *)
(* read in the step that locks, and the task placed in the step that looks   *)
(* at the queue: between the two only interrupts run, and they change        *)
(* neither the tick nor, on a locked queue, its event lists.                 *)
(***************************************************************************)
EXTENDS Objects

CONSTANTS
  Items,     \* what a queue can hold
  Queues,    \* names of queues, semaphores and mutexes
  MaxLock,   \* bound: interrupts served while a queue is locked
  MaxCount   \* bound: nested takes of a recursive mutex

(* The lists of the tasks that wait to receive and to send.                  *)
Rx(q) == q \o ".rx"
Tx(q) == q \o ".tx"

(* A new queue (kind "queue"), semaphore, mutex or recursive mutex.  Locks   *)
(* are -1 when unlocked.  "out" is the item copied to the last receiver.     *)
NewQueue(kind, len, n) ==
  [kind |-> kind, len |-> len, n |-> n, tx |-> -1, rx |-> -1, holder |-> Nothing, rec |-> 0,
   slots |-> [i \in 0 .. len - 1 |-> Nothing], write |-> 0, read |-> len - 1, out |-> Nothing]
IsMutex(o) == o.kind \in {"mutex", "recursive"}
Full(o) == o.n = o.len
Empty(o) == o.n = 0

(* What can be asked of a queue, a semaphore or a mutex.                     *)
uxQueueMessagesWaiting(o) == o.n
uxQueueSpacesAvailable(o) == o.len - o.n
xQueueGetMutexHolder(o) == IF IsMutex(o) THEN o.holder ELSE Nothing
osMessageQueueGetCount(q) == uxQueueMessagesWaiting(obj[q])
osMessageQueueGetSpace(q) == uxQueueSpacesAvailable(obj[q])
osMutexGetOwner(q) == xQueueGetMutexHolder(obj[q])

(* Faulty variant: an item for the front goes to the wrong slot.             *)
CopyInAskew(o, item, pos) ==
  LET o1 == [o EXCEPT !.n = IF pos = "overwrite" /\ @ > 0 THEN @ ELSE @ + 1, !.holder = Nothing]
  IN IF o.kind # "queue" THEN o1
     ELSE IF pos = "back" THEN [o1 EXCEPT !.slots[o.write] = item, !.write = (@ + 1) % o.len]
     ELSE [o1 EXCEPT !.slots[(o.read + 1) % o.len] = item, !.read = (@ - 1) % o.len]
(* prvCopyDataToQueue.  write is the next slot, read the last one read: an   *)
(* item for the front goes where the last one read was.                      *)
CopyIn(o, item, pos) ==
  LET o1 == [o EXCEPT !.n = IF pos = "overwrite" /\ @ > 0 THEN @ ELSE @ + 1, !.holder = Nothing]
  IN IF o.kind # "queue" THEN o1
     ELSE IF pos = "back" THEN [o1 EXCEPT !.slots[o.write] = item, !.write = (@ + 1) % o.len]
     ELSE [o1 EXCEPT !.slots[o.read] = item, !.read = (@ - 1) % o.len]
(* prvCopyDataFromQueue, and the count of an item that is taken.             *)
CopyOut(o) ==
  LET r == (o.read + 1) % o.len
  IN IF o.kind # "queue" THEN o ELSE [o EXCEPT !.read = r, !.out = o.slots[r]]
TakeOut(o) == [CopyOut(o) EXCEPT !.n = @ - 1]
Peeked(o) == [CopyOut(o) EXCEPT !.read = o.read]

-----------------------------------------------------------------------------
(* The calls of tasks and of interrupts; an interrupt may not wait.          *)
Send(q, item, pos, ticks) ==
  [op |-> "send", on |-> q, item |-> item, pos |-> pos, ticks |-> ticks]
osMessageQueuePut(q, item, ticks) == Send(q, item, "back", ticks)
osMessageQueueGet(q, ticks) == [op |-> "receive", on |-> q, ticks |-> ticks]
xQueuePeek(q, ticks) == [op |-> "peek", on |-> q, ticks |-> ticks]
osMessageQueueReset(q) == [op |-> "reset", on |-> q]
osSemaphoreAcquire(s, ticks) == [op |-> "take", on |-> s, ticks |-> ticks]
osSemaphoreRelease(s) == Send(s, Nothing, "back", 0)
osMutexAcquire(m, ticks) == [op |-> "take", on |-> m, ticks |-> ticks]
osMutexRelease(m) == Send(m, Nothing, "back", 0)

osMessageQueueNew(q, count) == [op |-> "new", on |-> q, kind |-> "queue", len |-> count, n |-> 0]
osSemaphoreNew(s, max, initial) == [op |-> "new", on |-> s, kind |-> "semaphore", len |-> max, n |-> initial]
osMutexNew(m, recursive) ==
  [op |-> "new", on |-> m, kind |-> IF recursive THEN "recursive" ELSE "mutex", len |-> 1, n |-> 1]
osMessageQueueDelete(q) == [op |-> "delete", on |-> q]
osSemaphoreDelete(s) == [op |-> "delete", on |-> s]
osMutexDelete(m) == [op |-> "delete", on |-> m]

(* osMutexRelease of a mutex another task holds, and osMutexAcquire of a     *)
(* plain mutex one holds already, are misuse, and so are receiving from a    *)
(* semaphore and taking a queue.                                             *)
Mine(q) == obj[q].holder = k.cur
Legal(c) ==
  /\ obj[c.on].kind # "none"
  /\ (obj[c.on].kind = "queue") <=> (c.op \in {"receive", "peek"} \/ (c.op = "send" /\ c.item # Nothing))
  /\ c.op = "send" /\ IsMutex(obj[c.on]) => Mine(c.on) /\ obj[c.on].kind = "mutex"
  /\ c.op = "take" => ~Mine(c.on)
Begin(c) ==
  Joined(c, [to |-> [ovf |-> 0, at |-> 0, left |-> c.ticks], entered |-> FALSE,
             inherited |-> FALSE, next |-> "try", blocks |-> FALSE])
(* The calls a task may start, or the one it is trying again.                *)
Trying ==
  IF pc[k.cur] = "try" THEN {Here}
  ELSE {Begin(c) : c \in {d \in program.calls[k.cur] :
                            d.op \in {"send", "receive", "peek", "take"} /\ Legal(d)}}
Try(to, next) == pc[k.cur] \in {"user", "try"} /\ Moves(pc[k.cur], to, next)

Can(f) ==
  IF f.op = "send" THEN ~Full(obj[f.on]) \/ f.pos = "overwrite" ELSE ~Empty(obj[f.on])
(* An item is put, a mutex given: a receiver is woken, or the processor      *)
(* given up if the priority the mutex lent is lost.                          *)
Sent(f) ==
  LET mutex == IsMutex(obj[f.on])
      k1 == IF mutex THEN Disinherit(k) ELSE k
  IN IF k1.events[Rx(f.on)] # <<>> THEN WakeOne(k1, Rx(f.on))
     ELSE YieldIf(mutex /\ MustDisinherit(k), k1)
TryToSend ==
  \E f \in Trying :
    /\ f.op = "send" /\ Can(f)
    /\ Try("user", Sent(f)) /\ Put(f.on, CopyIn(obj[f.on], f.item, f.pos)) /\ Leave
TryToReceive ==
  \E f \in Trying :
    /\ f.op = "receive" /\ Can(f)
    /\ Try("user", WakeOne(k, Tx(f.on))) /\ Put(f.on, TakeOut(obj[f.on])) /\ Leave
TryToPeek ==
  \E f \in Trying :
    /\ f.op = "peek" /\ Can(f)
    /\ Try("user", WakeOne(k, Rx(f.on))) /\ Put(f.on, Peeked(obj[f.on])) /\ Leave
(* Where a take leads: to the count of a recursive mutex, to the blocks of a *)
(* memory pool (MemoryPool).                                                 *)
Then(o) == CASE o.kind = "recursive" -> "count" [] o.kind = "pool" -> "allot" [] OTHER -> "user"
TryToTake ==
  \E f \in Trying :
    LET mutex == IsMutex(obj[f.on])
        k1 == IF mutex THEN HoldsOneMore(k) ELSE k
    IN /\ f.op = "take" /\ Can(f)
       /\ Try(Then(obj[f.on]), WakeOne(k1, Tx(f.on)))
       /\ Put(f.on, [TakeOut(obj[f.on]) EXCEPT !.holder = IF mutex THEN k.cur ELSE Nothing])
       /\ IF Then(obj[f.on]) = "user" THEN Leave ELSE Enter([op |-> "take", on |-> f.on])
(* There is nothing to take, or no room, and no time left to wait for it.    *)
TryInVain ==
  \E f \in Trying :
    /\ ~Can(f) /\ f.to.left = 0 /\ ~f.inherited
    /\ Try("user", k) /\ Leave /\ UNCHANGED obj
TryAsserts ==
  \E f \in Trying :
    /\ ~Can(f) /\ f.to.left = 0 /\ f.inherited
    /\ Try("asserted", k) /\ Enter(f) /\ UNCHANGED obj
TryWaits ==
  \E f \in Trying :
    /\ ~Can(f) /\ f.to.left # 0
    /\ Try("suspend", k) /\ UNCHANGED obj
    /\ Enter(IF f.entered THEN f ELSE [f EXCEPT !.to = TimeOut(k, f.to.left), !.entered = TRUE])

Suspend == Goes("suspend", "lock", SuspendAll(k)) /\ UNCHANGED obj
(* prvLockQueue and xTaskCheckForTimeOut.                                    *)
Locked(o) == [o EXCEPT !.rx = IF @ = -1 THEN 0 ELSE @, !.tx = IF @ = -1 THEN 0 ELSE @]
Lock ==
  LET expired == TimedOut(k, Here.to)
  IN /\ pc[k.cur] = "lock"
     /\ Moves("lock", IF expired THEN "unlockTx" ELSE "place", k)
     /\ Put(Here.on, Locked(obj[Here.on]))
     /\ Enter([Here EXCEPT !.to = IF expired THEN [@ EXCEPT !.left = 0] ELSE Rest(k, @),
                           !.blocks = FALSE,
                           !.next = IF ~expired THEN "try" ELSE IF Here.op = "send" THEN "user" ELSE "final"])
(* prvIsQueueFull or prvIsQueueEmpty, xTaskPriorityInherit and               *)
(* vTaskPlaceOnEventList.                                                    *)
Place ==
  LET mutex == Here.op = "take" /\ IsMutex(obj[Here.on])
      holder == obj[Here.on].holder
      e == IF Here.op = "send" THEN Tx(Here.on) ELSE Rx(Here.on)
      blocks == IF Here.op = "send" THEN Full(obj[Here.on]) ELSE Empty(obj[Here.on])
  IN /\ pc[k.cur] = "place"
     /\ Moves("place", "unlockTx",
              IF blocks THEN PlaceOnEventList(IF mutex THEN Inherit(k, holder) ELSE k, e, Here.to.left)
              ELSE k)
     /\ Enter([Here EXCEPT !.blocks = blocks,
                           !.inherited = IF blocks /\ mutex THEN Inherited(k, holder) ELSE @])
     /\ UNCHANGED obj

(* prvUnlockQueue: one task is woken for every interrupt that was served.    *)
(* Faulty variant: what the interrupts left to do is not done.               *)
WakeNone(e, n) == k
WakeWaiting(kernel, e) == IF kernel.events[e] = <<>> THEN kernel ELSE RemoveFromEventList(kernel, e)
WakeAll(e, n) == FoldLeft(WakeWaiting, k, [i \in 1 .. n |-> e])
UnlockTx ==
  /\ pc[k.cur] = "unlockTx"
  /\ Goes("unlockTx", "unlockRx", WakeAll(Rx(Here.on), obj[Here.on].tx))
  /\ Put(Here.on, [obj[Here.on] EXCEPT !.tx = -1])
UnlockRx ==
  /\ pc[k.cur] = "unlockRx"
  /\ Goes("unlockRx", "resume", WakeAll(Tx(Here.on), obj[Here.on].rx))
  /\ Put(Here.on, [obj[Here.on] EXCEPT !.rx = -1])

(* The wait is over: a last look, and the priority lent is taken back.       *)
Final ==
  /\ pc[k.cur] = "final"
  /\ \/ ~Empty(obj[Here.on]) /\ Goes("final", "try", k)
     \/ Empty(obj[Here.on]) /\ Here.inherited /\ Goes("final", "disinherit", k)
     \/ Empty(obj[Here.on]) /\ ~Here.inherited /\ Returns("final", k)
  /\ UNCHANGED obj
HighestWaiting(q) ==
  IF k.events[Rx(q)] = <<>> THEN 0 ELSE Priorities - k.order[Head(k.events[Rx(q)])]
DisinheritStep ==
  /\ pc[k.cur] = "disinherit"
  /\ Returns("disinherit",
             DisinheritAfterTimeout(k, obj[Here.on].holder, HighestWaiting(Here.on)))
  /\ UNCHANGED obj

(* xQueueTakeMutexRecursive and xQueueGiveMutexRecursive.                    *)
TakeAgain ==
  \E c \in Calls("take") :
    /\ obj[c.on].kind = "recursive" /\ Mine(c.on) /\ obj[c.on].rec < MaxCount
    /\ Moves("user", "user", k) /\ UNCHANGED frame
    /\ Put(c.on, [obj[c.on] EXCEPT !.rec = @ + 1])
CountTake ==
  /\ pc[k.cur] = "count" /\ Returns("count", k)
  /\ Put(Here.on, [obj[Here.on] EXCEPT !.rec = @ + 1])
GiveRecursive ==
  \E c \in Calls("send") :
    LET last == obj[c.on].rec = 1
    IN /\ obj[c.on].kind = "recursive" /\ Mine(c.on) /\ c.item = Nothing
       /\ Moves("user", IF last THEN "try" ELSE "user", k)
       /\ IF last THEN Enter(Begin(c)) ELSE UNCHANGED frame
       /\ Put(c.on, [obj[c.on] EXCEPT !.rec = @ - 1])

(* xQueueGenericReset of a queue in use: one sender is woken.                *)
Emptied(o) == [o EXCEPT !.n = 0, !.write = 0, !.read = o.len - 1, !.rx = -1, !.tx = -1]
Reset ==
  \E c \in Calls("reset") :
    /\ obj[c.on].kind # "none"
    /\ Moves("user", "user", WakeOne(k, Tx(c.on))) /\ UNCHANGED frame
    /\ Put(c.on, Emptied(obj[c.on]))

(* osMessageQueueNew and its kin, when there is memory, and                  *)
(* osMessageQueueDelete and its kin, which must find the object unused.      *)
Unused(q) ==
  /\ k.events[Rx(q)] = <<>> /\ k.events[Tx(q)] = <<>> /\ obj[q].holder = Nothing
  /\ \A t \in Task : frame[t] # NoCall => frame[t].on # q
New ==
  \E c \in Calls("new") :
    /\ obj[c.on].kind = "none" /\ c.len > 0 /\ c.n <= c.len
    /\ Moves("user", "user", k) /\ UNCHANGED frame
    /\ Put(c.on, NewQueue(c.kind, c.len, c.n))
Delete ==
  \E c \in Calls("delete") :
    /\ obj[c.on].kind # "none" /\ Unused(c.on)
    /\ Moves("user", "user", k) /\ UNCHANGED frame
    /\ Put(c.on, NoObject)

-----------------------------------------------------------------------------
(* xQueueGenericSendFromISR, xQueueGiveFromISR, xQueueReceiveFromISR and     *)
(* xQueuePeekFromISR.                                                        *)
SendsFromISR(q, item, pos) ==
  LET o == obj[q]
  IN /\ o.kind # "none" /\ (~Full(o) \/ pos = "overwrite")
     /\ o.tx < MaxLock
     /\ FromISR(IF o.tx = -1 THEN WakeOne(k, Rx(q)) ELSE k)
     /\ Put(q, [CopyIn(o, item, pos) EXCEPT !.tx = IF @ = -1 THEN @ ELSE @ + 1])
SendFromISR == \E c \in Interrupt("send") : SendsFromISR(c.on, c.item, c.pos)
ReceiveFromISR ==
  \E c \in Interrupt("receive") :
    LET o == obj[c.on]
    IN /\ o.kind # "none" /\ ~Empty(o)
       /\ o.rx < MaxLock
       /\ FromISR(IF o.rx = -1 THEN WakeOne(k, Tx(c.on)) ELSE k)
       /\ Put(c.on, [TakeOut(o) EXCEPT !.rx = IF @ = -1 THEN @ ELSE @ + 1])
PeekFromISR ==
  \E c \in Interrupt("peek") :
    obj[c.on].kind # "none" /\ ~Empty(obj[c.on]) /\ FromISR(k) /\ Put(c.on, Peeked(obj[c.on]))

QueueSteps ==
  \/ TryToSend \/ TryToReceive \/ TryToPeek \/ TryToTake \/ TryInVain \/ TryAsserts \/ TryWaits
  \/ Suspend \/ Lock \/ Place \/ UnlockTx \/ UnlockRx \/ Final \/ DisinheritStep
  \/ TakeAgain \/ CountTake \/ GiveRecursive \/ Reset \/ New \/ Delete
  \/ SendFromISR \/ ReceiveFromISR \/ PeekFromISR
-----------------------------------------------------------------------------
(* What a queue holds, in the order it will be received; a semaphore or a    *)
(* mutex holds tokens.                                                       *)
Token == "token"
Contents(o) ==
  IF o.kind = "none" THEN <<>> ELSE
  [i \in 1 .. o.n |-> IF o.kind = "queue" THEN o.slots[(o.read + i) % o.len] ELSE Token]

Promise ==
  INSTANCE Fifo WITH
    Queue <- Queues, Item <- Items \cup {Token},
    room <- [q \in Queues |-> IF obj[q].kind = "none" THEN 0 ELSE obj[q].len],
    items <- [q \in Queues |-> Contents(obj[q])],
    out <- [q \in Queues |-> IF obj[q].kind = "queue" THEN obj[q].out ELSE Token]
(* Whatever the calls, the interrupts and the wraps of the ring, a queue is a *)
(* bounded FIFO.                                                             *)
FifoKept == Promise!Spec

(* No item with a task asleep that waits for one: the tasks on their way to  *)
(* the queue, and the wake-ups an interrupt has deferred, are as many as the *)
(* items.  And the same of room and senders.                                 *)
Max0(n) == IF n > 0 THEN n ELSE 0
AtEither(t, q) == Contains(k.events[Rx(q)], t) \/ Contains(k.events[Tx(q)], t)
OnTheWay(q, ops) ==
  Cardinality({t \in Task : frame[t] # NoCall /\ frame[t].op \in ops /\ frame[t].on = q
                            /\ pc[t] \in {"yield", "try", "suspend", "lock", "unlockTx", "unlockRx", "resume"}
                            /\ ~AtEither(t, q)})
NoStrandedReceiver ==
  \A q \in Queues :
    obj[q].kind # "none" /\ k.events[Rx(q)] # <<>> =>
      osMessageQueueGetCount(q) <= OnTheWay(q, {"receive", "take", "peek"}) + Max0(obj[q].tx)
NoStrandedSender ==
  \A q \in Queues :
    obj[q].kind # "none" /\ k.events[Tx(q)] # <<>> =>
      osMessageQueueGetSpace(q) <= OnTheWay(q, {"send"}) + Max0(obj[q].rx)

(* A mutex: taken when it has a holder, who holds as many as his task        *)
(* control block says.  The locks are back when nobody is at the queue.      *)
MutexHeld ==
  /\ \A q \in Queues : IsMutex(obj[q]) => (Empty(obj[q]) <=> osMutexGetOwner(q) # Nothing)
  /\ \A t \in Task : k.held[t] = Cardinality({q \in Queues : obj[q].kind # "none" /\ osMutexGetOwner(q) = t})

(* Priority inheritance: nobody sleeps on a mutex whose holder is less       *)
(* urgent, and a task without a mutex has its own priority.                  *)
InheritancePrevails ==
  \A q \in Queues : \A t \in Task :
    IsMutex(obj[q]) /\ Contains(k.events[Rx(q)], t) /\ osMutexGetOwner(q) # Nothing =>
      k.prio[osMutexGetOwner(q)] >= k.prio[t]
PriorityRestored == \A t \in Task : k.held[t] = 0 => k.prio[t] = k.base[t]

(* Preemption (Sched), when no mutex lends priorities.                       *)
UrgentFirst == (\A q \in Queues : ~IsMutex(obj[q])) => HighestRuns

(* Nobody sleeps on what is there; and the priorities are those the waiters   *)
(* and the holders of the mutexes call for.                                  *)
NobodyStranded == NoStrandedReceiver /\ NoStrandedSender
PrioritiesPrevail == UrgentFirst /\ MutexHeld /\ InheritancePrevails /\ PriorityRestored
=============================================================================
