------------------------------ MODULE ServicesMC ------------------------------
EXTENDS Services

(* "d" is the timer task, the other three have the priorities of a program.  *)
MCTask == {"h", "a", "b", "d", "idle"}
MCQueues == {"q", "r"}
MCNames == {"q", "r", "g", "s", "tq", "timers", "x", "y"}
MCEventLists == {"q.rx", "q.tx", "r.rx", "r.tx", "tq.rx", "tq.tx", "g.wait"}
MCTimers == {"t", "u"}

Does(h, a, b) == [t \in MCTask |-> CASE t = "h" -> h [] t = "a" -> a [] t = "b" -> b [] OTHER -> {}]
Prios(h, a, b, d) ==
  [t \in MCTask |-> CASE t = "h" -> h [] t = "a" -> a [] t = "b" -> b [] t = "d" -> d [] OTHER -> 0]
Clock(p, reload) == NewTimers([t \in MCTimers |-> p], [t \in MCTimers |-> reload])
Only(o, object) ==
  [x \in MCNames |-> IF x = o THEN object
                    ELSE IF x = "timers" THEN Clock(1, FALSE) ELSE IF x = "tq" THEN NewQueue("queue", 1, 0)
                    ELSE NoObject]
Both(q, r) == [Only("q", q) EXCEPT !["r"] = r]
Run(name, prio, tasks, calls, isr, objects) ==
  [name |-> name, prio |-> prio, calls |-> calls, isr |-> isr, objects |-> objects, tasks |-> tasks,
   start |-> 6, ticks |-> 4]

For(ticks, run) == [run EXCEPT !.ticks = ticks]

Forever == MaxDelay
Usual == Prios(2, 1, 1, 1)
Three == <<"h", "a", "b">>
Two == <<"h", "a">>

Q(len) == NewQueue("queue", len, 0)
Mutex == NewQueue("mutex", 1, 1)
Uses(m, ticks) == {osMutexAcquire(m, ticks), osMutexRelease(m)}
QueuePrograms == {
  Run("queue", Usual, Three,
      Does({osMessageQueueGet("q", Forever)},
           {osMessageQueuePut("q", "x", Forever), Send("q", "y", "front", 0)},
           {osMessageQueuePut("q", "y", 1)}), {}, Only("q", Q(2))),
  For(3, Run("senders", Usual, Three,
      Does({osMessageQueuePut("q", "x", Forever), osDelay(1)}, {osMessageQueuePut("q", "y", Forever)},
           {osMessageQueueGet("q", 0), osMessageQueueReset("q")}), {}, Only("q", Q(1)))),
  For(3, Run("isr", Usual, Two,
      Does({osMessageQueueGet("q", 2)}, {osMessageQueuePut("q", "x", Forever)}, {}),
      {Send("q", "y", "back", 0)}, Only("q", Q(2)))),
  Run("isr2", Usual, <<"h">>,
      Does({osMessageQueuePut("q", "x", 2)}, {}, {}), {osMessageQueueGet("q", 0)}, Only("q", Q(1))),
  Run("peek", Prios(2, 2, 1, 1), Three,
      Does({xQueuePeek("q", Forever)}, {osMessageQueueGet("q", Forever)},
           {Send("q", "x", "overwrite", 0), Send("q", "y", "overwrite", 0)}),
      {xQueuePeek("q", 0)}, Only("q", Q(1))),
  For(2, Run("semaphore", Usual, Two,
      Does({osSemaphoreAcquire("q", Forever)}, {osSemaphoreAcquire("q", 1)}, {}),
      {osSemaphoreRelease("q")}, Only("q", NewQueue("semaphore", 2, 1)))),
  Run("lifecycle", Usual, Two,
      Does({osMessageQueueNew("q", 1), osMessageQueueDelete("q"), osMessageQueueGet("q", 1), osDelay(1)},
           {osMutexNew("q", FALSE), osMutexDelete("q"), osMessageQueuePut("q", "x", 0)} \cup Uses("q", 0), {}),
      {}, Only("q", NoObject)),
  Run("semaphores", Usual, Two,
      Does({osSemaphoreAcquire("q", Forever), osSemaphoreDelete("q"), osDelay(1)},
           {osSemaphoreNew("q", 2, 1), osSemaphoreRelease("q")}, {}),
      {}, Only("q", NoObject))}

MutexPrograms == {
  Run("recursive", Usual, Two,
      Does(Uses("q", Forever) \cup {osDelay(1)}, Uses("q", 0), {}), {},
      Only("q", NewQueue("recursive", 1, 1))),
  For(3, Run("expiry", Prios(2, 1, 0, 0), Three,
             Does(Uses("q", 1) \cup {osDelay(1)}, Uses("q", Forever) \cup {osDelay(1)}, Uses("q", Forever)),
             {}, Only("q", Mutex))),
  Run("stolen", Prios(2, 1, 0, 0), Three,
      Does({osDelay(1), osDelay(2), osMutexAcquire("q", 0)}, {osDelay(1), osMutexAcquire("q", 1)}, Uses("q", Forever)),
      {}, Only("q", Mutex)),
  Run("two", Usual, Three,
      Does(Uses("q", Forever) \cup {osDelay(1)}, Uses("r", Forever) \cup {osDelay(1)},
           Uses("q", 0) \cup Uses("r", 0)), {}, Both(Mutex, Mutex))}

Meet(bit, ticks) == xEventGroupSync("g", {bit}, {"b0", "b1", "b2"}, ticks)
GroupPrograms == {
  Run("flags", Usual, Three,
      Does({osEventFlagsWait("g", {"b0", "b1"}, TRUE, TRUE, Forever), osDelay(1)},
           {osEventFlagsWait("g", {"b0", "b1"}, FALSE, TRUE, 2), osEventFlagsClear("g", {"b1"})},
           {osEventFlagsSet("g", {"b0"}), osEventFlagsSet("g", {"b1"}), [op |-> "deleteGroup", on |-> "g"],
            [op |-> "newGroup", on |-> "g"]}),
      {}, Only("g", NewGroup)),
  Run("meeting", Usual, Three,
      Does({Meet("b0", Forever)}, {Meet("b1", Forever)}, {Meet("b2", Forever)}), {}, Only("g", NewGroup)),
  Run("impatient", Usual, Two,
      Does({xEventGroupSync("g", {"b0"}, {"b0", "b1"}, 2)}, {xEventGroupSync("g", {"b1"}, {"b0", "b1"}, 0)}, {}),
      {}, Only("g", NewGroup))}

StreamPrograms == {
  Run("stream", Usual, Two,
      Does({xStreamBufferReceive("s", 2, Forever)},
           {xStreamBufferSend("s", 1, 0), xStreamBufferSend("s", 3, 2), [op |-> "nextLength", on |-> "s"]}, {}),
      {},
      Only("s", NewStream("stream", 3, 2))),
  For(2, Run("reader below", Prios(1, 2, 1, 1), Two,
      Does({xStreamBufferReceive("s", 1, 1), [op |-> "trigger", on |-> "s", level |-> 1]},
           {xStreamBufferSend("s", 2, Forever), osDelay(1)}, {}), {},
      Only("s", NewStream("stream", 2, 1)))),
  For(2, Run("message", Usual, Two,
             Does({xStreamBufferReceive("s", 2, Forever), xStreamBufferReceive("s", 1, Forever)},
                  {xStreamBufferSend("s", 1, 0), xStreamBufferSend("s", 2, 2)}, {}), {},
             Only("s", NewStream("message", 4, 0)))),
  For(1, Run("stream isr", Usual, <<"h">>,
             Does({xStreamBufferReceive("s", 2, 1), [op |-> "resetStream", on |-> "s"]}, {}, {}),
             {xStreamBufferSend("s", 1, 0)}, Only("s", NewStream("stream", 2, 2)))),
  For(2, Run("stream lifecycle", Usual, Two,
             Does({xStreamBufferReceive("s", 1, 1), [op |-> "deleteStream", on |-> "s"], osDelay(1)},
                  {[op |-> "newStream", on |-> "s", kind |-> "message", size |-> 2, level |-> 1],
                   [op |-> "newStream", on |-> "s", kind |-> "stream", size |-> 2, level |-> 0],
                   xStreamBufferSend("s", 1, 0)}, {}), {}, Only("s", NoObject))),
  Run("message isr", Usual, <<"h">>,
      Does({xStreamBufferSend("s", 1, 2)}, {}, {}), {xStreamBufferReceive("s", 2, 0)},
      Only("s", NewStream("message", 3, 0)))}

PoolAndHeapPrograms == {
  Run("pool", Usual, Three,
      Does({osMemoryPoolAlloc("q", Forever), osMemoryPoolFree("q")},
           {osMemoryPoolAlloc("q", 0), osMemoryPoolFree("q")}, {osMemoryPoolFree("q"), osMemoryPoolAlloc("q", 1)}),
      {}, Only("q", NewPool(2))),
  Run("pool isr", Usual, <<"h">>,
      Does({osMemoryPoolAlloc("q", 1), osMemoryPoolFree("q")}, {}, {}),
      {[op |-> "alloc", on |-> "q"], osMemoryPoolFree("q")}, Only("q", NewPool(2))),
  For(1, Run("heap", Usual, <<"h">>,
             Does({[op |-> "malloc", bytes |-> 1], [op |-> "malloc", bytes |-> 3], [op |-> "malloc", bytes |-> 5], [op |-> "free"]}, {}, {}), {}, Only("q", NoObject)))}

NewThread(x, given) == [op |-> "make", on |-> x, kind |-> "thread", stack |-> 3, tcb |-> 3, given |-> given]
NewTimer(x, given) == [op |-> "make", on |-> x, kind |-> "timer", callb |-> 1, bytes |-> 3, given |-> given]
NewMemory(x, given) == [op |-> "make", on |-> x, kind |-> "pool", bytes |-> 2, array |-> 5, given |-> given]
NewObject(x, kind, given) == [op |-> "make", on |-> x, kind |-> kind, bytes |-> 2, given |-> given]
Unmake(x) == [op |-> "unmake", on |-> x]
OwnerPrograms == {
  For(2, Run("threads", Prios(2, 1, 0, 0), Two,
             Does({NewThread("x", "none"), Unmake("x"), osDelay(1)},
                  {NewThread("y", "none"), NewObject("y", "queue", "none"), Unmake("y"), osDelay(1)}, {}), {}, Only("q", NoObject))),
  For(2, Run("given", Prios(2, 1, 0, 0), Two,
             Does({NewMemory("x", g) : g \in {"none", "array", "block"}} \cup {Unmake("x"), osDelay(1)},
                  {NewThread("y", "all"), NewThread("y", "some"), NewObject("y", "queue", "all"),
                   NewObject("y", "mutex", "all"), NewObject("y", "semaphore", "some"),
                   NewObject("y", "group", "all"), NewObject("y", "stream", "all"), Unmake("y")}, {}), {}, Only("q", NoObject))),
  For(2, Run("timers made", Prios(2, 1, 0, 0), Two,
             Does({NewTimer("x", g) : g \in {"none", "all", "some"}} \cup {Unmake("x"), osDelay(1)},
                  {[op |-> "timerTask"]}, {}), {}, Only("q", NoObject)))}

(* A timer that runs from the first tick of the program on.                  *)
Running(o) ==
  LET first == (6 + o.period["t"]) % 8
  IN [o EXCEPT !.active = {"t"}, !.value["t"] = first, !.began["t"] = 6, !.last = 6,
               !.current = IF first > 6 THEN <<"t">> ELSE <<>>,
               !.overflow = IF first > 6 THEN <<>> ELSE <<"t">>]
TimerObjects(timers, len, group) ==
  [Only("timers", timers) EXCEPT !["tq"] = Q(len), !["g"] = group]
Daemon == <<"h", "d">>
Timer(name, calls, isr, timers, len) ==
  Run(name, Prios(2, 1, 1, 1), Daemon, Does(calls, {}, {}), isr, TimerObjects(timers, len, NewGroup))
TimerPrograms == {
  Timer("periodic", {osDelay(1), osDelay(2)}, {}, Running(Clock(1, TRUE)), 3),
  Timer("flags isr", {osEventFlagsWait("g", {"b0"}, TRUE, TRUE, 2)},
        {SetBitsFromISR("g", {"b0"}), ClearBitsFromISR("g", {"b0"})}, Clock(1, FALSE), 1),
  For(2, Timer("reload", {osDelay(1), [op |-> "reload", timer |-> "t", reload |-> FALSE], osTimerDelete("t")}, {},
        Running(Clock(1, TRUE)), 3)),
  For(3, Timer("one shot", {osDelay(1), osTimerStart("t", 2), osTimerStop("t")}, {}, Clock(2, FALSE), 2)),
  For(2, Timer("pend", {osEventFlagsWait("g", {"b0"}, TRUE, TRUE, 2), Joined(SetBitsFromISR("g", {"b0"}), [ticks |-> 1])},
               {}, Clock(1, FALSE), 1)),
  For(3, Timer("reset", {osDelay(1), xTimerReset("t")}, {xTimerReset("t")}, Clock(2, FALSE), 1)),
  For(3, Timer("two timers", {osDelay(1), osTimerStart("u", 1)}, {}, Running(Clock(2, FALSE)), 2))}

MCPrograms == QueuePrograms \cup MutexPrograms \cup GroupPrograms \cup StreamPrograms \cup TimerPrograms
              \cup PoolAndHeapPrograms \cup OwnerPrograms
=============================================================================
