------------------------------- MODULE Requests -------------------------------
(***************************************************************************)
(* What the application may ask of the services: calls with arguments the    *)
(* wrapper (cmsis_os2.c) and the kernel take (what their configASSERTs and   *)
(* checks of parameters demand), on objects of the right sort.  The idle     *)
(* task and the timer task make no calls of their own.                       *)
(***************************************************************************)
EXTENDS SoftTimers, StreamBuffer, MemoryPool, Ownership

Plain(ops, names) == [op : ops, on : names]
Timely(ops, names) == [op : ops, on : names, ticks : Ticks]
Puts(ticks) ==
  [op : {"send"}, on : Queues, item : Items, pos : {"back", "front", "overwrite"}, ticks : ticks]
  \cup [op : {"send"}, on : Queues, item : {Nothing}, pos : {"back"}, ticks : {0}]
QueueCalls ==
  Puts(Ticks) \cup Timely({"receive", "peek", "take"}, Queues)
  \cup Plain({"reset", "delete", "release"}, Queues)
  \cup [op : {"new"}, on : Queues, kind : {"queue", "semaphore", "mutex", "recursive"}, len : Nat, n : Nat]

Choice == SUBSET EventFlags
GroupCalls ==
  [op : {"setBits", "clearBits"}, on : Groups, bits : Choice]
  \cup [op : {"waitBits"}, on : Groups, bits : Choice, ticks : Ticks, control : SUBSET {WaitsForAll, ClearsOnExit}]
  \cup [op : {"sync"}, on : Groups, set : Choice, bits : Choice, ticks : Ticks,
        control : {{WaitsForAll, ClearsOnExit}}]
  \cup Plain({"newGroup", "deleteGroup"}, Groups)

Some == Nat \ {0}
Transfers == [op : {"put", "get"}, on : Streams, n : Some, ticks : Ticks]
StreamCalls ==
  Transfers \cup Plain({"nextLength", "resetStream", "deleteStream"}, Streams)
  \cup [op : {"trigger"}, on : Streams, level : Nat]
  \cup [op : {"newStream"}, on : Streams, kind : {"stream", "message"}, size : Some, level : Nat]

Commanded ==
  [op : {"command"}, cmd : {"period"}, timer : Timers, value : 1 .. MaxDelay]
  \cup [op : {"command"}, cmd : {"start", "stop", "delete"}, timer : Timers, value : {0}]
Deferred == [op : {"pendCall"}, on : Groups, bits : Choice, set : BOOLEAN]
TimerCalls ==
  Commanded \cup [op : {"pendCall"}, on : Groups, bits : Choice, set : BOOLEAN, ticks : Ticks]
  \cup [op : {"reload"}, timer : Timers, reload : BOOLEAN]

MemoryCalls ==
  [op : {"malloc"}, bytes : Some] \cup [op : {"free", "timerTask"}] \cup Plain({"unmake"}, Things)
  \cup [op : {"make"}, on : Things, kind : {"thread"}, stack : Some, tcb : Some, given : {"all", "none", "some"}]
  \cup [op : {"make"}, on : Things, kind : {"timer"}, callb : Some, bytes : Some, given : {"all", "none", "some"}]
  \cup [op : {"make"}, on : Things, kind : {"pool"}, bytes : Some, array : Some,
        given : {"all", "none", "array", "block"}]
  \cup [op : {"make"}, on : Things, kind : {"queue", "mutex", "semaphore", "group", "stream"}, bytes : Some,
        given : {"all", "none", "some"}]

TaskCalls ==
  [op : {"delay"}, ticks : 1 .. MaxDelay]
  \cup QueueCalls \cup GroupCalls \cup StreamCalls \cup TimerCalls \cup MemoryCalls
InterruptCalls ==
  Puts({0}) \cup [op : {"receive", "peek"}, on : Queues, ticks : {0}] \cup Plain({"alloc", "release"}, Queues)
  \cup [op : {"put", "get"}, on : Streams, n : Some, ticks : {0}] \cup Commanded \cup Deferred

-----------------------------------------------------------------------------
(* An object as it is when it has been made.                                 *)
NewlyMade(o) ==
  /\ o.len \in Some /\ o.n \in 0 .. o.len
  /\ IF o.kind = "pool" THEN o = NewPool(o.len)
     ELSE o.kind \in {"queue", "semaphore", "mutex", "recursive"} /\ o = NewQueue(o.kind, o.len, o.n)
  /\ o.kind = "queue" => o.n = 0
  /\ IsMutex(o) => o.n = 1 /\ o.len = 1
(* The timers may run from the beginning.                                    *)
Wound(o) ==
  /\ o \in [kind : {"timers"}, current : Seq(Timers), overflow : Seq(Timers), last : Ticks,
            value : [Timers -> Ticks], period : [Timers -> 1 .. MaxDelay], reload : [Timers -> BOOLEAN],
            active : SUBSET Timers, began : [Timers -> Int], fired : [Timers -> Nat]]
  /\ IsInjective(o.current \o o.overflow)
  /\ \A t \in ToSet(o.overflow) : o.value[t] < o.last
Provided(p) ==
  /\ DOMAIN p.objects = Queues \cup {TimerQueue, "timers"} \cup Groups \cup Streams \cup Things
  /\ \A q \in Queues : p.objects[q] = NoObject \/ NewlyMade(p.objects[q])
  /\ NewlyMade(p.objects[TimerQueue]) /\ p.objects[TimerQueue].kind = "queue"
  /\ \A g \in Groups : p.objects[g] \in {NoObject, NewGroup}
  /\ \A s \in Streams :
       LET o == p.objects[s]
       IN o = NoObject \/ /\ o.kind \in {"stream", "message"} /\ o.length - 1 \in Some /\ o.trigger \in Some
                          /\ o = NewStream(o.kind, o.length - 1, o.trigger)
  /\ \A x \in Things : p.objects[x] = NoObject
  /\ Wound(p.objects["timers"])

(* What is asked of one queue, semaphore, mutex or pool suits whatever it     *)
(* may be: interrupts do not use a mutex, a pool is used as a pool only, and *)
(* only a queue of one item is overwritten.                                  *)
AskedOf(p, q, ops) == {c \in UNION {p.calls[t] : t \in Task} : c.op \in ops /\ c.on = q}
Raised(p, q, ops) == {c \in p.isr : c.op \in ops /\ c.on = q}
Makes(p, q) == AskedOf(p, q, {"new"}) \cup {p.objects[q]}
Suits(p, q) ==
  LET kinds == {o.kind : o \in Makes(p, q)}
      sends == Raised(p, q, {"send"})
  IN /\ \/ kinds = {"pool"} /\ AskedOf(p, q, {"send", "reset", "new", "delete"}) = {}
        \/ "pool" \notin kinds /\ AskedOf(p, q, {"release"}) = {} /\ Raised(p, q, {"alloc", "release"}) = {}
     /\ \A c \in sends : kinds \subseteq {"none", IF c.item = Nothing THEN "semaphore" ELSE "queue"}
     /\ Raised(p, q, {"receive", "peek"}) \cup AskedOf(p, q, {"reset"}) # {} =>
          kinds \subseteq {"none", "queue", "semaphore"}
     /\ (\E c \in sends \cup AskedOf(p, q, {"send"}) : c.pos = "overwrite") =>
          \A o \in Makes(p, q) : o.kind # "none" => o.len = 1
     /\ \A o \in AskedOf(p, q, {"new"}) :
          (o.kind = "queue" => o.n = 0) /\ (o.kind \in {"mutex", "recursive"} => o.n = 1 /\ o.len = 1)

(* An object has a name once it has been made: no two tasks make the same.   *)
OneMaker(p) ==
  \A t, u \in Task : \A c \in p.calls[t], d \in p.calls[u] :
    c.op = "make" /\ d.op = "make" /\ c.on = d.on => t = u

Sensible(p) ==
  /\ p.tasks \in Seq(Task \ {IdleTask}) /\ IsInjective(p.tasks) /\ p.prio \in [Task -> Nat]
  /\ p.start \in Ticks
  /\ p.calls \in [Task -> SUBSET TaskCalls] /\ p.calls[IdleTask] = {} /\ p.calls[TimerTask] = {}
  /\ p.isr \subseteq InterruptCalls
  /\ Provided(p) /\ (\A q \in Queues : Suits(p, q)) /\ OneMaker(p)

ASSUME ServicesAssumption ==
  /\ IdleTask \in Task /\ TimerTask \in Task \ {IdleTask} /\ IsFiniteSet(Task)
  /\ Nothing \notin Items \cup Task /\ "timers" # TimerQueue
  /\ {"timers", TimerQueue} \cap (Queues \cup Groups \cup Streams \cup Things \cup Task) = {}
  /\ Queues \cap (Groups \cup Streams \cup Things \cup Task) = {}
  /\ Groups \cap (Streams \cup Things \cup Task) = {}
  /\ Streams \cap (Things \cup Task) = {} /\ Things \cap Task = {}
  /\ \A q \in Queues \cup {TimerQueue} : Rx(q) \in EventLists /\ Tx(q) \in EventLists
  /\ \A g \in Groups : Waiters(g) \in EventLists
  /\ EventFlags \cap ControlBits = {} /\ Outside \notin [at : Int, size : Int]
  /\ \A p \in Programs : Sensible(p)
=============================================================================
