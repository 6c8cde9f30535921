---------------------------- MODULE Services_proofs ----------------------------
(***************************************************************************)
(* What the services keep whatever tasks and interrupts do, for any program, *)
(* any number of tasks, objects and priorities and any range of the tick.    *)
(* A task is at a step of a call with the frame that step expects, the       *)
(* scheduler is suspended by the running task or not at all, and the objects *)
(* are in order.                                                             *)
(***************************************************************************)
EXTENDS Services, TaskLists_proofs, TLAPS

Callers == Task \ {IdleTask, TimerTask}
QueueObjects == Queues \cup {TimerQueue}
Names == QueueObjects \cup {"timers"} \cup Groups \cup Streams \cup Things

(* What the timer task is sent.                                              *)
Timing == [cmd : {"start", "again", "period", "stop", "delete"}, timer : Timers, value : Ticks]
Commands == {m \in Timing : m.cmd = "period" => m.value # 0}
Callbacks == [cmd : {"call"}, on : Groups, bits : Choice, set : BOOLEAN]
Messages == Commands \cup Callbacks
Stock(q) == IF q = TimerQueue THEN Messages ELSE Items

-----------------------------------------------------------------------------
(* The frames, with the objects o of the program p: of a call that may wait   *)
(* at a queue, and that suits the queue there is,                            *)
Overwrites(f, p) == \A m \in Makes(p, f.on) : m.kind # "none" => m.len = 1
Asks(f, o, p) ==
  /\ f.on \in QueueObjects /\ o[f.on].kind # "none"
  /\ o[f.on].kind = "queue" <=> f.op \in {"receive", "peek"} \/ (f.op = "send" /\ f.item \in Stock(f.on))
  /\ f.op = "send" =>
       /\ f.item \in Stock(f.on) \/ (f.item = Nothing /\ f.pos = "back")
       /\ f.pos \in {"back", "front", "overwrite"} /\ (f.pos = "overwrite" => Overwrites(f, p))
  /\ f.on = TimerQueue => f.op = "send" /\ f.pos = "back"
Deadline(to) == {"at", "left"} \subseteq DOMAIN to /\ to.at \in Int /\ to.left \in Ticks
Queueing(f, o, p) ==
  /\ {"op", "on", "to", "entered", "inherited", "next", "blocks"} \subseteq DOMAIN f
  /\ f.op \in {"send", "receive", "peek", "take"} /\ (f.op = "send" => {"item", "pos"} \subseteq DOMAIN f)
  /\ Deadline(f.to) /\ f.inherited \in BOOLEAN /\ f.blocks \in BOOLEAN
  /\ Asks(f, o, p)
(* that waits, allocates or frees and is then over,                          *)
Passing(f) ==
  /\ {"op", "next", "blocks"} \subseteq DOMAIN f
  /\ f.op \in {"delay", "malloc", "free"} /\ f.next = "user" /\ f.blocks \in BOOLEAN
(* of a call on an event group,                                              *)
Grouping(f) ==
  /\ {"op", "on", "next", "blocks"} \subseteq DOMAIN f
  /\ f.op \in {"setBits", "waitBits", "sync", "deleteGroup"} /\ f.on \in Groups
  /\ f.next \in {"user", "woken"} /\ f.blocks \in BOOLEAN
(* on a stream buffer,                                                       *)
Streaming(f, o) ==
  /\ DOMAIN f = {"op", "on", "n", "to", "space", "next", "blocks"}
  /\ f.op \in {"put", "get"} /\ f.on \in Streams /\ o[f.on].kind \in {"stream", "message"}
  /\ Deadline(f.to) /\ f.next = "user" /\ f.blocks = FALSE
(* of the timer task,                                                        *)
Tending(f) ==
  /\ DOMAIN f = {"op", "on", "now", "message", "after", "next", "blocks"}
  /\ f.op = "timer" /\ f.on = TimerQueue /\ f.now \in Ticks
  /\ f.after \in {"resume", "act"} /\ f.next \in {"commands", "expire"} /\ f.blocks \in BOOLEAN
(* and of a call that makes or deletes an object.                            *)
Owning(f) ==
  /\ {"op", "on", "have", "next", "blocks"} \subseteq DOMAIN f
  /\ f.op \in {"make", "unmake"} /\ f.on \in Things /\ f.blocks = FALSE
  /\ f.next \in {"obtain", "giveBack"} /\ (f.next = "obtain" => f.op = "make")
  /\ f.op = "make" => {"kind", "want"} \subseteq DOMAIN f

Taking(f) == DOMAIN f = {"op", "on"} /\ f.op = "take" /\ f.on \in Queues
(* Where a task may be with each of them.                                    *)
Tries(f) == f.next \in {"try", "user", "final"} /\ (f.next = "final" => f.op # "send")
Resumable(f, t, o, p) ==
  \/ t \in Callers /\ Queueing(f, o, p) /\ Tries(f)
  \/ t \in Callers /\ (Passing(f) \/ Grouping(f) \/ Streaming(f, o))
  \/ t = TimerTask /\ Tending(f) /\ (f.next = "expire" => f.blocks = FALSE)
  \/ Owning(f)
AtQueue(l, f, o, p) ==
  /\ Queueing(f, o, p)
  /\ \/ l = "try"
     \/ l \in {"suspend", "lock", "place"} /\ f.to.left # 0 /\ (l = "place" => f.next = "try")
     \/ l \in {"unlockTx", "unlockRx"} /\ Tries(f)
     \/ l \in {"final", "disinherit"} /\ f.op # "send"
StreamPlaces ==
  {"room", "sleep", "slept", "forget", "expired", "measure", "data", "tell", "notify", "look", "length", "copy"}
AtTimers(l, f) ==
  /\ Tending(f)
  /\ \/ l \in {"await", "sleepUntil", "unlockTx", "unlockRx"} /\ f.next = "commands"
     \/ l = "switch" /\ f.next = "commands" /\ (f.after = "act" => f.message \in Commands)
     \/ l \in {"command", "act"} /\ f.after = "act" /\ f.next = "commands" /\ f.message \in Commands
     \/ l = "call" /\ f.next = "commands" /\ f.message \in Callbacks
     \/ l \in {"commands", "expire"}
Places(l, f, t, o, p) ==
  \/ l = "user" /\ f = NoCall
  \/ l = "asserted" /\ f.op \notin {"make", "unmake"}
  \/ l \in {"resume", "yield"} /\ Resumable(f, t, o, p) /\ (l = "yield" => f.blocks)
  \/ t \in Callers /\ AtQueue(l, f, o, p)
  \/ t \in Callers /\ l = "count" /\ Taking(f) /\ o[f.on].kind = "recursive"
  \/ t \in Callers /\ l = "allot" /\ Taking(f) /\ o[f.on].kind = "pool"
  \/ t \in Callers /\ l = "woken" /\ Grouping(f)
  \/ t \in Callers /\ l \in StreamPlaces /\ Streaming(f, o)
  \/ t = TimerTask /\ AtTimers(l, f)
  \/ l = "obtain" /\ Owning(f) /\ f.op = "make" /\ f.next = "obtain"
  \/ l = "giveBack" /\ Owning(f)

(* The places of a call at which it has suspended the scheduler.             *)
Suspends(l, f) ==
  \/ l \in {"lock", "place", "unlockTx", "unlockRx", "resume", "notify", "await", "sleepUntil"}
  \/ l = "switch" /\ f.after = "resume"
Control ==
  /\ DOMAIN pc = Task /\ DOMAIN frame = Task
  /\ \A t \in Task : Places(pc[t], frame[t], t, obj, program)
  /\ \A t \in Task : Suspends(pc[t], frame[t]) => t = k.cur
  /\ pc[k.cur] # "asserted" => k.susp = IF Suspends(pc[k.cur], frame[k.cur]) THEN 1 ELSE 0

-----------------------------------------------------------------------------
(* The objects: what is in a queue is what it may hold, one after the other  *)
(* from the one read last to the next one written.                           *)
QueueFields ==
  {"kind", "len", "n", "tx", "rx", "holder", "rec", "slots", "write", "read", "out"}
Aside(o) == o.tx \in Int /\ o.rx \in Int /\ o.holder \in Task \cup {Nothing} /\ o.rec \in Int
InOrder(o, S) ==
  /\ DOMAIN o.slots = 0 .. o.len - 1 /\ o.read \in 0 .. o.len - 1
  /\ o.write = (o.read + 1 + o.n) % o.len
  /\ \A i \in 1 .. o.n : o.slots[(o.read + i) % o.len] \in S
Stocked(o, S) ==
  /\ QueueFields \subseteq DOMAIN o /\ o.kind \in {"queue", "semaphore", "mutex", "recursive", "pool"}
  /\ o.len \in Some /\ o.n \in 0 .. o.len
  /\ Aside(o) /\ (o.kind = "queue" => InOrder(o, S))
(* A queue there is was made as the program makes it, and one there is not    *)
(* has yet to be made or was deleted.                                        *)
QueueSound(o, q, p) ==
  \/ o = NoObject /\ (p.objects[q] = NoObject \/ AskedOf(p, q, {"delete"}) # {})
  \/ Stocked(o, Items) /\ \E m \in Makes(p, q) : m.kind = o.kind /\ m.len = o.len
Ended(o) ==
  {"kind", "receiver", "sender"} \subseteq DOMAIN o
    /\ o.receiver \in Task \cup {Nothing} /\ o.sender \in Task \cup {Nothing}
StreamSound(o) == o = NoObject \/ (o.kind \in {"stream", "message"} /\ Ended(o))

(* The timers: the timer task goes by the tick it has sampled last, so that  *)
(* it sleeps for at least one tick.                                          *)
TimerFields ==
  {"kind", "current", "overflow", "last", "value", "period", "reload", "active", "began", "fired"}
TimersSound(o) ==
  /\ DOMAIN o = TimerFields /\ o.current \in Seq(Timers) /\ o.overflow \in Seq(Timers)
  /\ o.last \in Ticks /\ o.value \in [Timers -> Ticks] /\ o.period \in [Timers -> 1 .. MaxDelay]
Sampled(l, f, o) ==
  /\ l \in {"await", "sleepUntil", "expire", "act"} \/ (l = "switch" /\ f.after = "act")
       \/ (l = "resume" /\ f.next = "expire") => f.now = o.last
  /\ l = "expire" \/ (l = "resume" /\ f.next = "expire") => o.current # <<>>
  /\ l \in {"await", "sleepUntil"} /\ o.current # <<>> => o.value[Head(o.current)] > f.now
  /\ o.overflow # <<>> => o.last > 0 \/ l \in {"switch", "asserted"}

ObjectsSound(o, p) ==
  /\ DOMAIN o = Names
  /\ \A q \in Queues : QueueSound(o[q], q, p)
  /\ Stocked(o[TimerQueue], Messages) /\ o[TimerQueue].kind = "queue"
  /\ \A s \in Streams : StreamSound(o[s])
  /\ TimersSound(o["timers"])
ServicesInv ==
  /\ program \in Programs /\ Calm(k, IdleTask) /\ Control /\ ObjectsSound(obj, program)
  /\ Sampled(pc[TimerTask], frame[TimerTask], obj["timers"])

-----------------------------------------------------------------------------
(* What is assumed of the constants, and of a call or an interrupt of a      *)
(* program.                                                                  *)
LEMMA Assumed ==
  /\ IdleTask \in Task /\ TimerTask \in Task /\ IdleTask # TimerTask /\ IsFiniteSet(Task)
  /\ Nothing \notin Items /\ Nothing \notin Task /\ "timers" # TimerQueue
  /\ "timers" \notin Queues /\ "timers" \notin Groups /\ "timers" \notin Streams /\ "timers" \notin Things
  /\ TimerQueue \notin Queues /\ TimerQueue \notin Groups /\ TimerQueue \notin Streams
  /\ TimerQueue \notin Things
  /\ \A q \in Queues : q \notin Groups /\ q \notin Streams /\ q \notin Things
  /\ \A g \in Groups : g \notin Queues /\ g \notin Streams /\ g \notin Things
  /\ \A s \in Streams : s \notin Queues /\ s \notin Groups /\ s \notin Things
  /\ \A s \in Things : s \notin Queues /\ s \notin Groups /\ s \notin Streams
  /\ \A q \in QueueObjects : Rx(q) \in EventLists /\ Tx(q) \in EventLists
  /\ \A g \in Groups : Waiters(g) \in EventLists
  /\ \A p \in Programs : Sensible(p)
BY ServicesAssumption DEF QueueObjects
LEMMA CallKnown ==
  ASSUME program \in Programs, NEW t \in Task, NEW c \in program.calls[t]
  PROVE  t \in Callers /\ c \in TaskCalls
BY Assumed DEF Sensible, Callers
LEMMA InterruptKnown ==
  ASSUME program \in Programs, NEW c \in program.isr
  PROVE  c \in InterruptCalls
BY Assumed DEF Sensible
LEMMA QueueCallKnown ==
  ASSUME NEW c \in TaskCalls
  PROVE  /\ c.op = "send" => c \in Puts(Ticks)
         /\ c.op \in {"receive", "peek", "take"} => c \in Timely({"receive", "peek", "take"}, Queues)
         /\ c.op \in {"reset", "delete", "release"} => c \in Plain({"reset", "delete", "release"}, Queues)
         /\ c.op = "new" => c \in [op : {"new"}, on : Queues, kind : {"queue", "semaphore", "mutex", "recursive"},
                                   len : Nat, n : Nat]
BY DEF TaskCalls, QueueCalls, GroupCalls, StreamCalls, Transfers, TimerCalls, Commanded, MemoryCalls, Puts, Timely, Plain
LEMMA GroupCallKnown ==
  ASSUME NEW c \in TaskCalls
  PROVE  /\ c.op \in {"setBits", "clearBits", "waitBits", "sync", "newGroup", "deleteGroup"} =>
              c.on \in Groups /\ {"op", "on"} \subseteq DOMAIN c /\ DOMAIN c \cap {"next", "blocks"} = {}
         /\ c.op \in {"waitBits", "sync"} => c.ticks \in Ticks
BY DEF TaskCalls, QueueCalls, GroupCalls, StreamCalls, Transfers, TimerCalls, Commanded, MemoryCalls, Puts, Timely, Plain
LEMMA StreamCallKnown ==
  ASSUME NEW c \in TaskCalls
  PROVE  /\ c.op \in {"put", "get"} => c \in Transfers
         /\ c.op \in {"nextLength", "resetStream", "deleteStream", "trigger", "newStream"} => c.on \in Streams
         /\ c.op = "newStream" => c.kind \in {"stream", "message"}
BY DEF TaskCalls, QueueCalls, GroupCalls, StreamCalls, Transfers, TimerCalls, Commanded, MemoryCalls, Puts, Timely, Plain
LEMMA OtherCallKnown ==
  ASSUME NEW c \in TaskCalls
  PROVE  /\ c.op = "command" => c \in Commanded
         /\ c.op = "pendCall" => c \in [op : {"pendCall"}, on : Groups, bits : Choice, set : BOOLEAN, ticks : Ticks]
         /\ c.op = "reload" => c \in [op : {"reload"}, timer : Timers, reload : BOOLEAN]
         /\ c.op = "delay" => c.ticks \in 1 .. MaxDelay
         /\ c.op \in {"make", "unmake"} => c.on \in Things
BY DEF TaskCalls, QueueCalls, GroupCalls, StreamCalls, Transfers, TimerCalls, Commanded, MemoryCalls, Puts, Timely, Plain
LEMMA InterruptSorts ==
  ASSUME NEW c \in InterruptCalls
  PROVE  /\ c.op = "send" => c \in Puts({0})
         /\ c.op \in {"receive", "peek"} => c \in [op : {"receive", "peek"}, on : Queues, ticks : {0}]
         /\ c.op \in {"alloc", "release"} => c \in Plain({"alloc", "release"}, Queues)
         /\ c.op \in {"put", "get"} => c \in [op : {"put", "get"}, on : Streams, n : Some, ticks : {0}]
         /\ c.op = "command" => c \in Commanded
         /\ c.op = "pendCall" => c \in Deferred
BY DEF InterruptCalls, Puts, Plain, Commanded, Deferred

-----------------------------------------------------------------------------
(* A step of the running task: where it goes, with what frame, and the kernel *)
(* and the objects it leaves.  What the other tasks are doing stays possible *)
(* as long as the objects they use are of the kind they were.                *)
KindKept(f, o, o1) ==
  f.on \in QueueObjects \cup Streams => o1[f.on].kind = o[f.on].kind \/ o[f.on].kind = "none"
LEMMA PlacesKept ==
  ASSUME NEW l, NEW f, NEW t, NEW o, NEW p, NEW o1, Places(l, f, t, o, p),
         f # NoCall => KindKept(f, o, o1)
  PROVE  Places(l, f, t, o1, p)
<1>0. f.op \in {"send", "receive", "peek", "take", "put", "get"} => f # NoCall BY DEF NoCall
<1>1. Queueing(f, o, p) => Queueing(f, o1, p)
  BY <1>0 DEF Queueing, Asks, KindKept
<1>2. Streaming(f, o) => Streaming(f, o1)
  BY <1>0 DEF Streaming, KindKept
<1>3. Taking(f) /\ o[f.on].kind # "none" => o1[f.on].kind = o[f.on].kind
  BY <1>0 DEF Taking, KindKept, QueueObjects
<1>4. Resumable(f, t, o, p) => Resumable(f, t, o1, p)
  BY <1>1, <1>2 DEF Resumable
<1>5. AtQueue(l, f, o, p) => AtQueue(l, f, o1, p)
  BY <1>1 DEF AtQueue
<1> QED BY <1>2, <1>3, <1>4, <1>5 DEF Places

KindsKept(o, o1) == \A t \in Task : frame[t] # NoCall => KindKept(frame[t], o, o1)
(* The part of the invariant a step of a task has to see to.                  *)
Arrives(to, f) ==
  /\ Places(to, f, k.cur, obj', program) /\ k'.cur = k.cur
  /\ to # "asserted" => k'.susp = IF Suspends(to, f) THEN 1 ELSE 0
GoneTo(to, f) ==
  /\ DOMAIN pc' = Task /\ DOMAIN frame' = Task /\ pc'[k.cur] = to /\ frame'[k.cur] = f
  /\ \A t \in Task : t # k.cur => pc'[t] = pc[t] /\ frame'[t] = frame[t]
  /\ program' = program
LEMMA ControlKept ==
  ASSUME Control, k.cur \in Task, NEW to, NEW f, GoneTo(to, f), KindsKept(obj, obj'), Arrives(to, f)
  PROVE  Control'
<1>1. DOMAIN pc' = Task /\ DOMAIN frame' = Task /\ pc'[k.cur] = to /\ frame'[k.cur] = f /\ k'.cur = k.cur
      /\ program' = program
  BY DEF GoneTo, Arrives
<1>2. \A t \in Task : t # k.cur => pc'[t] = pc[t] /\ frame'[t] = frame[t]
  BY DEF GoneTo
<1>3. ASSUME NEW t \in Task PROVE Places(pc[t], frame[t], t, obj, program)'
  <2>1. CASE t = k.cur BY <1>1, <2>1 DEF Arrives
  <2>2. CASE t # k.cur
    <3>1. Places(pc[t], frame[t], t, obj, program) /\ (frame[t] # NoCall => KindKept(frame[t], obj, obj'))
      BY DEF Control, KindsKept
    <3>2. Places(pc[t], frame[t], t, obj', program) BY <3>1, PlacesKept
    <3> QED BY <1>1, <1>2, <2>2, <3>2
  <2> QED BY <2>1, <2>2
<1>4. ASSUME NEW t \in Task, Suspends(pc'[t], frame'[t]) PROVE t = k'.cur
  BY <1>1, <1>2, <1>4 DEF Control
<1>5. pc'[k'.cur] # "asserted" => k'.susp = IF Suspends(pc'[k'.cur], frame'[k'.cur]) THEN 1 ELSE 0
  BY <1>1 DEF Arrives
<1> QED BY <1>1, <1>3, <1>4, <1>5 DEF Control

LEMMA Running ==
  ASSUME ServicesInv
  PROVE  /\ k.cur \in Task /\ DOMAIN pc = Task /\ DOMAIN frame = Task /\ DOMAIN obj = Names
         /\ Places(pc[k.cur], frame[k.cur], k.cur, obj, program)
         /\ pc[k.cur] # "asserted" => k.susp = IF Suspends(pc[k.cur], frame[k.cur]) THEN 1 ELSE 0
BY DEF ServicesInv, Calm, Good, Sound, Shape, Control, ObjectsSound
LEMMA MovesOn ==
  ASSUME ServicesInv, NEW from, NEW to, NEW next, Moves(from, to, next)
  PROVE  /\ k' = next
         /\ \A f : Enter(f) => GoneTo(to, f)
         /\ UNCHANGED frame => GoneTo(to, frame[k.cur])
         /\ Leave => GoneTo(to, NoCall)
BY Running DEF Moves, Enter, Leave, GoneTo
LEMMA StepKeeps ==
  ASSUME ServicesInv, NEW to, NEW f, GoneTo(to, f), Arrives(to, f), Calm(k', IdleTask),
         KindsKept(obj, obj'), ObjectsSound(obj', program),
         Sampled(pc'[TimerTask], frame'[TimerTask], obj'["timers"])
  PROVE  ServicesInv'
<1>1. Control' BY Running, ControlKept DEF ServicesInv
<1> QED BY <1>1 DEF ServicesInv, GoneTo

(* An object in the place of another, of the same kind when somebody uses it. *)
Suited(x, o1) ==
  /\ x \in Names \ {"timers"}
  /\ x \in Queues => QueueSound(o1, x, program)
  /\ x = TimerQueue => Stocked(o1, Messages) /\ o1.kind = "queue"
  /\ x \in Streams => StreamSound(o1)
  /\ x \in QueueObjects \cup Streams =>
       \/ o1.kind = obj[x].kind \/ obj[x].kind = "none"
       \/ \A t \in Task : frame[t] # NoCall => frame[t].on # x
Settled == KindsKept(obj, obj') /\ ObjectsSound(obj', program)
LEMMA Replaced ==
  ASSUME ServicesInv, NEW x, NEW o1, Suited(x, o1), obj' = [obj EXCEPT ![x] = o1]
  PROVE  Settled /\ obj'["timers"] = obj["timers"]
<1>1. /\ DOMAIN obj = Names /\ DOMAIN obj' = Names /\ x \in Names /\ x # "timers" /\ obj'[x] = o1
      /\ \A y \in Names : y # x => obj'[y] = obj[y]
  BY DEF Suited, ServicesInv, ObjectsSound
<1>2. KindsKept(obj, obj')
  BY <1>1 DEF KindsKept, KindKept, Suited, Names
<1>3. ObjectsSound(obj', program)
  BY <1>1, Assumed DEF Suited, ServicesInv, ObjectsSound, Names, QueueObjects
<1> QED BY <1>1, <1>2, <1>3 DEF Names, Settled
LEMMA Unreplaced ==
  ASSUME ServicesInv, obj' = obj
  PROVE  Settled /\ obj'["timers"] = obj["timers"]
BY DEF ServicesInv, KindsKept, KindKept, Settled

(* A step of a task other than the timer task, and of an interrupt.          *)
LEMMA CallerKeeps ==
  ASSUME ServicesInv, NEW to, NEW f, GoneTo(to, f), Arrives(to, f), Calm(k', IdleTask), k.cur # TimerTask,
         Settled, obj'["timers"] = obj["timers"]
  PROVE  ServicesInv'
<1>1. pc'[TimerTask] = pc[TimerTask] /\ frame'[TimerTask] = frame[TimerTask]
  BY Assumed DEF GoneTo
<1> QED BY <1>1, StepKeeps DEF ServicesInv, Settled
LEMMA InterruptKeeps ==
  ASSUME ServicesInv, UNCHANGED <<pc, frame, program>>, Smooth(k, k', IdleTask),
         Settled, obj'["timers"] = obj["timers"]
  PROVE  ServicesInv'
<1>1. GoneTo(pc[k.cur], frame[k.cur]) BY Running DEF GoneTo
<1>2. Places(pc[k.cur], frame[k.cur], k.cur, obj', program)
  <2>1. frame[k.cur] # NoCall => KindKept(frame[k.cur], obj, obj') BY Running DEF Settled, KindsKept
  <2> QED BY <2>1, Running, PlacesKept
<1>3. Arrives(pc[k.cur], frame[k.cur])
  BY <1>2, Running DEF Arrives, Smooth, Ranks
<1>4. Calm(k', IdleTask) BY DEF Smooth
<1> QED BY <1>1, <1>3, <1>4, StepKeeps DEF ServicesInv, Settled

-----------------------------------------------------------------------------
(* What the services do with the kernel.                                     *)
EachWakes == INSTANCE Folding WITH Step <- WakeWaiting
Releasing == INSTANCE Folding WITH Step <- Release

LEMMA SmoothSelf ==
  ASSUME NEW j, Calm(j, IdleTask)
  PROVE  Smooth(j, j, IdleTask)
BY DEF Smooth, Ranks
LEMMA CalmShape ==
  ASSUME NEW j, Calm(j, IdleTask)
  PROVE  /\ j.cur \in Task /\ \A e \in EventLists : j.events[e] \in Seq(Task)
         /\ j.prio \in [Task -> Levels] /\ j.base \in [Task -> Levels]
         /\ j.tick \in Ticks /\ j.susp \in Nat
BY DEF Calm, Good, Sound, Shape, OnTime, TimedFrom
LEMMA CalmWoken ==
  ASSUME NEW j, Calm(j, IdleTask), NEW e \in EventLists
  PROVE  Smooth(j, WakeOne(j, e), IdleTask) /\ Smooth(j, WakeWaiting(j, e), IdleTask)
<1>1. CASE j.events[e] = <<>> BY <1>1, SmoothSelf DEF WakeOne, WakeWaiting
<1>2. CASE j.events[e] # <<>>
  <2> DEFINE i == RemoveFromEventList(j, e)
  <2>1. Smooth(j, i, IdleTask) BY <1>2, CalmRemoved, Assumed
  <2> HIDE DEF i
  <2>2. Smooth(i, Yield(i), IdleTask) BY <2>1, CalmYield, Assumed DEF Smooth
  <2>3. Smooth(j, Yield(i), IdleTask) BY <2>1, <2>2, SmoothMore
  <2>4. WakeOne(j, e) = YieldIf(RemovedIsUrgent(j, e), i) BY <1>2 DEF WakeOne, i
  <2>5. WakeOne(j, e) = i \/ WakeOne(j, e) = Yield(i) BY <2>4, Zenon DEF YieldIf
  <2>6. WakeWaiting(j, e) = i BY <1>2 DEF WakeWaiting, i
  <2> QED BY <2>1, <2>3, <2>5, <2>6
<1> QED BY <1>1, <1>2

LEMMA CalmWakesAll ==
  ASSUME Calm(k, IdleTask), NEW e \in EventLists, NEW m \in Int
  PROVE  Smooth(k, WakeAll(e, m), IdleTask)
<1> DEFINE n == IF m > 0 THEN m ELSE 0
           s == [i \in 1 .. m |-> e]
           j == FoldLeft(WakeWaiting, k, s)
<1>0. n \in Nat /\ 1 .. m = 1 .. n OBVIOUS
<1>1. j = EachWakes!Fold(k, s)
  BY SMT DEF FoldLeft, MapThenFoldSet, Max, EachWakes!Fold, EachWakes!Greatest
<1>2. EachWakes!Unrolled(k, n, s, EachWakes!Fold(k, s))
  <2>1. DOMAIN s = 1 .. n BY <1>0
  <2> HIDE DEF s, n
  <2> QED BY <1>0, <2>1, EachWakes!FoldTrace, Zenon
<1>3. \A i \in 1 .. n : s[i] = e BY <1>0
<1> HIDE DEF j, n, s
<1>4. PICK g : g[0] = k /\ (\A i \in 1 .. n : g[i] = WakeWaiting(g[i - 1], s[i])) /\ j = g[n]
  BY <1>1, <1>2, Zenon DEF EachWakes!Unrolled
<1> DEFINE D == {i \in Nat : i <= n => Smooth(k, g[i], IdleTask)}
<1>5. 0 \in D BY <1>4, SmoothSelf
<1>6. ASSUME NEW i \in Nat, i \in D PROVE i + 1 \in D
  <2>1. SUFFICES ASSUME i + 1 <= n PROVE Smooth(k, g[i + 1], IdleTask) OBVIOUS
  <2>2. Smooth(k, g[i], IdleTask) BY <1>0, <1>6, <2>1
  <2>3. i + 1 \in 1 .. n /\ (i + 1) - 1 = i BY <1>0, <2>1
  <2>4. g[i + 1] = WakeWaiting(g[i], e) BY <1>3, <1>4, <2>3
  <2>5. Smooth(g[i], g[i + 1], IdleTask) BY <2>2, <2>4, CalmWoken DEF Smooth
  <2> QED BY <2>2, <2>5, SmoothMore
<1> HIDE DEF D
<1>7. Nat \subseteq D BY <1>5, <1>6, EachWakes!SetInduction, Zenon
<1>8. n \in D BY <1>0, <1>7
<1> QED BY <1>0, <1>4, <1>8 DEF D, j, s, WakeAll

(* Waiters of a group are released.                                          *)
LEMMA CalmReleased ==
  ASSUME NEW h, Calm(h, IdleTask), NEW list \in Seq(Task), NEW met, NEW flags
  PROVE  Smooth(h, Releases(h, list, met, flags), IdleTask)
<1> DEFINE n == Len(list)
           r == [kernel |-> h, met |-> met, flags |-> flags]
           j == FoldLeft(Release, r, list)
<1>0. n \in Nat /\ DOMAIN list = 1 .. n /\ \A i \in 1 .. n : list[i] \in Task OBVIOUS
<1> HIDE DEF n
<1>1. j = Releasing!Fold(r, list)
  BY SMT DEF FoldLeft, MapThenFoldSet, Max, Releasing!Fold, Releasing!Greatest
<1>2. Releasing!Unrolled(r, n, list, Releasing!Fold(r, list))
  BY <1>0, Releasing!FoldTrace, Zenon
<1> HIDE DEF j
<1>4. PICK g : g[0] = r /\ (\A i \in 1 .. n : g[i] = Release(g[i - 1], list[i])) /\ j = g[n]
  BY <1>1, <1>2, Zenon DEF Releasing!Unrolled
<1> DEFINE D == {i \in Nat : i <= n => /\ Smooth(h, g[i].kernel, IdleTask)
                                       /\ DOMAIN g[i] = {"kernel", "met", "flags"}}
<1>5. 0 \in D BY <1>4, SmoothSelf
<1> HIDE DEF r
<1>6. ASSUME NEW i \in Nat, i \in D PROVE i + 1 \in D
  <2>1. SUFFICES ASSUME i + 1 <= n
                 PROVE  Smooth(h, g[i + 1].kernel, IdleTask) /\ DOMAIN g[i + 1] = {"kernel", "met", "flags"}
    OBVIOUS
  <2>2. Smooth(h, g[i].kernel, IdleTask) /\ DOMAIN g[i] = {"kernel", "met", "flags"} BY <1>0, <1>6, <2>1
  <2>3. i + 1 \in 1 .. n /\ (i + 1) - 1 = i BY <1>0, <2>1
  <2> DEFINE w == RemoveFromUnorderedEventList(g[i].kernel, list[i + 1], g[i].flags)
  <2>4. g[i + 1] = Release(g[i], list[i + 1]) BY <1>4, <2>3
  <2>5. Smooth(g[i].kernel, w, IdleTask) BY <1>0, <2>2, <2>3, CalmRemovedUnordered, Assumed DEF Smooth
  <2>6. Smooth(h, w, IdleTask) BY <2>2, <2>5, SmoothMore
  <2> HIDE DEF D
  <2>7. g[i + 1] = [g[i] EXCEPT !.kernel = w] \/ g[i + 1] = g[i] BY <2>4 DEF Release
  <2> HIDE DEF w
  <2> QED BY <2>2, <2>6, <2>7
<1> HIDE DEF D
<1>7. Nat \subseteq D BY <1>5, <1>6, EachWakes!SetInduction, Zenon
<1>8. n \in D BY <1>0, <1>7
<1>9. Releases(h, list, met, flags) = j.kernel BY DEF Releases, j, r
<1> QED BY <1>0, <1>4, <1>8, <1>9 DEF D
LEMMA CalmJudged ==
  ASSUME NEW h, Calm(h, IdleTask), NEW list \in Seq(Task), NEW bits
  PROVE  Smooth(h, Judged(h, list, bits).kernel, IdleTask)
<1> DEFINE met == {t \in ToSet(list) : Met(bits, Want(h, t), h.flags[t])}
<1>1. Judged(h, list, bits).kernel = Releases(h, list, met, bits \cup {Unblocked}) BY DEF Judged
<1> QED BY <1>1, CalmReleased

(* Notifications: a task told, and a task that waits to be told.             *)
LEMMA CalmReceived ==
  ASSUME Calm(k, IdleTask), NEW u, NEW action, NEW v
  PROVE  Smooth(k, Received(u, action, v), IdleTask)
<1> DEFINE note == [k.nval EXCEPT ![u] = NewValue(u, action, v)]
<1>1. Smooth(k, Noted(k, u, "received", note), IdleTask) BY CalmNoted, Assumed
<1>2. Received(u, action, v) = Noted(k, u, "received", note)
  BY DEF Received, Noted, Calm, Good, Sound, Shape, Fields
<1> QED BY <1>1, <1>2
LEMMA CalmNotified ==
  ASSUME Calm(k, IdleTask), NEW u \in Task, NEW action, NEW v
  PROVE  /\ Smooth(k, GenericNotify(u, action, v), IdleTask)
         /\ Smooth(k, GenericNotifyFromISR(u, action, v), IdleTask)
<1> DEFINE k1 == Received(u, action, v)
           k2 == Ready(k1, u)
           k3 == ReadyOrPend(k1, u)
<1>1. Smooth(k, k1, IdleTask) BY CalmReceived
<1>2. Smooth(k1, k2, IdleTask) /\ Smooth(k1, k3, IdleTask)
  BY <1>1, CalmReady, CalmReadyOrPend, Assumed DEF Smooth
<1>3. Smooth(k, k2, IdleTask) /\ Smooth(k, k3, IdleTask)
  <2> HIDE DEF k1, k2, k3
  <2> QED BY <1>1, <1>2, SmoothMore
<1> HIDE DEF k1, k2, k3
<1>4. ASSUME NEW j, Smooth(k, j, IdleTask)
      PROVE  Smooth(k, Yield(j), IdleTask) /\ Smooth(k, Yield([j EXCEPT !.missed = TRUE]), IdleTask)
  <2>1. Smooth(j, Yield(j), IdleTask) BY <1>4, CalmYield, Assumed DEF Smooth
  <2> DEFINE i == [j EXCEPT !.missed = TRUE]
  <2>2. Smooth(j, i, IdleTask) BY <1>4, CalmMissed, Assumed DEF Smooth
  <2> HIDE DEF i
  <2>3. Smooth(i, Yield(i), IdleTask) BY <2>2, CalmYield, Assumed DEF Smooth
  <2>4. Smooth(k, i, IdleTask) BY <1>4, <2>2, SmoothMore
  <2> QED BY <1>4, <2>1, <2>3, <2>4, SmoothMore DEF i
<1>5. \E j \in {k1, k2} : GenericNotify(u, action, v) \in {j, Yield(j)}
  BY Zenon DEF GenericNotify, k1, k2
<1>6. \E j \in {k1, k3} : GenericNotifyFromISR(u, action, v) \in {j, Yield([j EXCEPT !.missed = TRUE])}
  BY Zenon DEF GenericNotifyFromISR, k1, k3
<1> QED BY <1>1, <1>3, <1>4, <1>5, <1>6
LEMMA CalmBlocks ==
  ASSUME Calm(k, IdleTask), k.cur # IdleTask, NEW n \in Ticks
  PROVE  Smooth(k, Block(n), IdleTask)
<1> DEFINE k1 == [k EXCEPT !.nstate[k.cur] = "waiting"]
<1>1. Smooth(k, k1, IdleTask)
  <2>1. Smooth(k, Noted(k, k.cur, "waiting", k.nval), IdleTask) BY CalmNoted, Assumed
  <2>2. k1 = Noted(k, k.cur, "waiting", k.nval) BY DEF Noted, Calm, Good, Sound, Shape, Fields
  <2> QED BY <2>1, <2>2
<1>2. k1.cur = k.cur BY <1>1 DEF Smooth, Ranks
<1> HIDE DEF k1
<1>3. CASE n > 0
  <2> DEFINE j == AddCurrentToDelayed(k1, n, TRUE)
  <2>1. n \in 1 .. MaxDelay BY <1>3, TaskListsAssumption DEF Ticks, MaxDelay
  <2>2. Smooth(k1, j, IdleTask) BY <1>1, <1>2, <2>1, CalmSleeps, Assumed DEF Smooth
  <2> HIDE DEF j
  <2>3. Smooth(j, Yield(j), IdleTask) BY <2>2, CalmYield, Assumed DEF Smooth
  <2>4. Block(n) = Yield(j) BY <1>3 DEF Block, j, k1
  <2> QED BY <1>1, <2>2, <2>3, <2>4, SmoothMore
<1>4. CASE ~(n > 0)
  <2>1. Block(n) = k1 BY <1>4 DEF Block, k1
  <2> QED BY <1>1, <2>1
<1> QED BY <1>3, <1>4
LEMMA CalmUnnoted ==
  ASSUME Calm(k, IdleTask)
  PROVE  Smooth(k, NoNote, IdleTask) /\ Smooth(k, [k EXCEPT !.nstate[k.cur] = "no"], IdleTask)
<1>1. \A v : Smooth(k, Noted(k, k.cur, v, k.nval), IdleTask) BY CalmNoted, Assumed
<1>2. \A v : Noted(k, k.cur, v, k.nval) = [k EXCEPT !.nstate[k.cur] = v]
  BY DEF Noted, Calm, Good, Sound, Shape, Fields
<1>3. NoNote = [k EXCEPT !.nstate[k.cur] = IF k.nstate[k.cur] = "received" THEN "no" ELSE k.nstate[k.cur]]
  BY DEF NoNote
<1> QED BY <1>1, <1>2, <1>3

-----------------------------------------------------------------------------
(* The ring of a queue: what is at each place of it after an item has been   *)
(* put in or taken out.                                                      *)
Slot(o, i) == (o.read + i) % o.len
Inside(o, i) == o.slots[Slot(o, i)]
LEMMA RingPlace ==
  ASSUME NEW len \in Nat \ {0}, NEW a \in 0 .. len - 1, NEW i \in 0 .. len
  PROVE  (a + i) % len = IF a + i < len THEN a + i ELSE a + i - len
<1>1. len \in Nat /\ len > 0 /\ a + i \in Nat /\ a + i < 2 * len OBVIOUS
<1>2. CASE a + i < len BY <1>1, <1>2
<1>3. CASE ~(a + i < len)
  <2>1. PICK b \in 0 .. len - 1 : a + i = len + b
    <3>1. a + i - len \in 0 .. len - 1 /\ a + i = len + (a + i - len) BY <1>1, <1>3
    <3> QED BY <3>1
  <2>2. a + i = 1 * len + b BY <2>1
  <2>3. (a + i) % len = b BY <1>1, <2>1, <2>2, Residue
  <2> QED BY <1>3, <2>1, <2>3
<1> QED BY <1>2, <1>3
LEMMA SlotFacts ==
  ASSUME NEW o, o.len \in Nat \ {0}, o.read \in 0 .. o.len - 1
  PROVE  /\ \A i \in Int : Slot(o, i) \in 0 .. o.len - 1
         /\ Slot(o, 0) = o.read
         /\ \A i, j \in Int : i < j /\ j - i < o.len => Slot(o, i) # Slot(o, j)
<1>1. ASSUME NEW i \in Int PROVE Slot(o, i) \in 0 .. o.len - 1
  <2>1. o.read + i \in Int OBVIOUS
  <2> QED BY <2>1, Division DEF Slot
<1>2. Slot(o, 0) = o.read
  <2>1. o.read + 0 = 0 * o.len + o.read /\ o.read + 0 \in Int OBVIOUS
  <2> QED BY <2>1, Residue DEF Slot
<1>3. ASSUME NEW i \in Int, NEW j \in Int, i < j, j - i < o.len PROVE Slot(o, i) # Slot(o, j)
  <2> DEFINE a == Slot(o, i)
  <2>1. Slot(o, j) = (a + (j - i)) % o.len
    <3>1. (((o.read + i) % o.len) + (j - i)) % o.len = ((o.read + i) + (j - i)) % o.len
      <4>1. o.read + i \in Int /\ j - i \in Int OBVIOUS
      <4> QED BY <4>1, ModAdd
    <3>2. (o.read + i) + (j - i) = o.read + j OBVIOUS
    <3> QED BY <3>1, <3>2 DEF Slot
  <2>2. a \in 0 .. o.len - 1 BY <1>1
  <2> HIDE DEF a
  <2>3. j - i \in 0 .. o.len BY <1>3
  <2>4. Slot(o, j) = IF a + (j - i) < o.len THEN a + (j - i) ELSE a + (j - i) - o.len
    BY <2>1, <2>2, <2>3, RingPlace
  <2>5. Slot(o, j) # a BY <1>3, <2>2, <2>4
  <2> QED BY <2>5 DEF a
<1> QED BY <1>1, <1>2, <1>3
LEMMA SlotShift ==
  ASSUME NEW o, NEW o1, o.len \in Nat \ {0}, o.read \in Int, o1.len = o.len, NEW d \in Int, o1.read = Slot(o, d),
         NEW i \in Int
  PROVE  Slot(o1, i) = Slot(o, d + i)
<1>1. (((o.read + d) % o.len) + i) % o.len = ((o.read + d) + i) % o.len
  <2>1. o.read + d \in Int OBVIOUS
  <2> QED BY <2>1, ModAdd
<1>2. (o.read + d) + i = o.read + (d + i) OBVIOUS
<1> QED BY <1>1, <1>2 DEF Slot

(* A queue in order, with its places by name.                                *)
LEMMA InOrderSlots ==
  ASSUME NEW o, NEW V, o.len \in Nat, o.n \in Nat, o.read \in Int
  PROVE  InOrder(o, V) <=>
           /\ DOMAIN o.slots = 0 .. o.len - 1 /\ o.read \in 0 .. o.len - 1 /\ o.write = Slot(o, o.n + 1)
           /\ \A i \in 1 .. o.n : Inside(o, i) \in V
<1>1. o.read + 1 + o.n = o.read + (o.n + 1) OBVIOUS
<1> QED BY <1>1 DEF InOrder, Inside, Slot

Others(o, o1) ==
  /\ o1.kind = o.kind /\ o1.len = o.len /\ o1.tx = o.tx /\ o1.rx = o.rx /\ o1.rec = o.rec
  /\ DOMAIN o1 = DOMAIN o
Admits(o, pos) == (~Full(o) \/ pos = "overwrite") /\ (pos = "overwrite" => o.len = 1)
CopiedIn(o, o1, item, pos) ==
  /\ Others(o, o1) /\ o1.holder = Nothing /\ o1.out = o.out
  /\ o1.n = IF pos = "overwrite" THEN 1 ELSE o.n + 1
  /\ o.kind = "queue" =>
       /\ pos = "back" => Inside(o1, o.n + 1) = item /\ \A i \in 1 .. o.n : Inside(o1, i) = Inside(o, i)
       /\ pos = "front" => Inside(o1, 1) = item /\ \A i \in 1 .. o.n : Inside(o1, i + 1) = Inside(o, i)
       /\ pos = "overwrite" => Inside(o1, 1) = item
LEMMA CopyInFacts ==
  ASSUME NEW o, NEW V, Stocked(o, V), NEW item, o.kind = "queue" => item \in V,
         NEW pos \in {"back", "front", "overwrite"}, Admits(o, pos)
  PROVE  CopiedIn(o, CopyIn(o, item, pos), item, pos) /\ Stocked(CopyIn(o, item, pos), V)
<1> DEFINE o1 == CopyIn(o, item, pos)
           b == [o EXCEPT !.n = IF pos = "overwrite" /\ @ > 0 THEN @ ELSE @ + 1, !.holder = Nothing]
<1>1. /\ QueueFields \subseteq DOMAIN o /\ o.len \in Nat \ {0} /\ o.len > 0 /\ o.n \in 0 .. o.len
      /\ o.kind \in {"queue", "semaphore", "mutex", "recursive", "pool"} /\ Aside(o)
  BY DEF Stocked, Some
<1>2. o.n + 1 \in 1 .. o.len \/ (pos = "overwrite" /\ o.len = 1 /\ o.n \in {0, 1})
  BY <1>1 DEF Admits, Full
<1>3. /\ DOMAIN b = DOMAIN o /\ b.n = (IF pos = "overwrite" THEN 1 ELSE o.n + 1) /\ b.holder = Nothing
      /\ b.kind = o.kind /\ b.len = o.len /\ b.tx = o.tx /\ b.rx = o.rx /\ b.rec = o.rec /\ b.out = o.out
      /\ b.slots = o.slots /\ b.read = o.read /\ b.write = o.write
  <2> DEFINE c == IF pos = "overwrite" /\ o.n > 0 THEN o.n ELSE o.n + 1
  <2>1. b = [o EXCEPT !.n = c, !.holder = Nothing] OBVIOUS
  <2>2. c = (IF pos = "overwrite" THEN 1 ELSE o.n + 1) BY <1>1, <1>2 DEF Admits
  <2> HIDE DEF c, b
  <2> QED BY <1>1, <2>1, <2>2 DEF QueueFields
<1>4. b.n \in 0 .. b.len BY <1>1, <1>2, <1>3
<1>5. o1 = IF o.kind # "queue" THEN b
           ELSE IF pos = "back" THEN [b EXCEPT !.slots[o.write] = item, !.write = (o.write + 1) % o.len]
           ELSE [b EXCEPT !.slots[o.read] = item, !.read = (o.read - 1) % o.len]
  BY <1>3 DEF CopyIn, b
<1> HIDE DEF b, o1
<1>6. CASE o.kind # "queue"
  <2>1. o1 = b BY <1>5, <1>6
  <2> QED BY <1>1, <1>3, <1>4, <1>6, <2>1 DEF CopiedIn, Others, Stocked, Aside, Some, o1
<1>7. CASE o.kind = "queue"
  <2>1. /\ DOMAIN o.slots = 0 .. o.len - 1 /\ o.read \in 0 .. o.len - 1 /\ o.write = Slot(o, o.n + 1)
        /\ \A i \in 1 .. o.n : Inside(o, i) \in V
    <3>1. InOrder(o, V) /\ o.read \in 0 .. o.len - 1 BY <1>7 DEF Stocked, InOrder
    <3>2. o.read \in Int /\ o.n \in Nat /\ o.len \in Nat BY <1>1, <3>1
    <3> QED BY <3>1, <3>2, InOrderSlots
  <2>2. /\ \A i \in Int : Slot(o, i) \in 0 .. o.len - 1
        /\ Slot(o, 0) = o.read
        /\ \A i, j \in Int : i < j /\ j - i < o.len => Slot(o, i) # Slot(o, j)
    BY <1>1, <2>1, SlotFacts
  <2>3. CASE pos = "back"
    <3> DEFINE w == o.write
               v == (o.write + 1) % o.len
    <3>1. o1 = [b EXCEPT !.slots[w] = item, !.write = v] BY <1>5, <1>7, <2>3
    <3>2. v = Slot(o, o.n + 2)
      <4>1. (((o.read + (o.n + 1)) % o.len) + 1) % o.len = ((o.read + (o.n + 1)) + 1) % o.len
        <5> DEFINE x == o.read + (o.n + 1)
        <5>1. x \in Int /\ 1 \in Int BY <1>1, <2>1
        <5> HIDE DEF x
        <5>2. ((x % o.len) + 1) % o.len = (x + 1) % o.len BY <1>1, <5>1, ModAdd
        <5> QED BY <5>2 DEF x
      <4>2. (o.read + (o.n + 1)) + 1 = o.read + (o.n + 2) BY <1>1, <2>1
      <4> QED BY <2>1, <4>1, <4>2 DEF Slot
    <3> HIDE DEF v
    <3>3. /\ Others(o, o1) /\ o1.holder = Nothing /\ o1.out = o.out /\ o1.n = o.n + 1 /\ o1.read = o.read
          /\ o1.slots = [o.slots EXCEPT ![w] = item] /\ o1.write = v
      BY <1>1, <1>3, <2>3, <3>1 DEF Others, QueueFields
    <3>4. o.n + 1 \in 1 .. o.len BY <1>2, <2>3
    <3>5. w \in 0 .. o.len - 1 /\ w = Slot(o, o.n + 1) BY <1>1, <2>1, <2>2
    <3>6. \A i : Slot(o1, i) = Slot(o, i) BY <3>3 DEF Slot, Others
    <3>7. Inside(o1, o.n + 1) = item BY <2>1, <3>3, <3>5, <3>6 DEF Inside
    <3>8. ASSUME NEW i \in 1 .. o.n PROVE Inside(o1, i) = Inside(o, i)
      <4>1. i \in Int /\ o.n + 1 \in Int /\ i < o.n + 1 /\ (o.n + 1) - i < o.len BY <1>1, <3>4
      <4>2. Slot(o, i) # w /\ Slot(o, i) \in 0 .. o.len - 1 BY <2>2, <3>5, <4>1
      <4> QED BY <2>1, <3>3, <3>6, <4>2 DEF Inside
    <3>9. \A i \in 1 .. o1.n : Inside(o1, i) \in V
      <4>1. \A i \in 1 .. o1.n : i \in 1 .. o.n \/ i = o.n + 1 BY <1>1, <3>3
      <4> QED BY <1>7, <2>1, <3>7, <3>8, <4>1
    <3>10. InOrder(o1, V)
      <4>1. o1.len = o.len /\ o1.n + 1 = o.n + 2 /\ o1.n \in Nat /\ o1.read \in Int /\ o1.len \in Nat
        BY <1>1, <2>1, <3>3 DEF Others
      <4>2. DOMAIN o1.slots = 0 .. o1.len - 1 /\ o1.read \in 0 .. o1.len - 1 BY <2>1, <3>3, <4>1
      <4>3. o1.write = Slot(o1, o1.n + 1) BY <3>2, <3>3, <3>6, <4>1
      <4> QED BY <3>9, <4>1, <4>2, <4>3, InOrderSlots
    <3>11. Stocked(o1, V) BY <1>1, <3>3, <3>4, <3>10 DEF Stocked, Others, Aside, Some
    <3> QED BY <2>3, <3>3, <3>7, <3>8, <3>11 DEF CopiedIn, o1
  <2>4. CASE pos # "back"
    <3> DEFINE r == (o.read - 1) % o.len
    <3>1. o1 = [b EXCEPT !.slots[o.read] = item, !.read = r] BY <1>5, <1>7, <2>4
    <3>2. r = Slot(o, -1) BY <1>1, <2>1 DEF Slot
    <3> HIDE DEF r
    <3>3. /\ Others(o, o1) /\ o1.holder = Nothing /\ o1.out = o.out /\ o1.n = b.n /\ o1.read = r
          /\ o1.slots = [o.slots EXCEPT ![o.read] = item] /\ o1.write = o.write
      BY <1>1, <1>3, <2>4, <3>1 DEF Others, QueueFields
    <3>4. \A i \in Int : Slot(o1, i) = Slot(o, i - 1)
      <4>1. \A i \in Int : -1 + i = i - 1 OBVIOUS
      <4>2. o1.len = o.len /\ o1.read = Slot(o, -1) /\ o.read \in Int /\ -1 \in Int BY <2>1, <3>2, <3>3 DEF Others
      <4> HIDE DEF b
      <4>3. \A i \in Int : Slot(o1, i) = Slot(o, -1 + i) BY <1>1, <4>2, SlotShift
      <4> QED BY <4>1, <4>3
    <3>5. Inside(o1, 1) = item
      <4>1. Slot(o1, 1) = o.read BY <2>2, <3>4
      <4> QED BY <2>1, <3>3, <4>1 DEF Inside
    <3>6. ASSUME NEW i \in 1 .. o.n, pos = "front" PROVE Inside(o1, i + 1) = Inside(o, i)
      <4>1. Slot(o1, i + 1) = Slot(o, i)
        <5>1. i + 1 \in Int /\ (i + 1) - 1 = i OBVIOUS
        <5> QED BY <3>4, <5>1
      <4>2. i \in Int /\ 0 < i /\ i - 0 < o.len BY <1>1, <1>2, <3>6
      <4>3. Slot(o, i) # o.read /\ Slot(o, i) \in 0 .. o.len - 1 BY <2>2, <4>2
      <4> QED BY <2>1, <3>3, <4>1, <4>3 DEF Inside
    <3>7. o1.write = Slot(o1, o1.n + 1) /\ o1.n \in Nat
      <4>1. CASE pos = "front"
        <5>1. o1.n = o.n + 1 /\ o1.n + 1 \in Int /\ (o1.n + 1) - 1 = o.n + 1 BY <1>1, <1>3, <3>3, <4>1
        <5>2. Slot(o1, o1.n + 1) = Slot(o, o.n + 1) BY <3>4, <5>1
        <5>3. o1.write = Slot(o, o.n + 1) BY <2>1, <3>3
        <5>4. o1.n \in Nat BY <1>1, <5>1
        <5> QED BY <5>2, <5>3, <5>4
      <4>2. CASE pos = "overwrite"
        <5>1. o.len = 1 /\ o1.n = 1 /\ o1.n + 1 \in Int /\ (o1.n + 1) - 1 \in Int /\ o.n + 1 \in Int
          BY <1>1, <1>3, <3>3, <4>2 DEF Admits
        <5>2. Slot(o1, o1.n + 1) \in 0 .. o.len - 1 /\ o.write \in 0 .. o.len - 1 BY <2>1, <2>2, <3>4, <5>1
        <5> QED BY <3>3, <5>1, <5>2
      <4> QED BY <2>4, <4>1, <4>2
    <3>8. \A i \in 1 .. o1.n : Inside(o1, i) \in V
      <4>1. CASE pos = "front"
        <5>1. \A i \in 1 .. o1.n : i = 1 \/ (i - 1 \in 1 .. o.n /\ i = (i - 1) + 1) BY <1>1, <1>3, <3>3, <4>1
        <5> QED BY <1>7, <2>1, <3>5, <3>6, <4>1, <5>1
      <4>2. CASE pos = "overwrite"
        <5>1. \A i \in 1 .. o1.n : i = 1 BY <1>3, <3>3, <4>2
        <5> QED BY <1>7, <3>5, <5>1
      <4> QED BY <2>4, <4>1, <4>2
    <3>9. InOrder(o1, V)
      <4>1. o1.len = o.len /\ o1.read \in 0 .. o.len - 1 /\ o1.len \in Nat BY <1>1, <2>2, <3>2, <3>3 DEF Others
      <4>2. DOMAIN o1.slots = 0 .. o1.len - 1 /\ o1.read \in Int BY <2>1, <3>3, <4>1
      <4> QED BY <3>7, <3>8, <4>1, <4>2, InOrderSlots
    <3>10. Stocked(o1, V) BY <1>1, <1>3, <1>4, <3>3, <3>9 DEF Stocked, Others, Aside, Some
    <3> QED BY <1>3, <2>4, <3>3, <3>5, <3>6, <3>10 DEF CopiedIn, o1
  <2> QED BY <2>3, <2>4
<1> QED BY <1>6, <1>7

CopiedOut(o, o1) ==
  /\ Others(o, o1) /\ o1.holder = o.holder
  /\ o.kind # "queue" => o1.out = o.out
  /\ o.kind = "queue" => o1.out = Inside(o, 1)
LEMMA CopyOutFacts ==
  ASSUME NEW o, NEW V, Stocked(o, V), o.n # 0
  PROVE  /\ LET o1 == TakeOut(o)
            IN /\ Stocked(o1, V) /\ CopiedOut(o, o1) /\ o1.n = o.n - 1
               /\ o.kind = "queue" => \A i \in 1 .. o.n - 1 : Inside(o1, i) = Inside(o, i + 1)
         /\ LET o1 == Peeked(o)
            IN /\ Stocked(o1, V) /\ CopiedOut(o, o1) /\ o1.n = o.n
               /\ o.kind = "queue" => \A i \in 1 .. o.n : Inside(o1, i) = Inside(o, i)
         /\ o.kind = "queue" => Inside(o, 1) \in V
<1>1. /\ QueueFields \subseteq DOMAIN o /\ o.len \in Nat \ {0} /\ o.len > 0 /\ o.n \in 1 .. o.len
      /\ o.kind \in {"queue", "semaphore", "mutex", "recursive", "pool"} /\ Aside(o)
  BY DEF Stocked, Some
<1>2. CASE o.kind # "queue"
  <2>1. TakeOut(o) = [o EXCEPT !.n = o.n - 1] /\ Peeked(o) = [o EXCEPT !.read = o.read]
    BY <1>2 DEF TakeOut, Peeked, CopyOut
  <2> QED BY <1>1, <1>2, <2>1 DEF Stocked, CopiedOut, Others, Aside, Some, QueueFields
<1>3. CASE o.kind = "queue"
  <2>1. /\ DOMAIN o.slots = 0 .. o.len - 1 /\ o.read \in 0 .. o.len - 1 /\ o.write = Slot(o, o.n + 1)
        /\ \A i \in 1 .. o.n : Inside(o, i) \in V
    <3>1. InOrder(o, V) /\ o.read \in 0 .. o.len - 1 BY <1>3 DEF Stocked, InOrder
    <3>2. o.read \in Int /\ o.n \in Nat /\ o.len \in Nat BY <1>1, <3>1
    <3> QED BY <3>1, <3>2, InOrderSlots
  <2>2. /\ \A i \in Int : Slot(o, i) \in 0 .. o.len - 1
        /\ Slot(o, 0) = o.read
    BY <1>1, <2>1, SlotFacts
  <2> DEFINE o1 == [o EXCEPT !.read = Slot(o, 1), !.out = Inside(o, 1)]
             o2 == TakeOut(o)
             o3 == Peeked(o)
  <2>3. CopyOut(o) = o1 BY <1>3 DEF CopyOut, Inside, Slot
  <2>4. o2 = [o EXCEPT !.read = Slot(o, 1), !.out = Inside(o, 1), !.n = o.n - 1]
    <3>1. o1.n = o.n BY <1>1 DEF QueueFields
    <3> QED BY <2>3, <3>1 DEF TakeOut
  <2>5. o3 = [o EXCEPT !.out = Inside(o, 1)]
    <3>1. o3 = [o1 EXCEPT !.read = o.read] BY <2>3 DEF Peeked
    <3> QED BY <1>1, <3>1 DEF QueueFields
  <2> HIDE DEF o1, o2, o3
  <2>6. /\ CopiedOut(o, o2) /\ o2.n = o.n - 1 /\ o2.read = Slot(o, 1) /\ o2.slots = o.slots /\ o2.write = o.write
    BY <1>1, <1>3, <2>4 DEF CopiedOut, Others, QueueFields
  <2>7. /\ CopiedOut(o, o3) /\ o3.n = o.n /\ o3.read = o.read /\ o3.slots = o.slots /\ o3.write = o.write
    BY <1>1, <1>3, <2>5 DEF CopiedOut, Others, QueueFields
  <2>8. \A i : Inside(o3, i) = Inside(o, i) BY <2>7 DEF Inside, Slot, CopiedOut, Others
  <2>9. \A i \in Int : Slot(o2, i) = Slot(o, 1 + i)
    <3>1. o2.len = o.len /\ o.read \in Int /\ 1 \in Int BY <2>1, <2>6 DEF CopiedOut, Others
    <3> QED BY <1>1, <2>6, <3>1, SlotShift
  <2>10. \A i \in Int : Inside(o2, i) = Inside(o, 1 + i) BY <2>6, <2>9 DEF Inside
  <2>11. \A i \in 1 .. o.n - 1 : Inside(o2, i) = Inside(o, i + 1) /\ i + 1 \in 1 .. o.n
    <3>1. \A i \in 1 .. o.n - 1 : 1 + i = i + 1 /\ i \in Int /\ i + 1 \in 1 .. o.n BY <1>1
    <3> QED BY <2>10, <3>1
  <2>12. InOrder(o2, V)
    <3>1. o2.len = o.len /\ o2.n \in Nat /\ o2.n + 1 \in Int /\ 1 + (o2.n + 1) = o.n + 1 /\ o2.len \in Nat
      BY <1>1, <2>6 DEF CopiedOut, Others
    <3>2. o2.write = Slot(o2, o2.n + 1) BY <2>1, <2>6, <2>9, <3>1
    <3>3. o2.read \in 0 .. o2.len - 1 BY <2>2, <2>6, <3>1
    <3>4. DOMAIN o2.slots = 0 .. o2.len - 1 /\ o2.read \in Int BY <2>1, <2>6, <3>1, <3>3
    <3>5. \A i \in 1 .. o2.n : Inside(o2, i) \in V BY <2>1, <2>6, <2>11
    <3> QED BY <3>1, <3>2, <3>3, <3>4, <3>5, InOrderSlots
  <2>13. InOrder(o3, V)
    <3>1. o3.len = o.len /\ o3.n \in Nat /\ o3.read \in Int /\ o3.len \in Nat
      BY <1>1, <2>1, <2>7 DEF CopiedOut, Others
    <3>2. o3.write = Slot(o3, o3.n + 1) BY <2>1, <2>7, <3>1 DEF Slot
    <3> QED BY <2>1, <2>7, <2>8, <3>1, <3>2, InOrderSlots
  <2>14. Stocked(o2, V) /\ Stocked(o3, V)
    BY <1>1, <2>6, <2>7, <2>12, <2>13 DEF Stocked, CopiedOut, Others, Aside, Some
  <2>15. Inside(o, 1) \in V BY <1>1, <2>1
  <2> QED BY <1>3, <2>6, <2>7, <2>8, <2>11, <2>14, <2>15 DEF o2, o3
<1> QED BY <1>2, <1>3
LEMMA EmptiedFacts ==
  ASSUME NEW o, NEW V, Stocked(o, V)
  PROVE  LET o1 == Emptied(o)
         IN /\ Stocked(o1, V) /\ o1.kind = o.kind /\ o1.len = o.len /\ o1.n = 0 /\ o1.holder = o.holder
            /\ o1.out = o.out /\ DOMAIN o1 = DOMAIN o /\ o1.rec = o.rec
<1> DEFINE o1 == Emptied(o)
<1>1. /\ QueueFields \subseteq DOMAIN o /\ o.len \in Nat \ {0} /\ o.len > 0 /\ o.n \in 0 .. o.len
      /\ o.kind \in {"queue", "semaphore", "mutex", "recursive", "pool"} /\ Aside(o)
  BY DEF Stocked, Some
<1>2. /\ o1.kind = o.kind /\ o1.len = o.len /\ o1.n = 0 /\ o1.holder = o.holder /\ o1.slots = o.slots
      /\ o1.out = o.out /\ DOMAIN o1 = DOMAIN o /\ o1.rec = o.rec /\ o1.rx = -1 /\ o1.tx = -1
      /\ o1.write = 0 /\ o1.read = o.len - 1
  BY <1>1 DEF Emptied, QueueFields
<1> HIDE DEF o1
<1>3. (o.len - 1 + 1 + 0) % o.len = 0
  <2>1. o.len - 1 + 1 + 0 = 1 * o.len + 0 /\ 0 \in 0 .. o.len - 1 BY <1>1
  <2> QED BY <1>1, <2>1, Residue
<1>4. o.kind = "queue" => DOMAIN o.slots = 0 .. o.len - 1 BY DEF Stocked, InOrder
<1>5. o.kind = "queue" => InOrder(o1, V)
  <2>1. o1.read + 1 + o1.n = o.len - 1 + 1 + 0 /\ o1.read \in 0 .. o1.len - 1 BY <1>1, <1>2
  <2>2. o1.write = (o1.read + 1 + o1.n) % o1.len BY <1>2, <1>3, <2>1
  <2>3. \A i \in 1 .. o1.n : FALSE BY <1>2
  <2> QED BY <1>2, <1>4, <2>1, <2>2, <2>3 DEF InOrder
<1> QED BY <1>1, <1>2, <1>5 DEF Stocked, Aside, Some, o1
LEMMA Resourced ==
  ASSUME NEW o, NEW V, Stocked(o, V), NEW o1, o1.kind = o.kind, o1.len = o.len, o1.n = o.n, o1.slots = o.slots,
         o1.write = o.write, o1.read = o.read, DOMAIN o1 = DOMAIN o, Aside(o1)
  PROVE  Stocked(o1, V)
BY DEF Stocked, InOrder

LEMMA NewQueueStocked ==
  ASSUME NEW kind \in {"queue", "semaphore", "mutex", "recursive", "pool"}, NEW len \in Some, NEW n \in 0 .. len,
         kind = "queue" => n = 0, NEW V
  PROVE  LET o == NewQueue(kind, len, n)
         IN Stocked(o, V) /\ o.kind = kind /\ o.len = len /\ o.n = n
<1> DEFINE o == NewQueue(kind, len, n)
<1>1. /\ DOMAIN o = QueueFields /\ o.kind = kind /\ o.len = len /\ o.n = n /\ o.tx = -1 /\ o.rx = -1 /\ o.rec = 0
      /\ o.holder = Nothing /\ o.write = 0 /\ o.read = len - 1 /\ DOMAIN o.slots = 0 .. len - 1
  BY DEF NewQueue, QueueFields
<1> HIDE DEF o
<1>2. len \in Nat \ {0} BY DEF Some
<1>3. (len - 1 + 1 + 0) % len = 0
  <2> DEFINE x == len - 1 + 1 + 0
  <2>1. x = 1 * len + 0 /\ 0 \in 0 .. len - 1 /\ 1 \in Int /\ x \in Int BY <1>2
  <2> HIDE DEF x
  <2>2. x % len = 0 BY <1>2, <2>1, Residue
  <2> QED BY <2>2 DEF x
<1>4. kind = "queue" => InOrder(o, V) BY <1>1, <1>2, <1>3 DEF InOrder
<1> QED BY <1>1, <1>2, <1>4 DEF Stocked, Aside, o

(* The queues of the system.                                                 *)
LEMMA Stands ==
  ASSUME ServicesInv, NEW q \in QueueObjects, obj[q].kind # "none"
  PROVE  Stocked(obj[q], Stock(q))
BY Assumed DEF ServicesInv, ObjectsSound, QueueObjects, QueueSound, NoObject, Stock
LEMMA Restocked ==
  ASSUME ServicesInv, NEW q \in QueueObjects, obj[q].kind # "none", NEW o1, Stocked(o1, Stock(q)),
         o1.kind = obj[q].kind, o1.len = obj[q].len
  PROVE  Suited(q, o1)
<1>1. q \in Queues => QueueSound(o1, q, program)
  BY Assumed DEF ServicesInv, ObjectsSound, QueueSound, NoObject, Stock
<1>2. q = TimerQueue => Stocked(o1, Messages) /\ o1.kind = "queue"
  BY DEF ServicesInv, ObjectsSound, Stock
<1> QED BY <1>1, <1>2, Assumed DEF Suited, Names, QueueObjects
LEMMA Overwritable ==
  ASSUME ServicesInv, NEW q \in Queues, obj[q].kind # "none",
         \A m \in Makes(program, q) : m.kind # "none" => m.len = 1
  PROVE  obj[q].len = 1
BY DEF ServicesInv, ObjectsSound, QueueSound, NoObject

(* A task that tries to put, to take or to look.                             *)
LEMMA Tryers ==
  ASSUME ServicesInv, pc[k.cur] \in {"user", "try"}, NEW f \in Trying
  PROVE  /\ k.cur \in Callers /\ k.susp = 0 /\ Queueing(f, obj, program)
<1>1. CASE pc[k.cur] = "try"
  <2>1. f = frame[k.cur] BY <1>1 DEF Trying, Here
  <2> QED BY <1>1, <2>1, Running DEF Places, AtQueue, AtTimers, StreamPlaces, Suspends
<1>2. CASE pc[k.cur] = "user"
  <2>1. PICK c \in program.calls[k.cur] : c.op \in {"send", "receive", "peek", "take"} /\ Legal(c) /\ f = Begin(c)
    BY <1>2 DEF Trying
  <2>2. k.cur \in Callers /\ c \in TaskCalls BY <2>1, Running, CallKnown DEF ServicesInv
  <2>3. c \in Puts(Ticks) \cup Timely({"receive", "peek", "take"}, Queues) BY <2>1, <2>2, QueueCallKnown
  <2>4. /\ c.on \in Queues /\ c.ticks \in Ticks /\ {"op", "on"} \subseteq DOMAIN c
        /\ c.op = "send" =>
             /\ {"item", "pos"} \subseteq DOMAIN c
             /\ c.item \in Items \/ (c.item = Nothing /\ c.pos = "back")
             /\ c.pos \in {"back", "front", "overwrite"}
        /\ DOMAIN c \cap {"to", "entered", "inherited", "next", "blocks"} = {}
    <3>1. 0 \in Ticks BY TaskListsAssumption DEF Ticks
    <3> QED BY <2>1, <2>3, <3>1 DEF Puts, Timely
  <2>5. /\ DOMAIN f = DOMAIN c \cup {"to", "entered", "inherited", "next", "blocks"}
        /\ \A x \in DOMAIN c : f[x] = c[x]
        /\ f.to = [ovf |-> 0, at |-> 0, left |-> c.ticks] /\ f.inherited = FALSE /\ f.blocks = FALSE
    BY <2>1, <2>4 DEF Begin, Joined
  <2>6. f.op = c.op /\ f.on = c.on /\ (c.op = "send" => f.item = c.item /\ f.pos = c.pos)
    BY <2>4, <2>5
  <2>7. c.op = "send" /\ c.pos = "overwrite" => Overwrites(f, program)
    <3>1. c.op = "send" => c \in AskedOf(program, c.on, {"send"}) BY <2>1, Running DEF AskedOf
    <3>2. Suits(program, c.on) BY <2>4, Assumed DEF Sensible, ServicesInv
    <3> QED BY <2>6, <3>1, <3>2 DEF Suits, Overwrites
  <2>8. f.on \in QueueObjects /\ f.on # TimerQueue /\ Stock(f.on) = Items
    BY <2>4, <2>6, Assumed DEF QueueObjects, Stock
  <2>9. Asks(f, obj, program)
    BY <2>1, <2>4, <2>6, <2>7, <2>8, Assumed DEF Asks, Legal
  <2>10. Deadline(f.to) BY <2>4, <2>5 DEF Deadline
  <2>11. Queueing(f, obj, program) BY <2>1, <2>4, <2>5, <2>6, <2>9, <2>10 DEF Queueing
  <2>12. k.susp = 0 BY <1>2, Running, <2>2 DEF Suspends, Places, AtQueue, AtTimers, StreamPlaces, NoCall
  <2> QED BY <2>2, <2>11, <2>12
<1> QED BY <1>1, <1>2

-----------------------------------------------------------------------------
(* The queue's steps.                                                        *)
LEMMA CallOver ==
  ASSUME ServicesInv, NEW from, NEW next, Moves(from, "user", next), Leave, k.cur \in Callers,
         Calm(next, IdleTask), next.cur = k.cur, next.susp = 0, Settled, obj'["timers"] = obj["timers"]
  PROVE  ServicesInv'
<1>1. GoneTo("user", NoCall) /\ k' = next BY MovesOn
<1>2. Arrives("user", NoCall) BY <1>1 DEF Arrives, Places, Suspends, NoCall
<1> QED BY <1>1, <1>2, CallerKeeps DEF Callers
LEMMA AskedStands ==
  ASSUME ServicesInv, NEW f, Queueing(f, obj, program), Can(f)
  PROVE  /\ f.on \in QueueObjects /\ obj[f.on].kind # "none" /\ Stocked(obj[f.on], Stock(f.on))
         /\ f.op = "send" => /\ f.pos \in {"back", "front", "overwrite"} /\ Admits(obj[f.on], f.pos)
                             /\ obj[f.on].kind = "queue" => f.item \in Stock(f.on)
         /\ f.op # "send" => obj[f.on].n # 0
<1>1. f.on \in QueueObjects /\ obj[f.on].kind # "none" BY DEF Queueing, Asks
<1>2. Stocked(obj[f.on], Stock(f.on)) BY <1>1, Stands
<1>3. ASSUME f.op = "send", f.pos = "overwrite" PROVE obj[f.on].len = 1
  <2>1. f.on \in Queues BY <1>1, <1>3 DEF Queueing, Asks, QueueObjects
  <2> QED BY <1>1, <1>3, <2>1, Overwritable DEF Queueing, Asks, Overwrites
<1> QED BY <1>1, <1>2, <1>3 DEF Queueing, Asks, Can, Admits, Empty
LEMMA CalmSent ==
  ASSUME ServicesInv, NEW f, f.on \in QueueObjects
  PROVE  Calm(Sent(f), IdleTask) /\ Sent(f).cur = k.cur /\ Sent(f).susp = k.susp
<1> DEFINE mutex == IsMutex(obj[f.on])
           k1 == IF mutex THEN Disinherit(k) ELSE k
           e == Rx(f.on)
<1>1. Calm(k1, IdleTask) /\ k1.cur = k.cur /\ k1.susp = k.susp
  BY CalmDisinherits, Assumed DEF ServicesInv
<1>2. Sent(f) = IF k1.events[e] # <<>> THEN WakeOne(k1, e) ELSE YieldIf(mutex /\ MustDisinherit(k), k1)
  BY DEF Sent
<1> HIDE DEF mutex, k1
<1>3. Smooth(k1, WakeOne(k1, e), IdleTask) BY <1>1, CalmWoken, Assumed
<1>4. Smooth(k1, Yield(k1), IdleTask) BY <1>1, CalmYield, Assumed
<1>5. Sent(f) \in {WakeOne(k1, e), Yield(k1), k1} BY <1>2, Zenon DEF YieldIf
<1> QED BY <1>1, <1>3, <1>4, <1>5 DEF Smooth, Ranks
LEMMA TryToSendKeeps == ASSUME ServicesInv, TryToSend PROVE ServicesInv'
<1>1. PICK f \in Trying : /\ f.op = "send" /\ Can(f)
                          /\ Try("user", Sent(f)) /\ Put(f.on, CopyIn(obj[f.on], f.item, f.pos)) /\ Leave
  BY DEF TryToSend
<1>2. k.cur \in Callers /\ k.susp = 0 /\ Queueing(f, obj, program) BY <1>1, Tryers DEF Try
<1> DEFINE q == f.on
           o1 == CopyIn(obj[q], f.item, f.pos)
<1>3. /\ q \in QueueObjects /\ obj[q].kind # "none" /\ Stocked(obj[q], Stock(q))
      /\ f.pos \in {"back", "front", "overwrite"} /\ Admits(obj[q], f.pos)
      /\ obj[q].kind = "queue" => f.item \in Stock(q)
  BY <1>1, <1>2, AskedStands
<1>4. CopiedIn(obj[q], o1, f.item, f.pos) /\ Stocked(o1, Stock(q)) BY <1>3, CopyInFacts
<1>5. Suited(q, o1) BY <1>3, <1>4, Restocked DEF CopiedIn, Others
<1>6. obj' = [obj EXCEPT ![q] = o1] BY <1>1 DEF Put
<1> HIDE DEF o1
<1>7. Settled /\ obj'["timers"] = obj["timers"] BY <1>5, <1>6, Replaced
<1>8. Calm(Sent(f), IdleTask) /\ Sent(f).cur = k.cur /\ Sent(f).susp = 0 BY <1>2, <1>3, CalmSent
<1> QED BY <1>1, <1>2, <1>7, <1>8, CallOver DEF Try
LEMMA TryToReceiveKeeps == ASSUME ServicesInv, TryToReceive PROVE ServicesInv'
<1>1. PICK f \in Trying : /\ f.op = "receive" /\ Can(f)
                          /\ Try("user", WakeOne(k, Tx(f.on))) /\ Put(f.on, TakeOut(obj[f.on])) /\ Leave
  BY DEF TryToReceive
<1>2. k.cur \in Callers /\ k.susp = 0 /\ Queueing(f, obj, program) BY <1>1, Tryers DEF Try
<1> DEFINE q == f.on
           o1 == TakeOut(obj[q])
<1>3. q \in QueueObjects /\ obj[q].kind # "none" /\ Stocked(obj[q], Stock(q)) /\ obj[q].n # 0
  BY <1>1, <1>2, AskedStands
<1>4. Stocked(o1, Stock(q)) /\ CopiedOut(obj[q], o1) BY <1>3, CopyOutFacts
<1>5. Suited(q, o1) BY <1>3, <1>4, Restocked DEF CopiedOut, Others
<1>6. obj' = [obj EXCEPT ![q] = o1] BY <1>1 DEF Put
<1> HIDE DEF o1
<1>7. Settled /\ obj'["timers"] = obj["timers"] BY <1>5, <1>6, Replaced
<1>8. Smooth(k, WakeOne(k, Tx(q)), IdleTask) BY <1>3, CalmWoken, Assumed DEF ServicesInv
<1> QED BY <1>1, <1>2, <1>7, <1>8, CallOver DEF Try, Smooth, Ranks
LEMMA TryToPeekKeeps == ASSUME ServicesInv, TryToPeek PROVE ServicesInv'
<1>1. PICK f \in Trying : /\ f.op = "peek" /\ Can(f)
                          /\ Try("user", WakeOne(k, Rx(f.on))) /\ Put(f.on, Peeked(obj[f.on])) /\ Leave
  BY DEF TryToPeek
<1>2. k.cur \in Callers /\ k.susp = 0 /\ Queueing(f, obj, program) BY <1>1, Tryers DEF Try
<1> DEFINE q == f.on
           o1 == Peeked(obj[q])
<1>3. q \in QueueObjects /\ obj[q].kind # "none" /\ Stocked(obj[q], Stock(q)) /\ obj[q].n # 0
  BY <1>1, <1>2, AskedStands
<1>4. Stocked(o1, Stock(q)) /\ CopiedOut(obj[q], o1) BY <1>3, CopyOutFacts
<1>5. Suited(q, o1) BY <1>3, <1>4, Restocked DEF CopiedOut, Others
<1>6. obj' = [obj EXCEPT ![q] = o1] BY <1>1 DEF Put
<1> HIDE DEF o1
<1>7. Settled /\ obj'["timers"] = obj["timers"] BY <1>5, <1>6, Replaced
<1>8. Smooth(k, WakeOne(k, Rx(q)), IdleTask) BY <1>3, CalmWoken, Assumed DEF ServicesInv
<1> QED BY <1>1, <1>2, <1>7, <1>8, CallOver DEF Try, Smooth, Ranks
LEMMA TryToTakeKeeps == ASSUME ServicesInv, TryToTake PROVE ServicesInv'
<1>1. PICK f \in Trying :
        LET mutex == IsMutex(obj[f.on])
            k1 == IF mutex THEN HoldsOneMore(k) ELSE k
        IN /\ f.op = "take" /\ Can(f)
           /\ Try(Then(obj[f.on]), WakeOne(k1, Tx(f.on)))
           /\ Put(f.on, [TakeOut(obj[f.on]) EXCEPT !.holder = IF mutex THEN k.cur ELSE Nothing])
           /\ IF Then(obj[f.on]) = "user" THEN Leave ELSE Enter([op |-> "take", on |-> f.on])
  BY DEF TryToTake
<1> DEFINE q == f.on
           k1 == IF IsMutex(obj[q]) THEN HoldsOneMore(k) ELSE k
           o1 == [TakeOut(obj[q]) EXCEPT !.holder = IF IsMutex(obj[q]) THEN k.cur ELSE Nothing]
           to == Then(obj[q])
           f1 == IF to = "user" THEN NoCall ELSE [op |-> "take", on |-> q]
<1>2. k.cur \in Callers /\ k.susp = 0 /\ Queueing(f, obj, program) BY <1>1, Tryers DEF Try
<1>3. q \in QueueObjects /\ obj[q].kind # "none" /\ Stocked(obj[q], Stock(q)) /\ obj[q].n # 0
  BY <1>1, <1>2, AskedStands
<1>4. Stocked(TakeOut(obj[q]), Stock(q)) /\ CopiedOut(obj[q], TakeOut(obj[q])) BY <1>3, CopyOutFacts
<1>5. Stocked(o1, Stock(q)) /\ o1.kind = obj[q].kind /\ o1.len = obj[q].len
  <2> DEFINE o == TakeOut(obj[q])
  <2> HIDE DEF o
  <2>1. Stocked(o, Stock(q)) /\ CopiedOut(obj[q], o) BY <1>4 DEF o
  <2>2. o1 = [o EXCEPT !.holder = IF IsMutex(obj[q]) THEN k.cur ELSE Nothing] BY DEF o
  <2> HIDE DEF o1
  <2>3. QueueFields \subseteq DOMAIN o /\ Aside(o) BY <2>1 DEF Stocked
  <2>4. /\ o1.kind = o.kind /\ o1.len = o.len /\ o1.n = o.n /\ o1.slots = o.slots
        /\ o1.write = o.write /\ o1.read = o.read /\ DOMAIN o1 = DOMAIN o /\ Aside(o1)
    BY <2>2, <2>3, Running DEF QueueFields, Aside
  <2>5. Stocked(o1, Stock(q)) BY <2>1, <2>4, Resourced
  <2> QED BY <2>1, <2>4, <2>5 DEF CopiedOut, Others
<1>6. obj' = [obj EXCEPT ![q] = o1] BY <1>1 DEF Put
<1> HIDE DEF o1
<1>7. Settled /\ obj'["timers"] = obj["timers"] BY <1>3, <1>5, <1>6, Restocked, Replaced
<1>8. Calm(k1, IdleTask) /\ k1.cur = k.cur /\ k1.susp = 0
  <2> DEFINE n == k.held[k.cur] + 1
  <2>1. n \in Int /\ Calm(k, IdleTask) BY Running DEF ServicesInv, Calm
  <2>2. HoldsOneMore(k) = Holds(k, n) BY DEF HoldsOneMore, Holds
  <2> HIDE DEF n
  <2>3. Calm(Holds(k, n), IdleTask) /\ Holds(k, n).cur = k.cur /\ Holds(k, n).susp = k.susp
    BY <2>1, CalmHolds, Assumed
  <2> QED BY <1>2, <2>1, <2>2, <2>3
<1> HIDE DEF k1
<1>9. Smooth(k1, WakeOne(k1, Tx(q)), IdleTask) BY <1>3, <1>8, CalmWoken, Assumed
<1>10. k' = WakeOne(k1, Tx(q)) /\ GoneTo(to, f1) BY <1>1, MovesOn DEF Try, k1
<1>11. obj'[q].kind = obj[q].kind
  BY <1>3, <1>5, <1>6, Running DEF Names
<1>12. Arrives(to, f1)
  <2>1. k'.cur = k.cur /\ k'.susp = 0 BY <1>8, <1>9, <1>10 DEF Smooth, Ranks
  <2>2. q \in Queues BY <1>1, <1>2 DEF Queueing, Asks, QueueObjects
  <2>3. CASE obj[q].kind = "recursive"
    <3>1. to = "count" /\ f1 = [op |-> "take", on |-> q] BY <2>3 DEF Then
    <3> QED BY <1>2, <1>11, <2>1, <2>2, <2>3, <3>1 DEF Arrives, Places, Taking, Suspends
  <2>4. CASE obj[q].kind = "pool"
    <3>1. to = "allot" /\ f1 = [op |-> "take", on |-> q] BY <2>4 DEF Then
    <3> QED BY <1>2, <1>11, <2>1, <2>2, <2>4, <3>1 DEF Arrives, Places, Taking, Suspends
  <2>5. CASE obj[q].kind \notin {"recursive", "pool"}
    <3>1. to = "user" /\ f1 = NoCall BY <2>5 DEF Then
    <3> QED BY <2>1, <3>1 DEF Arrives, Places, Suspends, NoCall
  <2> QED BY <2>3, <2>4, <2>5
<1>13. Calm(k', IdleTask) /\ k.cur # TimerTask BY <1>2, <1>9, <1>10 DEF Smooth, Callers
<1> QED BY <1>7, <1>10, <1>12, <1>13, CallerKeeps

(* A step of the running task from its place to another one.                 *)
LEMMA TaskGoes ==
  ASSUME ServicesInv, NEW from, NEW to, NEW next, NEW f, Moves(from, to, next),
         Enter(f) \/ (UNCHANGED frame /\ f = Here) \/ (Leave /\ f = NoCall),
         Places(to, f, k.cur, obj, program), Settled,
         obj' = obj \/ f = NoCall \/ (Here # NoCall /\ f.on = Here.on) \/ KindKept(f, obj, obj'),
         Calm(next, IdleTask), next.cur = k.cur,
         to # "asserted" => next.susp = IF Suspends(to, f) THEN 1 ELSE 0,
         IF k.cur = TimerTask THEN Sampled(to, f, obj'["timers"]) ELSE obj'["timers"] = obj["timers"]
  PROVE  ServicesInv'
<1>1. k' = next /\ GoneTo(to, f) BY MovesOn DEF Here
<1>2. f # NoCall => KindKept(f, obj, obj') BY Running DEF Settled, KindsKept, KindKept, Here
<1>3. Places(to, f, k.cur, obj', program) BY <1>2, PlacesKept
<1>4. Arrives(to, f) BY <1>1, <1>3 DEF Arrives
<1>5. CASE k.cur = TimerTask
  <2>1. pc'[TimerTask] = to /\ frame'[TimerTask] = f BY <1>1, <1>5 DEF GoneTo
  <2> QED BY <1>1, <1>4, <1>5, <2>1, StepKeeps DEF Settled
<1>6. CASE k.cur # TimerTask BY <1>1, <1>4, <1>6, CallerKeeps
<1> QED BY <1>5, <1>6
LEMMA Requeueing ==
  ASSUME NEW f, NEW o, NEW p, Queueing(f, o, p), NEW g, DOMAIN g = DOMAIN f,
         \A x \in DOMAIN f \ {"to", "entered", "inherited", "next", "blocks"} : g[x] = f[x],
         Deadline(g.to), g.inherited \in BOOLEAN, g.blocks \in BOOLEAN
  PROVE  Queueing(g, o, p) /\ g.op = f.op /\ g.on = f.on
<1>1. g.op = f.op /\ g.on = f.on /\ (f.op = "send" => g.item = f.item /\ g.pos = f.pos)
  BY DEF Queueing
<1> QED BY <1>1 DEF Queueing, Asks, Overwrites

LEMMA TryInVainKeeps == ASSUME ServicesInv, TryInVain PROVE ServicesInv'
<1>1. PICK f \in Trying : Try("user", k) /\ Leave /\ UNCHANGED obj BY DEF TryInVain
<1>2. k.cur \in Callers /\ k.susp = 0 BY <1>1, Tryers DEF Try
<1>3. Settled /\ obj'["timers"] = obj["timers"] BY <1>1, Unreplaced
<1> QED BY <1>1, <1>2, <1>3, CallOver DEF Try, ServicesInv
LEMMA TryAssertsKeeps == ASSUME ServicesInv, TryAsserts PROVE ServicesInv'
<1>1. PICK f \in Trying : Try("asserted", k) /\ Enter(f) /\ UNCHANGED obj BY DEF TryAsserts
<1>2. k.cur \in Callers /\ Queueing(f, obj, program) BY <1>1, Tryers DEF Try
<1>3. Settled /\ obj'["timers"] = obj["timers"] BY <1>1, Unreplaced
<1>4. Places("asserted", f, k.cur, obj, program) BY <1>2 DEF Places, Queueing
<1> QED BY <1>1, <1>2, <1>3, <1>4, TaskGoes DEF Try, ServicesInv, Callers
LEMMA TryWaitsKeeps == ASSUME ServicesInv, TryWaits PROVE ServicesInv'
<1>1. PICK f \in Trying :
        /\ f.to.left # 0 /\ Try("suspend", k) /\ UNCHANGED obj
        /\ Enter(IF f.entered THEN f ELSE [f EXCEPT !.to = TimeOut(k, f.to.left), !.entered = TRUE])
  BY DEF TryWaits
<1>2. k.cur \in Callers /\ k.susp = 0 /\ Queueing(f, obj, program) BY <1>1, Tryers DEF Try
<1>3. Settled /\ obj'["timers"] = obj["timers"] BY <1>1, Unreplaced
<1> DEFINE g == [f EXCEPT !.to = TimeOut(k, f.to.left), !.entered = TRUE]
           h == IF f.entered THEN f ELSE g
<1>4. Queueing(g, obj, program) /\ g.to.left = f.to.left
  <2>1. k.tick \in Int
    <3>1. k.tick \in Ticks BY CalmShape DEF ServicesInv
    <3> QED BY <3>1, TaskListsAssumption DEF Ticks
  <2>2. Deadline(g.to) /\ g.to.left = f.to.left BY <1>2, <2>1 DEF Queueing, Deadline, TimeOut
  <2>3. /\ DOMAIN g = DOMAIN f /\ g.inherited = f.inherited /\ g.blocks = f.blocks
        /\ \A x \in DOMAIN f \ {"to", "entered", "inherited", "next", "blocks"} : g[x] = f[x]
    BY <1>2 DEF Queueing
  <2> HIDE DEF g
  <2>4. Queueing(g, obj, program) BY <1>2, <2>2, <2>3, Requeueing DEF Queueing
  <2> QED BY <2>2, <2>4
<1> HIDE DEF g
<1>5. Queueing(h, obj, program) /\ h.to.left # 0 /\ Enter(h) BY <1>1, <1>2, <1>4 DEF g
<1> HIDE DEF h
<1>6. Places("suspend", h, k.cur, obj, program) BY <1>2, <1>5 DEF Places, AtQueue
<1> QED BY <1>1, <1>2, <1>3, <1>5, <1>6, TaskGoes DEF Try, ServicesInv, Callers, Suspends

(* A task that is to wait at a queue, has waited or wakes for the last time.  *)
LEMMA AtItsQueue ==
  ASSUME ServicesInv, pc[k.cur] \in {"suspend", "lock", "place", "final", "disinherit"}
  PROVE  /\ k.cur \in Callers /\ k.cur # TimerTask /\ k.cur # IdleTask /\ Here # NoCall /\ Queueing(Here, obj, program)
         /\ k.susp = IF pc[k.cur] \in {"lock", "place"} THEN 1 ELSE 0
         /\ pc[k.cur] \in {"suspend", "lock", "place"} => Here.to.left # 0
         /\ pc[k.cur] = "place" => Here.next = "try"
         /\ pc[k.cur] \in {"final", "disinherit"} => Here.op # "send"
         /\ Here.on \in QueueObjects /\ obj[Here.on].kind # "none" /\ Stocked(obj[Here.on], Stock(Here.on))
<1>1. k.cur \in Callers /\ AtQueue(pc[k.cur], Here, obj, program)
  BY Running DEF Places, AtTimers, StreamPlaces, Here
<1>2. Queueing(Here, obj, program) BY <1>1 DEF AtQueue
<1>3. Here.on \in QueueObjects /\ obj[Here.on].kind # "none" /\ Here.op # "none"
  BY <1>2 DEF Queueing, Asks
<1>4. Stocked(obj[Here.on], Stock(Here.on)) BY <1>3, Stands
<1>5. k.susp = IF pc[k.cur] \in {"lock", "place"} THEN 1 ELSE 0 BY Running DEF Suspends
<1> QED BY <1>1, <1>2, <1>3, <1>4, <1>5 DEF AtQueue, NoCall, Callers
(* A queue with other locks, or another holder.                              *)
LEMMA Adjusted ==
  ASSUME ServicesInv, NEW q \in QueueObjects, obj[q].kind # "none", NEW o1, Put(q, o1),
         o1.kind = obj[q].kind, o1.len = obj[q].len, o1.n = obj[q].n, o1.slots = obj[q].slots,
         o1.write = obj[q].write, o1.read = obj[q].read, DOMAIN o1 = DOMAIN obj[q],
         Stocked(obj[q], Stock(q)) => Aside(o1)
  PROVE  Settled /\ obj'["timers"] = obj["timers"]
<1>1. Stocked(obj[q], Stock(q)) BY Stands
<1>2. Stocked(o1, Stock(q)) BY <1>1, Resourced
<1>3. Suited(q, o1) BY <1>2, Restocked
<1> QED BY <1>3, Replaced DEF Put

LEMMA SuspendKeeps == ASSUME ServicesInv, Suspend PROVE ServicesInv'
<1>1. Moves("suspend", "lock", SuspendAll(k)) /\ UNCHANGED <<frame, obj>> /\ pc[k.cur] = "suspend"
  BY DEF Suspend, Goes, Moves
<1>2. k.cur \in Callers /\ k.cur # TimerTask /\ Queueing(Here, obj, program) /\ k.susp = 0 /\ Here.to.left # 0
  BY <1>1, AtItsQueue
<1>3. Settled /\ obj'["timers"] = obj["timers"] BY <1>1, Unreplaced
<1>4. Calm(SuspendAll(k), IdleTask) /\ SuspendAll(k).cur = k.cur /\ SuspendAll(k).susp = 1
  BY <1>2, CalmSuspended, Assumed DEF ServicesInv
<1>5. Places("lock", Here, k.cur, obj, program) BY <1>2 DEF Places, AtQueue
<1>6. Suspends("lock", Here) BY DEF Suspends
<1> QED BY <1>1, <1>2, <1>3, <1>4, <1>5, <1>6, TaskGoes
LEMMA RestFacts ==
  ASSUME ServicesInv, NEW to, Deadline(to), to.left # 0, ~TimedOut(k, to)
  PROVE  Deadline(Rest(k, to)) /\ Rest(k, to).left # 0
<1>1. k.tick \in Int /\ TickRange \in Nat \ {0} /\ MaxDelay = TickRange - 1
  <2>1. k.tick \in Ticks BY CalmShape DEF ServicesInv
  <2> QED BY <2>1, TaskListsAssumption DEF Ticks, MaxDelay
<1>2. CASE to.left = MaxDelay BY <1>2 DEF Rest
<1>3. CASE to.left # MaxDelay
  <2> DEFINE d == k.tick - to.at
             e == d % TickRange
             n == to.left - e
  <2>1. d \in Int BY <1>1 DEF Deadline
  <2> HIDE DEF d
  <2>2. e \in 0 .. TickRange - 1 BY <1>1, <2>1, Division
  <2>3. ~(e >= to.left) BY <1>3 DEF TimedOut, Elapsed, d
  <2>4. Rest(k, to) = [ovf |-> k.ovf, at |-> k.tick, left |-> n] BY <1>3 DEF Rest, TimeOut, Elapsed, d
  <2> HIDE DEF e
  <2>5. n \in Ticks /\ n # 0 BY <1>1, <2>2, <2>3 DEF Ticks, Deadline
  <2> HIDE DEF n
  <2> QED BY <1>1, <2>4, <2>5 DEF Deadline
<1> QED BY <1>2, <1>3
LEMMA LockKeeps == ASSUME ServicesInv, Lock PROVE ServicesInv'
<1> DEFINE expired == TimedOut(k, Here.to)
           to == IF expired THEN [Here.to EXCEPT !.left = 0] ELSE Rest(k, Here.to)
           next == IF ~expired THEN "try" ELSE IF Here.op = "send" THEN "user" ELSE "final"
           f == [Here EXCEPT !.to = to, !.blocks = FALSE, !.next = next]
           l == IF expired THEN "unlockTx" ELSE "place"
           q == Here.on
           o1 == Locked(obj[q])
<1>1. pc[k.cur] = "lock" /\ Moves("lock", l, k) /\ Put(q, o1) /\ Enter(f)
  BY Zenon DEF Lock
<1>2. /\ k.cur \in Callers /\ k.cur # TimerTask /\ Queueing(Here, obj, program) /\ k.susp = 1 /\ Here.to.left # 0
      /\ Here # NoCall /\ q \in QueueObjects /\ obj[q].kind # "none" /\ Stocked(obj[q], Stock(q))
  BY <1>1, AtItsQueue
<1>3. Settled /\ obj'["timers"] = obj["timers"]
  <2>1. QueueFields \subseteq DOMAIN obj[q] /\ Aside(obj[q]) BY <1>2 DEF Stocked
  <2>2. /\ o1.kind = obj[q].kind /\ o1.len = obj[q].len /\ o1.n = obj[q].n /\ o1.slots = obj[q].slots
        /\ o1.write = obj[q].write /\ o1.read = obj[q].read /\ DOMAIN o1 = DOMAIN obj[q] /\ Aside(o1)
    BY <2>1 DEF QueueFields, Aside, Locked
  <2> HIDE DEF o1
  <2> QED BY <1>1, <1>2, <2>2, Adjusted
<1>4. Deadline(to) /\ (~expired => to.left # 0)
  <2>1. Deadline(Here.to) BY <1>2 DEF Queueing
  <2>2. CASE expired
    <3>1. 0 \in Ticks BY TaskListsAssumption DEF Ticks
    <3> QED BY <2>1, <2>2, <3>1 DEF Deadline
  <2>3. CASE ~expired BY <1>2, <2>1, <2>3, RestFacts
  <2> QED BY <2>2, <2>3
<1> HIDE DEF to, expired
<1>5. Queueing(f, obj, program) /\ f.op = Here.op /\ f.on = Here.on /\ f.to = to /\ f.next = next
  <2>1. /\ DOMAIN f = DOMAIN Here /\ f.to = to /\ f.next = next /\ f.blocks = FALSE /\ f.inherited = Here.inherited
        /\ \A x \in DOMAIN Here \ {"to", "entered", "inherited", "next", "blocks"} : f[x] = Here[x]
    BY <1>2 DEF Queueing
  <2> HIDE DEF f, next
  <2>2. Here.inherited \in BOOLEAN BY <1>2 DEF Queueing
  <2> QED BY <1>2, <1>4, <2>1, <2>2, Requeueing
<1> HIDE DEF f
<1>6. Places(l, f, k.cur, obj, program)
  <2>1. Tries(f) BY <1>5 DEF Tries
  <2> QED BY <1>2, <1>4, <1>5, <2>1 DEF Places, AtQueue
<1>7. Suspends(l, f) BY DEF Suspends
<1> QED BY <1>1, <1>2, <1>3, <1>5, <1>6, <1>7, TaskGoes DEF ServicesInv

LEMMA PlaceKeeps == ASSUME ServicesInv, Place PROVE ServicesInv'
<1> DEFINE q == Here.on
           mutex == Here.op = "take" /\ IsMutex(obj[q])
           holder == obj[q].holder
           e == IF Here.op = "send" THEN Tx(q) ELSE Rx(q)
           blocks == IF Here.op = "send" THEN Full(obj[q]) ELSE Empty(obj[q])
           k1 == IF mutex THEN Inherit(k, holder) ELSE k
           next == IF blocks THEN PlaceOnEventList(k1, e, Here.to.left) ELSE k
           inherited == IF blocks /\ mutex THEN Inherited(k, holder) ELSE Here.inherited
           f == [Here EXCEPT !.blocks = blocks, !.inherited = inherited]
<1>1. pc[k.cur] = "place" /\ Moves("place", "unlockTx", next) /\ Enter(f) /\ UNCHANGED obj
  BY Zenon DEF Place
<1>2. /\ k.cur \in Callers /\ k.cur # TimerTask /\ k.cur # IdleTask /\ Queueing(Here, obj, program) /\ k.susp = 1
      /\ Here.to.left # 0 /\ Here # NoCall /\ q \in QueueObjects /\ Here.next = "try"
  BY <1>1, AtItsQueue
<1>3. Settled /\ obj'["timers"] = obj["timers"] BY <1>1, Unreplaced
<1>4. Calm(k1, IdleTask) /\ k1.cur = k.cur /\ k1.susp = 1
  BY <1>2, CalmInherits, Assumed DEF ServicesInv, Regraded
<1> HIDE DEF k1
<1>5. Calm(next, IdleTask) /\ next.cur = k.cur /\ next.susp = 1
  <2>1. Here.to.left \in 1 .. MaxDelay
    BY <1>2, TaskListsAssumption DEF Queueing, Deadline, Ticks, MaxDelay
  <2>2. e \in EventLists BY <1>2, Assumed
  <2> HIDE DEF e
  <2>3. Smooth(k1, PlaceOnEventList(k1, e, Here.to.left), IdleTask)
    BY <1>2, <1>4, <2>1, <2>2, CalmPlaced, Assumed
  <2> QED BY <1>2, <1>4, <2>3 DEF Smooth, Ranks, ServicesInv
<1> HIDE DEF next
<1>6. Queueing(f, obj, program) /\ f.on = Here.on /\ f.next = "try"
  <2>1. blocks \in BOOLEAN /\ inherited \in BOOLEAN
    <3>1. Here.inherited \in BOOLEAN BY <1>2 DEF Queueing
    <3>2. Inherited(k, holder) \in BOOLEAN BY DEF Inherited
    <3>3. Full(obj[q]) \in BOOLEAN /\ Empty(obj[q]) \in BOOLEAN BY DEF Full, Empty
    <3> QED BY <3>1, <3>2, <3>3
  <2> HIDE DEF blocks, inherited
  <2>2. /\ DOMAIN f = DOMAIN Here /\ f.to = Here.to /\ f.next = Here.next /\ f.blocks = blocks
        /\ f.inherited = inherited
        /\ \A x \in DOMAIN Here \ {"to", "entered", "inherited", "next", "blocks"} : f[x] = Here[x]
    BY <1>2 DEF Queueing
  <2> HIDE DEF f
  <2>3. Deadline(f.to) BY <1>2, <2>2 DEF Queueing
  <2> QED BY <1>2, <2>1, <2>2, <2>3, Requeueing
<1> HIDE DEF f
<1>7. Places("unlockTx", f, k.cur, obj, program) BY <1>2, <1>6 DEF Places, AtQueue, Tries
<1>8. Suspends("unlockTx", f) BY DEF Suspends
<1> QED BY <1>1, <1>2, <1>3, <1>5, <1>6, <1>7, <1>8, TaskGoes

(* The wake-ups that are made up for, of a task or of the timer task.        *)
LEMMA AtTheLocks ==
  ASSUME ServicesInv, pc[k.cur] \in {"unlockTx", "unlockRx"}
  PROVE  /\ Here # NoCall /\ Here.on \in QueueObjects /\ obj[Here.on].kind # "none"
         /\ Stocked(obj[Here.on], Stock(Here.on)) /\ k.susp = 1
         /\ Places("unlockRx", Here, k.cur, obj, program) /\ Places("resume", Here, k.cur, obj, program)
         /\ k.cur = TimerTask => Here.next = "commands"
<1>1. \/ k.cur \in Callers /\ AtQueue(pc[k.cur], Here, obj, program)
      \/ k.cur = TimerTask /\ AtTimers(pc[k.cur], Here)
  BY Running DEF Places, StreamPlaces, Here
<1>2. CASE k.cur \in Callers /\ AtQueue(pc[k.cur], Here, obj, program)
  <2>1. Queueing(Here, obj, program) /\ Tries(Here) BY <1>1, <1>2 DEF AtQueue, AtTimers, Callers
  <2>2. Here.op # "none" /\ Here.on \in QueueObjects /\ obj[Here.on].kind # "none"
    BY <2>1 DEF Queueing, Asks
  <2> QED BY <1>2, <2>1, <2>2, Stands, Running DEF Places, AtQueue, Resumable, Suspends, NoCall, Callers
<1>3. CASE k.cur = TimerTask /\ AtTimers(pc[k.cur], Here)
  <2>1. Tending(Here) /\ Here.next = "commands" BY <1>3 DEF AtTimers
  <2>2. Here.op # "none" /\ Here.on = TimerQueue /\ obj[Here.on].kind # "none" /\ Here.on \in QueueObjects
    BY <2>1 DEF Tending, ServicesInv, ObjectsSound, QueueObjects
  <2> QED BY <1>3, <2>1, <2>2, Stands, Running DEF Places, AtTimers, Resumable, Suspends, NoCall
<1> QED BY <1>1, <1>2, <1>3
LEMMA SampledOn ==
  ASSUME ServicesInv, k.cur = TimerTask, pc[TimerTask] \notin {"switch", "asserted"}, NEW l, NEW f,
         l \in {"user", "unlockTx", "unlockRx", "yield", "obtain", "giveBack", "commands", "call"}
           \/ (l = "resume" /\ f.next # "expire")
  PROVE  Sampled(l, f, obj["timers"])
BY DEF ServicesInv, Sampled
LEMMA UnlockTxKeeps == ASSUME ServicesInv, UnlockTx PROVE ServicesInv'
<1> DEFINE q == Here.on
           o1 == [obj[q] EXCEPT !.tx = -1]
           next == WakeAll(Rx(q), obj[q].tx)
<1>1. pc[k.cur] = "unlockTx" /\ Moves("unlockTx", "unlockRx", next) /\ UNCHANGED frame /\ Put(q, o1)
  BY DEF UnlockTx, Goes
<1>2. /\ Here # NoCall /\ q \in QueueObjects /\ obj[q].kind # "none" /\ Stocked(obj[q], Stock(q)) /\ k.susp = 1
      /\ Places("unlockRx", Here, k.cur, obj, program)
  BY <1>1, AtTheLocks
<1>3. QueueFields \subseteq DOMAIN obj[q] /\ Aside(obj[q]) BY <1>2 DEF Stocked
<1>4. Settled /\ obj'["timers"] = obj["timers"]
  <2>1. /\ o1.kind = obj[q].kind /\ o1.len = obj[q].len /\ o1.n = obj[q].n /\ o1.slots = obj[q].slots
        /\ o1.write = obj[q].write /\ o1.read = obj[q].read /\ DOMAIN o1 = DOMAIN obj[q] /\ Aside(o1)
    BY <1>3 DEF QueueFields, Aside
  <2> HIDE DEF o1
  <2> QED BY <1>1, <1>2, <2>1, Adjusted
<1>5. Smooth(k, next, IdleTask) BY <1>2, <1>3, CalmWakesAll, Assumed DEF ServicesInv, Aside
<1> HIDE DEF next
<1>6. Calm(next, IdleTask) /\ next.cur = k.cur /\ next.susp = 1 BY <1>2, <1>5 DEF Smooth, Ranks
<1>7. Suspends("unlockRx", Here) BY DEF Suspends
<1>8. k.cur = TimerTask => Sampled("unlockRx", Here, obj'["timers"]) BY <1>1, <1>4, SampledOn
<1> QED BY <1>1, <1>2, <1>4, <1>6, <1>7, <1>8, TaskGoes
LEMMA UnlockRxKeeps == ASSUME ServicesInv, UnlockRx PROVE ServicesInv'
<1> DEFINE q == Here.on
           o1 == [obj[q] EXCEPT !.rx = -1]
           next == WakeAll(Tx(q), obj[q].rx)
<1>1. pc[k.cur] = "unlockRx" /\ Moves("unlockRx", "resume", next) /\ UNCHANGED frame /\ Put(q, o1)
  BY DEF UnlockRx, Goes
<1>2. /\ Here # NoCall /\ q \in QueueObjects /\ obj[q].kind # "none" /\ Stocked(obj[q], Stock(q)) /\ k.susp = 1
      /\ Places("resume", Here, k.cur, obj, program) /\ (k.cur = TimerTask => Here.next = "commands")
  BY <1>1, AtTheLocks
<1>3. QueueFields \subseteq DOMAIN obj[q] /\ Aside(obj[q]) BY <1>2 DEF Stocked
<1>4. Settled /\ obj'["timers"] = obj["timers"]
  <2>1. /\ o1.kind = obj[q].kind /\ o1.len = obj[q].len /\ o1.n = obj[q].n /\ o1.slots = obj[q].slots
        /\ o1.write = obj[q].write /\ o1.read = obj[q].read /\ DOMAIN o1 = DOMAIN obj[q] /\ Aside(o1)
    BY <1>3 DEF QueueFields, Aside
  <2> HIDE DEF o1
  <2> QED BY <1>1, <1>2, <2>1, Adjusted
<1>5. Smooth(k, next, IdleTask) BY <1>2, <1>3, CalmWakesAll, Assumed DEF ServicesInv, Aside
<1> HIDE DEF next
<1>6. Calm(next, IdleTask) /\ next.cur = k.cur /\ next.susp = 1 BY <1>2, <1>5 DEF Smooth, Ranks
<1>7. Suspends("resume", Here) BY DEF Suspends
<1>8. k.cur = TimerTask => Sampled("resume", Here, obj'["timers"]) BY <1>1, <1>2, <1>4, SampledOn
<1> QED BY <1>1, <1>2, <1>4, <1>6, <1>7, <1>8, TaskGoes

LEMMA FinalKeeps == ASSUME ServicesInv, Final PROVE ServicesInv'
<1>1. pc[k.cur] = "final" /\ UNCHANGED obj BY DEF Final
<1>2. /\ k.cur \in Callers /\ k.cur # TimerTask /\ Here # NoCall /\ Queueing(Here, obj, program) /\ k.susp = 0
      /\ Here.op # "send"
  BY <1>1, AtItsQueue
<1>3. Settled /\ obj'["timers"] = obj["timers"] BY <1>1, Unreplaced
<1>4. CASE \E to \in {"try", "disinherit"} : Goes("final", to, k)
  <2>1. PICK to \in {"try", "disinherit"} : Goes("final", to, k) BY <1>4
  <2>2. Places(to, Here, k.cur, obj, program) BY <1>2, <2>1 DEF Places, AtQueue
  <2>3. ~Suspends(to, Here) BY <2>1 DEF Suspends
  <2> QED BY <1>1, <1>2, <1>3, <2>1, <2>2, <2>3, TaskGoes DEF Goes, ServicesInv
<1>5. CASE Returns("final", k)
  BY <1>2, <1>3, <1>5, CallOver DEF Returns, ServicesInv
<1> QED BY <1>4, <1>5 DEF Final
LEMMA DisinheritStepKeeps == ASSUME ServicesInv, DisinheritStep PROVE ServicesInv'
<1> DEFINE q == Here.on
           w == HighestWaiting(q)
           next == DisinheritAfterTimeout(k, obj[q].holder, w)
<1>1. pc[k.cur] = "disinherit" /\ Returns("disinherit", next) /\ UNCHANGED obj BY DEF DisinheritStep
<1>2. k.cur \in Callers /\ k.susp = 0 /\ q \in QueueObjects BY <1>1, AtItsQueue
<1>3. Settled /\ obj'["timers"] = obj["timers"] BY <1>1, Unreplaced
<1>4. w \in Levels
  <2>1. k.events[Rx(q)] \in Seq(Task) /\ k.order \in [Task -> Urgencies]
    BY <1>2, CalmShape, Assumed DEF ServicesInv, Calm
  <2>2. Priorities \in Nat \ {0} BY TaskListsAssumption
  <2>3. CASE k.events[Rx(q)] = <<>> BY <2>2, <2>3 DEF HighestWaiting, Levels
  <2>4. CASE k.events[Rx(q)] # <<>>
    <3>1. Head(k.events[Rx(q)]) \in Task BY <2>1, <2>4
    <3>2. k.order[Head(k.events[Rx(q)])] \in 1 .. Priorities BY <2>1, <3>1 DEF Urgencies
    <3> QED BY <2>2, <2>4, <3>2 DEF HighestWaiting, Levels
  <2> QED BY <2>3, <2>4
<1> HIDE DEF w
<1>5. Calm(next, IdleTask) /\ next.cur = k.cur /\ next.susp = 0
  <2> DEFINE h == obj[q].holder
  <2> HIDE DEF h
  <2>1. Calm(k, IdleTask) /\ IdleTask \in Task BY Assumed DEF ServicesInv
  <2>2. Calm(DisinheritAfterTimeout(k, h, w), IdleTask)
    BY <1>4, <2>1, CalmDisinheritsLate
  <2>3. \/ DisinheritAfterTimeout(k, h, w) = k
        \/ \E p \in Levels : Regraded(k, DisinheritAfterTimeout(k, h, w), h, p)
    BY <1>4, <2>1, CalmDisinheritsLate
  <2> QED BY <1>2, <2>2, <2>3 DEF Regraded, h
<1> HIDE DEF next
<1> QED BY <1>1, <1>2, <1>3, <1>5, CallOver DEF Returns

(* The calls that are over in one step.                                      *)
LEMMA Called ==
  ASSUME ServicesInv, NEW op, NEW c \in Calls(op)
  PROVE  /\ k.cur \in Callers /\ k.cur # TimerTask /\ k.cur # IdleTask /\ pc[k.cur] = "user" /\ Here = NoCall
         /\ k.susp = 0 /\ c \in program.calls[k.cur] /\ c \in TaskCalls /\ c.op = op
<1>1. pc[k.cur] = "user" /\ c \in program.calls[k.cur] /\ c.op = op BY Zenon DEF Calls
<1>2. k.cur \in Callers /\ c \in TaskCalls BY <1>1, Running, CallKnown DEF ServicesInv
<1>3. Here = NoCall BY <1>1, <1>2, Running DEF Places, AtQueue, AtTimers, StreamPlaces, Here, Callers
<1>4. k.susp = 0 BY <1>1, <1>3, Running DEF Suspends, NoCall, Here
<1> QED BY <1>1, <1>2, <1>3, <1>4 DEF Callers
LEMMA CallsOn ==
  ASSUME ServicesInv, NEW op, NEW c \in Calls(op), NEW next, Moves("user", "user", next), UNCHANGED frame,
         Calm(next, IdleTask), next.cur = k.cur, next.susp = 0, Settled, obj'["timers"] = obj["timers"]
  PROVE  ServicesInv'
<1>1. k.cur # TimerTask /\ Here = NoCall BY Called
<1>2. Places("user", NoCall, k.cur, obj, program) /\ ~Suspends("user", NoCall)
  BY DEF Places, Suspends, NoCall
<1> QED BY <1>1, <1>2, TaskGoes
LEMMA Counted ==
  ASSUME ServicesInv, NEW q \in Queues, obj[q].kind # "none", NEW n, n \in Int,
         Put(q, [obj[q] EXCEPT !.rec = n])
  PROVE  Settled /\ obj'["timers"] = obj["timers"]
<1> DEFINE o1 == [obj[q] EXCEPT !.rec = n]
<1>1. q \in QueueObjects /\ Stocked(obj[q], Stock(q)) BY Stands DEF QueueObjects
<1>2. QueueFields \subseteq DOMAIN obj[q] /\ Aside(obj[q]) BY <1>1 DEF Stocked
<1>3. /\ o1.kind = obj[q].kind /\ o1.len = obj[q].len /\ o1.n = obj[q].n /\ o1.slots = obj[q].slots
      /\ o1.write = obj[q].write /\ o1.read = obj[q].read /\ DOMAIN o1 = DOMAIN obj[q] /\ Aside(o1)
  BY <1>2 DEF QueueFields, Aside
<1> HIDE DEF o1
<1>4. Put(q, o1) BY DEF o1
<1> QED BY <1>1, <1>3, <1>4, Adjusted
LEMMA TakeAgainKeeps == ASSUME ServicesInv, TakeAgain PROVE ServicesInv'
<1>1. PICK c \in Calls("take") :
        /\ obj[c.on].kind = "recursive" /\ Moves("user", "user", k) /\ UNCHANGED frame
        /\ Put(c.on, [obj[c.on] EXCEPT !.rec = obj[c.on].rec + 1])
  BY DEF TakeAgain
<1> DEFINE n == obj[c.on].rec + 1
<1>2. c \in TaskCalls /\ c.op = "take" /\ k.susp = 0 BY Called
<1>3. c.on \in Queues BY <1>2, QueueCallKnown DEF Timely
<1>4. n \in Int
  <2>1. Stocked(obj[c.on], Stock(c.on)) BY <1>1, <1>3, Stands DEF QueueObjects
  <2> QED BY <2>1 DEF Stocked, Aside
<1>5. Put(c.on, [obj[c.on] EXCEPT !.rec = n]) BY <1>1
<1> HIDE DEF n
<1>6. Settled /\ obj'["timers"] = obj["timers"] BY <1>1, <1>3, <1>4, <1>5, Counted
<1> QED BY <1>1, <1>2, <1>6, CallsOn DEF ServicesInv
LEMMA CountTakeKeeps == ASSUME ServicesInv, CountTake PROVE ServicesInv'
<1>1. /\ pc[k.cur] = "count" /\ Returns("count", k)
      /\ Put(Here.on, [obj[Here.on] EXCEPT !.rec = obj[Here.on].rec + 1])
  BY DEF CountTake
<1> DEFINE n == obj[Here.on].rec + 1
<1>2. k.cur \in Callers /\ Taking(Here) /\ obj[Here.on].kind = "recursive" /\ k.susp = 0
  BY <1>1, Running DEF Places, AtQueue, AtTimers, StreamPlaces, Here, Suspends
<1>3. Here.on \in Queues BY <1>2 DEF Taking
<1>4. n \in Int
  <2>1. Stocked(obj[Here.on], Stock(Here.on)) BY <1>2, <1>3, Stands DEF QueueObjects
  <2> QED BY <2>1 DEF Stocked, Aside
<1>5. Put(Here.on, [obj[Here.on] EXCEPT !.rec = n]) BY <1>1
<1> HIDE DEF n
<1>6. Settled /\ obj'["timers"] = obj["timers"] BY <1>2, <1>3, <1>4, <1>5, Counted
<1> QED BY <1>1, <1>2, <1>6, CallOver DEF Returns, ServicesInv
(* A call that goes to the queue.                                            *)
LEMMA BegunFacts ==
  ASSUME NEW c, {"op", "on", "ticks", "item", "pos"} \subseteq DOMAIN c, c.op = "send", c.ticks \in Ticks,
         DOMAIN c \cap {"to", "entered", "inherited", "next", "blocks"} = {},
         c.on \in QueueObjects, obj[c.on].kind # "none",
         obj[c.on].kind = "queue" <=> c.item \in Stock(c.on), c.pos = "back",
         c.item \in Stock(c.on) \/ c.item = Nothing
  PROVE  Queueing(Begin(c), obj, program) /\ Begin(c).op = "send" /\ Begin(c).on = c.on
<1> DEFINE f == Begin(c)
<1>1. /\ DOMAIN f = DOMAIN c \cup {"to", "entered", "inherited", "next", "blocks"}
      /\ \A x \in DOMAIN c : f[x] = c[x]
      /\ f.to = [ovf |-> 0, at |-> 0, left |-> c.ticks] /\ f.inherited = FALSE /\ f.blocks = FALSE
  BY DEF Begin, Joined
<1> HIDE DEF f
<1>2. f.op = "send" /\ f.on = c.on /\ f.item = c.item /\ f.pos = "back" BY <1>1
<1>3. Deadline(f.to) BY <1>1 DEF Deadline
<1>4. Asks(f, obj, program) BY <1>2 DEF Asks
<1>5. Queueing(f, obj, program) BY <1>1, <1>2, <1>3, <1>4 DEF Queueing
<1> QED BY <1>2, <1>5 DEF f
LEMMA GiveRecursiveKeeps == ASSUME ServicesInv, GiveRecursive PROVE ServicesInv'
<1>1. PICK c \in Calls("send") :
        LET last == obj[c.on].rec = 1
        IN /\ obj[c.on].kind = "recursive" /\ c.item = Nothing
           /\ Moves("user", IF last THEN "try" ELSE "user", k)
           /\ IF last THEN Enter(Begin(c)) ELSE UNCHANGED frame
           /\ Put(c.on, [obj[c.on] EXCEPT !.rec = obj[c.on].rec - 1])
  BY DEF GiveRecursive
<1> DEFINE n == obj[c.on].rec - 1
<1>2. c \in TaskCalls /\ c.op = "send" /\ k.susp = 0 /\ k.cur \in Callers /\ k.cur # TimerTask
      /\ c \in program.calls[k.cur]
  BY Called
<1>3. c \in Puts(Ticks) /\ c.on \in Queues /\ c.on \in QueueObjects
  BY <1>2, QueueCallKnown DEF Puts, QueueObjects
<1>4. n \in Int
  <2>1. Stocked(obj[c.on], Stock(c.on)) BY <1>1, <1>3, Stands
  <2> QED BY <2>1 DEF Stocked, Aside
<1>5. Put(c.on, [obj[c.on] EXCEPT !.rec = n]) BY <1>1
<1> HIDE DEF n
<1>6. Settled /\ obj'["timers"] = obj["timers"] BY <1>1, <1>3, <1>4, <1>5, Counted
<1>7. CASE obj[c.on].rec # 1 BY <1>1, <1>2, <1>6, <1>7, CallsOn DEF ServicesInv
<1>8. CASE obj[c.on].rec = 1
  <2> DEFINE f == Begin(c)
  <2>1. Moves("user", "try", k) /\ Enter(f) BY <1>1, <1>8
  <2>2. Queueing(f, obj, program) /\ f.on = c.on
    <3>1. /\ {"op", "on", "ticks", "item", "pos"} \subseteq DOMAIN c /\ c.ticks \in Ticks /\ c.pos = "back"
          /\ DOMAIN c \cap {"to", "entered", "inherited", "next", "blocks"} = {}
      <4>1. 0 \in Ticks BY TaskListsAssumption DEF Ticks
      <4>2. c.item = Nothing BY <1>1
      <4>3. c \in [op : {"send"}, on : Queues, item : {Nothing}, pos : {"back"}, ticks : {0}]
        BY <1>3, <4>2, Assumed DEF Puts
      <4>4. DOMAIN c = {"op", "on", "item", "pos", "ticks"} /\ c.pos = "back" /\ c.ticks = 0 BY <4>3
      <4> QED BY <4>1, <4>4
    <3>2. c.item \notin Stock(c.on) BY <1>1, <1>3, Assumed DEF Stock
    <3>3. obj[c.on].kind = "recursive" /\ c.item = Nothing BY <1>1
    <3> QED BY <1>2, <1>3, <3>1, <3>2, <3>3, BegunFacts
  <2> HIDE DEF f
  <2>3. Places("try", f, k.cur, obj, program) BY <1>2, <2>2 DEF Places, AtQueue
  <2>4. KindKept(f, obj, obj')
    <3>1. obj'[c.on].kind = obj[c.on].kind
      <4>1. obj' = [obj EXCEPT ![c.on] = [obj[c.on] EXCEPT !.rec = n]] BY <1>5 DEF Put
      <4>2. c.on \in DOMAIN obj BY <1>3, Running DEF Names
      <4>3. "kind" \in DOMAIN obj[c.on] BY <1>1, <1>3, Stands DEF Stocked, QueueFields
      <4> QED BY <4>1, <4>2, <4>3
    <3> QED BY <2>2, <3>1 DEF KindKept
  <2> QED BY <1>2, <1>6, <2>1, <2>3, <2>4, TaskGoes DEF ServicesInv, Suspends
<1> QED BY <1>7, <1>8

LEMMA ResetKeeps == ASSUME ServicesInv, Reset PROVE ServicesInv'
<1>1. PICK c \in Calls("reset") :
        /\ obj[c.on].kind # "none" /\ Moves("user", "user", WakeOne(k, Tx(c.on))) /\ UNCHANGED frame
        /\ Put(c.on, Emptied(obj[c.on]))
  BY DEF Reset
<1> DEFINE q == c.on
           o1 == Emptied(obj[q])
<1>2. c \in TaskCalls /\ c.op = "reset" /\ k.susp = 0 BY Called
<1>3. q \in QueueObjects BY <1>2, QueueCallKnown DEF Plain, QueueObjects
<1>4. Stocked(obj[q], Stock(q)) BY <1>1, <1>3, Stands
<1>5. Stocked(o1, Stock(q)) /\ o1.kind = obj[q].kind /\ o1.len = obj[q].len BY <1>4, EmptiedFacts
<1>6. obj' = [obj EXCEPT ![q] = o1] BY <1>1 DEF Put
<1> HIDE DEF o1
<1>7. Settled /\ obj'["timers"] = obj["timers"] BY <1>1, <1>3, <1>5, <1>6, Restocked, Replaced
<1>8. Smooth(k, WakeOne(k, Tx(q)), IdleTask) BY <1>3, CalmWoken, Assumed DEF ServicesInv
<1> QED BY <1>1, <1>2, <1>7, <1>8, CallsOn DEF Smooth, Ranks
LEMMA NewKeeps == ASSUME ServicesInv, New PROVE ServicesInv'
<1>1. PICK c \in Calls("new") :
        /\ obj[c.on].kind = "none" /\ c.len > 0 /\ c.n <= c.len /\ Moves("user", "user", k) /\ UNCHANGED frame
        /\ Put(c.on, NewQueue(c.kind, c.len, c.n))
  BY DEF New
<1> DEFINE q == c.on
           o1 == NewQueue(c.kind, c.len, c.n)
<1>2. c \in TaskCalls /\ c.op = "new" /\ k.susp = 0 /\ k.cur \in Callers /\ c \in program.calls[k.cur] BY Called
<1>3. c \in [op : {"new"}, on : Queues, kind : {"queue", "semaphore", "mutex", "recursive"}, len : Nat, n : Nat]
  BY <1>2, QueueCallKnown
<1>4. c.len \in Some /\ c.n \in 0 .. c.len /\ q \in Queues BY <1>1, <1>3 DEF Some
<1>5. c \in AskedOf(program, q, {"new"}) BY <1>2 DEF AskedOf, Callers
<1>6. c.kind = "queue" => c.n = 0
  BY <1>4, <1>5, Assumed DEF ServicesInv, Sensible, Suits
<1>7. Stocked(o1, Items) /\ o1.kind = c.kind /\ o1.len = c.len BY <1>3, <1>4, <1>6, NewQueueStocked
<1>8. obj' = [obj EXCEPT ![q] = o1] BY <1>1 DEF Put
<1> HIDE DEF o1
<1>9. Suited(q, o1)
  <2>1. QueueSound(o1, q, program) BY <1>5, <1>7 DEF QueueSound, Makes
  <2> QED BY <1>1, <1>4, <2>1, Assumed DEF Suited, Names, QueueObjects
<1>10. Settled /\ obj'["timers"] = obj["timers"] BY <1>8, <1>9, Replaced
<1> QED BY <1>1, <1>2, <1>10, CallsOn DEF ServicesInv
LEMMA DeleteKeeps == ASSUME ServicesInv, Delete PROVE ServicesInv'
<1>1. PICK c \in Calls("delete") :
        /\ obj[c.on].kind # "none" /\ Unused(c.on) /\ Moves("user", "user", k) /\ UNCHANGED frame
        /\ Put(c.on, NoObject)
  BY DEF Delete
<1>2. /\ c \in TaskCalls /\ c.op = "delete" /\ k.susp = 0 /\ k.cur \in Callers
      /\ c \in program.calls[k.cur]
  BY Called
<1>3. c.on \in Queues /\ c \in AskedOf(program, c.on, {"delete"})
  BY <1>2, QueueCallKnown DEF Plain, AskedOf, Callers
<1>4. Suited(c.on, NoObject)
  BY <1>1, <1>3, Assumed DEF Suited, Names, QueueObjects, QueueSound, Unused
<1>5. Settled /\ obj'["timers"] = obj["timers"] BY <1>1, <1>4, Replaced DEF Put
<1> QED BY <1>1, <1>2, <1>5, CallsOn DEF ServicesInv

(* Interrupts at the queues.                                                 *)
LEMMA Disturbs ==
  ASSUME ServicesInv, NEW next, FromISR(next), Smooth(k, next, IdleTask), Settled, obj'["timers"] = obj["timers"]
  PROVE  ServicesInv'
BY InterruptKeeps DEF FromISR
LEMMA Relocks ==
  ASSUME NEW o, NEW V, Stocked(o, V), NEW a, a \in Int, NEW b, b \in Int
  PROVE  LET o1 == [o EXCEPT !.tx = a]
             o2 == [o EXCEPT !.rx = b]
         IN /\ Stocked(o1, V) /\ o1.kind = o.kind /\ o1.len = o.len
            /\ Stocked(o2, V) /\ o2.kind = o.kind /\ o2.len = o.len
<1> DEFINE o1 == [o EXCEPT !.tx = a]
           o2 == [o EXCEPT !.rx = b]
<1>1. QueueFields \subseteq DOMAIN o /\ Aside(o) BY DEF Stocked
<1>2. /\ o1.kind = o.kind /\ o1.len = o.len /\ o1.n = o.n /\ o1.slots = o.slots
      /\ o1.write = o.write /\ o1.read = o.read /\ DOMAIN o1 = DOMAIN o /\ Aside(o1)
  BY <1>1 DEF QueueFields, Aside
<1>3. /\ o2.kind = o.kind /\ o2.len = o.len /\ o2.n = o.n /\ o2.slots = o.slots
      /\ o2.write = o.write /\ o2.read = o.read /\ DOMAIN o2 = DOMAIN o /\ Aside(o2)
  BY <1>1 DEF QueueFields, Aside
<1> HIDE DEF o1, o2
<1> QED BY <1>2, <1>3, Resourced DEF o1, o2
LEMMA SendsFromISRKeeps ==
  ASSUME ServicesInv, NEW q \in QueueObjects, NEW item, NEW pos \in {"back", "front", "overwrite"},
         obj[q].kind = "queue" => item \in Stock(q), pos = "overwrite" => obj[q].kind = "none" \/ obj[q].len = 1,
         SendsFromISR(q, item, pos)
  PROVE  ServicesInv'
<1> DEFINE o == obj[q]
           next == IF o.tx = -1 THEN WakeOne(k, Rx(q)) ELSE k
           o2 == CopyIn(o, item, pos)
           n == IF o2.tx = -1 THEN o2.tx ELSE o2.tx + 1
           o1 == [o2 EXCEPT !.tx = n]
<1>1. o.kind # "none" /\ (~Full(o) \/ pos = "overwrite") /\ FromISR(next) /\ obj' = [obj EXCEPT ![q] = o1]
  BY DEF SendsFromISR, Put
<1>2. Stocked(o, Stock(q)) BY <1>1, Stands
<1>3. CopiedIn(o, o2, item, pos) /\ Stocked(o2, Stock(q)) BY <1>1, <1>2, CopyInFacts DEF Admits
<1> HIDE DEF o2
<1>4. o2.kind = o.kind /\ o2.len = o.len /\ n \in Int BY <1>3 DEF CopiedIn, Others, Stocked, Aside
<1> HIDE DEF n
<1>5. Stocked(o1, Stock(q)) /\ o1.kind = o.kind /\ o1.len = o.len BY <1>3, <1>4, Relocks
<1> HIDE DEF o1
<1>6. Settled /\ obj'["timers"] = obj["timers"] BY <1>1, <1>5, Restocked, Replaced
<1>7. Smooth(k, WakeOne(k, Rx(q)), IdleTask) /\ Smooth(k, k, IdleTask)
  BY CalmWoken, SmoothSelf, Assumed DEF ServicesInv
<1> QED BY <1>1, <1>6, <1>7, Disturbs
LEMMA SendFromISRKeeps == ASSUME ServicesInv, SendFromISR PROVE ServicesInv'
<1>1. PICK c \in Interrupt("send") : SendsFromISR(c.on, c.item, c.pos) BY DEF SendFromISR
<1>2. c \in program.isr /\ c.op = "send" BY DEF Interrupt
<1>3. c \in Puts({0}) BY <1>2, InterruptKnown, InterruptSorts DEF ServicesInv
<1>4. c.on \in Queues /\ c.pos \in {"back", "front", "overwrite"} /\ (c.item \in Items \/ c.item = Nothing)
  BY <1>3 DEF Puts
<1>5. c \in Raised(program, c.on, {"send"}) /\ Suits(program, c.on)
  BY <1>2, <1>4, Assumed DEF ServicesInv, Sensible, Raised
<1>6. QueueSound(obj[c.on], c.on, program) BY <1>4 DEF ServicesInv, ObjectsSound
<1>7. obj[c.on].kind = "queue" => c.item \in Stock(c.on)
  <2>1. ASSUME obj[c.on].kind = "queue" PROVE c.item # Nothing
    <3>1. PICK m \in Makes(program, c.on) : m.kind = "queue" BY <1>6, <2>1 DEF QueueSound, NoObject
    <3> QED BY <1>5, <3>1 DEF Suits
  <2> QED BY <1>4, <2>1, Assumed DEF Stock
<1>8. c.pos = "overwrite" => obj[c.on].kind = "none" \/ obj[c.on].len = 1
  BY <1>5, <1>6 DEF Suits, QueueSound, NoObject
<1> QED BY <1>1, <1>4, <1>7, <1>8, SendsFromISRKeeps DEF QueueObjects
LEMMA OneTaken ==
  ASSUME ServicesInv, NEW q \in QueueObjects, obj[q].kind # "none", obj[q].n # 0
  PROVE  /\ TakeOut(obj[q]).rx \in Int
         /\ \A n \in Int : LET o1 == [TakeOut(obj[q]) EXCEPT !.rx = n]
                           IN Stocked(o1, Stock(q)) /\ o1.kind = obj[q].kind /\ o1.len = obj[q].len
<1> DEFINE o2 == TakeOut(obj[q])
<1>1. Stocked(o2, Stock(q)) /\ CopiedOut(obj[q], o2) BY Stands, CopyOutFacts
<1> HIDE DEF o2
<1>2. o2.kind = obj[q].kind /\ o2.len = obj[q].len /\ o2.rx \in Int BY <1>1 DEF CopiedOut, Others, Stocked, Aside
<1>3. ASSUME NEW n \in Int
      PROVE  LET o1 == [o2 EXCEPT !.rx = n]
             IN Stocked(o1, Stock(q)) /\ o1.kind = obj[q].kind /\ o1.len = obj[q].len
  <2>1. n \in Int OBVIOUS
  <2> QED BY <1>1, <1>2, <2>1, Relocks
<1> QED BY <1>2, <1>3 DEF o2
LEMMA ReceiveFromISRKeeps == ASSUME ServicesInv, ReceiveFromISR PROVE ServicesInv'
<1>1. PICK c \in Interrupt("receive") :
        LET o == obj[c.on]
        IN /\ o.kind # "none" /\ ~Empty(o) /\ FromISR(IF o.rx = -1 THEN WakeOne(k, Tx(c.on)) ELSE k)
           /\ Put(c.on, [TakeOut(o) EXCEPT !.rx = IF TakeOut(o).rx = -1 THEN TakeOut(o).rx ELSE TakeOut(o).rx + 1])
  BY DEF ReceiveFromISR
<1>2. c \in program.isr /\ c.op = "receive" BY DEF Interrupt
<1>3. c.on \in QueueObjects BY <1>2, InterruptKnown, InterruptSorts DEF ServicesInv, QueueObjects
<1> DEFINE o2 == TakeOut(obj[c.on])
           n == IF o2.rx = -1 THEN o2.rx ELSE o2.rx + 1
           o1 == [o2 EXCEPT !.rx = n]
           next == IF obj[c.on].rx = -1 THEN WakeOne(k, Tx(c.on)) ELSE k
<1>4. obj[c.on].kind # "none" /\ obj[c.on].n # 0 /\ FromISR(next) /\ obj' = [obj EXCEPT ![c.on] = o1]
  BY <1>1 DEF Put, Empty
<1>5. Stocked(o1, Stock(c.on)) /\ o1.kind = obj[c.on].kind /\ o1.len = obj[c.on].len
  <2>1. n \in Int BY <1>3, <1>4, OneTaken
  <2> HIDE DEF n
  <2> QED BY <1>3, <1>4, <2>1, OneTaken
<1> HIDE DEF o1
<1>6. Settled /\ obj'["timers"] = obj["timers"] BY <1>3, <1>4, <1>5, Restocked, Replaced
<1>7. Smooth(k, WakeOne(k, Tx(c.on)), IdleTask) /\ Smooth(k, k, IdleTask)
  BY <1>3, CalmWoken, SmoothSelf, Assumed DEF ServicesInv
<1> QED BY <1>4, <1>6, <1>7, Disturbs
LEMMA PeekFromISRKeeps == ASSUME ServicesInv, PeekFromISR PROVE ServicesInv'
<1>1. PICK c \in Interrupt("peek") :
        obj[c.on].kind # "none" /\ obj[c.on].n # 0 /\ FromISR(k) /\ Put(c.on, Peeked(obj[c.on]))
  BY DEF PeekFromISR, Empty
<1>2. c \in program.isr /\ c.op = "peek" BY DEF Interrupt
<1>3. c.on \in QueueObjects BY <1>2, InterruptKnown, InterruptSorts DEF ServicesInv, QueueObjects
<1> DEFINE o1 == Peeked(obj[c.on])
<1>4. Stocked(o1, Stock(c.on)) /\ CopiedOut(obj[c.on], o1) BY <1>1, <1>3, Stands, CopyOutFacts
<1>5. Suited(c.on, o1) BY <1>1, <1>3, <1>4, Restocked DEF CopiedOut, Others
<1>6. obj' = [obj EXCEPT ![c.on] = o1] BY <1>1 DEF Put
<1> HIDE DEF o1
<1>7. Settled /\ obj'["timers"] = obj["timers"] BY <1>5, <1>6, Replaced
<1> QED BY <1>1, <1>7, SmoothSelf, Disturbs DEF ServicesInv

-----------------------------------------------------------------------------
(* Memory pools.                                                             *)
LEMMA PoolStands ==
  ASSUME ServicesInv, NEW q \in Queues,
         AskedOf(program, q, {"release"}) \cup Raised(program, q, {"alloc", "release"}) # {}
  PROVE  /\ q \in QueueObjects /\ obj[q].kind = "pool" /\ Stocked(obj[q], Stock(q))
<1>1. Suits(program, q) /\ QueueSound(obj[q], q, program)
  BY Assumed DEF ServicesInv, Sensible, ObjectsSound
<1> DEFINE kinds == {o.kind : o \in Makes(program, q)}
<1>2. kinds = {"pool"} /\ AskedOf(program, q, {"delete"}) = {}
  BY <1>1 DEF Suits, AskedOf
<1>3. program.objects[q].kind = "pool" BY <1>2 DEF Makes
<1>4. obj[q] # NoObject BY <1>1, <1>2, <1>3 DEF QueueSound, NoObject
<1>5. obj[q].kind = "pool" BY <1>1, <1>2, <1>4 DEF QueueSound
<1> QED BY <1>5, Stands DEF QueueObjects
LEMMA BlocksApart ==
  ASSUME NEW o, NEW V, Stocked(o, V), NEW b
  PROVE  /\ LET o1 == WithoutBlock(o)
            IN /\ Stocked(o1, V) /\ o1.kind = o.kind /\ o1.len = o.len /\ o1.n = o.n /\ o1.tx = o.tx /\ o1.rx = o.rx
         /\ LET o1 == FreeBlock(o, b)
            IN /\ Stocked(o1, V) /\ o1.kind = o.kind /\ o1.len = o.len /\ o1.n = o.n /\ o1.tx = o.tx /\ o1.rx = o.rx
<1> DEFINE o1 == WithoutBlock(o)
           o2 == FreeBlock(o, b)
<1>1. QueueFields \subseteq DOMAIN o /\ Aside(o) BY DEF Stocked
<1>2. \A f \in QueueFields : o1[f] = o[f] /\ o2[f] = o[f]
  <2>1. \A f \in QueueFields : f \notin {"blocks", "created", "taken"} BY DEF QueueFields
  <2> QED BY <1>1, <2>1 DEF WithoutBlock, FreeBlock
<1>3. DOMAIN o1 = DOMAIN o /\ DOMAIN o2 = DOMAIN o BY DEF WithoutBlock, FreeBlock
<1> HIDE DEF o1, o2
<1>4. /\ o1.kind = o.kind /\ o1.len = o.len /\ o1.n = o.n /\ o1.slots = o.slots /\ o1.write = o.write
      /\ o1.read = o.read /\ o1.tx = o.tx /\ o1.rx = o.rx /\ o1.holder = o.holder /\ o1.rec = o.rec
      /\ o2.kind = o.kind /\ o2.len = o.len /\ o2.n = o.n /\ o2.slots = o.slots /\ o2.write = o.write
      /\ o2.read = o.read /\ o2.tx = o.tx /\ o2.rx = o.rx /\ o2.holder = o.holder /\ o2.rec = o.rec
  BY <1>2 DEF QueueFields
<1>5. Aside(o1) /\ Aside(o2) BY <1>1, <1>4 DEF Aside
<1>6. Stocked(o1, V) /\ Stocked(o2, V) BY <1>3, <1>4, <1>5, Resourced
<1> QED BY <1>4, <1>6 DEF o1, o2
LEMMA AllotKeeps == ASSUME ServicesInv, Allot PROVE ServicesInv'
<1> DEFINE o == obj[Here.on]
           o1 == IF None(o) THEN o ELSE WithoutBlock(o)
<1>1. pc[k.cur] = "allot" /\ Returns("allot", k) /\ obj' = [obj EXCEPT ![Here.on] = o1] BY DEF Allot, Put
<1>2. k.cur \in Callers /\ Taking(Here) /\ o.kind = "pool" /\ k.susp = 0
  BY <1>1, Running DEF Places, AtQueue, AtTimers, StreamPlaces, Here, Suspends
<1>3. Here.on \in QueueObjects BY <1>2 DEF Taking, QueueObjects
<1>4. Stocked(o, Stock(Here.on)) BY <1>2, <1>3, Stands
<1>5. Stocked(o1, Stock(Here.on)) /\ o1.kind = o.kind /\ o1.len = o.len BY <1>4, BlocksApart
<1> HIDE DEF o1
<1>6. Settled /\ obj'["timers"] = obj["timers"] BY <1>1, <1>2, <1>3, <1>5, Restocked, Replaced
<1> QED BY <1>1, <1>2, <1>6, CallOver DEF Returns, ServicesInv
LEMMA FreeKeeps == ASSUME ServicesInv, Free PROVE ServicesInv'
<1>1. PICK c \in Calls("release") : \E b \in obj[c.on].taken :
        /\ Moves("user", "try", k) /\ Enter(Begin(Send(c.on, Nothing, "back", 0)))
        /\ Put(c.on, FreeBlock(obj[c.on], b))
  BY DEF Free
<1> DEFINE q == c.on
           s == Send(q, Nothing, "back", 0)
           f == Begin(s)
<1>2. PICK b \in obj[q].taken : Moves("user", "try", k) /\ Enter(f) /\ Put(q, FreeBlock(obj[q], b)) BY <1>1
<1> DEFINE o1 == FreeBlock(obj[q], b)
<1>3. c \in TaskCalls /\ c.op = "release" /\ k.susp = 0 /\ k.cur \in Callers /\ c \in program.calls[k.cur]
      /\ k.cur # TimerTask
  BY Called
<1>4. q \in Queues /\ c \in AskedOf(program, q, {"release"})
  BY <1>3, QueueCallKnown DEF Plain, AskedOf, Callers
<1>5. q \in QueueObjects /\ obj[q].kind = "pool" /\ Stocked(obj[q], Stock(q)) BY <1>4, PoolStands
<1>6. Stocked(o1, Stock(q)) /\ o1.kind = obj[q].kind /\ o1.len = obj[q].len BY <1>5, BlocksApart
<1>7. obj' = [obj EXCEPT ![q] = o1] BY <1>2 DEF Put
<1> HIDE DEF o1
<1>8. Settled /\ obj'["timers"] = obj["timers"] BY <1>5, <1>6, <1>7, Restocked, Replaced
<1>9. Queueing(f, obj, program) /\ f.on = q
  <2>1. /\ DOMAIN s = {"op", "on", "item", "pos", "ticks"} /\ s.op = "send" /\ s.on = q /\ s.item = Nothing
        /\ s.pos = "back" /\ s.ticks = 0
    BY DEF Send
  <2>2. 0 \in Ticks BY TaskListsAssumption DEF Ticks
  <2>3. Nothing \notin Stock(q) BY <1>4, Assumed DEF Stock
  <2> HIDE DEF s
  <2> QED BY <1>5, <2>1, <2>2, <2>3, BegunFacts
<1> HIDE DEF f
<1>10. Places("try", f, k.cur, obj, program) BY <1>3, <1>9 DEF Places, AtQueue
<1>11. KindKept(f, obj, obj') BY <1>5, <1>6, <1>7, <1>9, Running DEF KindKept, Names
<1> QED BY <1>2, <1>3, <1>8, <1>10, <1>11, TaskGoes DEF ServicesInv, Suspends
LEMMA AllocFromISRKeeps == ASSUME ServicesInv, AllocFromISR PROVE ServicesInv'
<1>1. PICK c \in Interrupt("alloc") :
        LET o == obj[c.on]
            o2 == TakeOut(o)
            n == IF o2.rx = -1 THEN o2.rx ELSE o2.rx + 1
        IN /\ ~Empty(o) /\ FromISR(IF o.rx = -1 THEN WakeOne(k, Tx(c.on)) ELSE k)
           /\ Put(c.on, WithoutBlock([o2 EXCEPT !.rx = n]))
  BY DEF AllocFromISR
<1>2. c \in program.isr /\ c.op = "alloc" BY DEF Interrupt
<1>3. c.on \in Queues /\ c \in Raised(program, c.on, {"alloc", "release"})
  BY <1>2, InterruptKnown, InterruptSorts DEF ServicesInv, Plain, Raised
<1> DEFINE o2 == TakeOut(obj[c.on])
           n == IF o2.rx = -1 THEN o2.rx ELSE o2.rx + 1
           o3 == [o2 EXCEPT !.rx = n]
           o1 == WithoutBlock(o3)
           next == IF obj[c.on].rx = -1 THEN WakeOne(k, Tx(c.on)) ELSE k
<1>4. obj[c.on].n # 0 /\ FromISR(next) /\ obj' = [obj EXCEPT ![c.on] = o1]
  BY <1>1 DEF Put, Empty
<1>5. c.on \in QueueObjects /\ obj[c.on].kind # "none" BY <1>3, PoolStands
<1>6. Stocked(o1, Stock(c.on)) /\ o1.kind = obj[c.on].kind /\ o1.len = obj[c.on].len
  <2>1. n \in Int BY <1>4, <1>5, OneTaken
  <2> HIDE DEF n
  <2>2. Stocked(o3, Stock(c.on)) /\ o3.kind = obj[c.on].kind /\ o3.len = obj[c.on].len
    BY <1>4, <1>5, <2>1, OneTaken
  <2> HIDE DEF o3
  <2> QED BY <2>2, BlocksApart
<1> HIDE DEF o1
<1>7. Settled /\ obj'["timers"] = obj["timers"] BY <1>4, <1>5, <1>6, Restocked, Replaced
<1>8. Smooth(k, WakeOne(k, Tx(c.on)), IdleTask) /\ Smooth(k, k, IdleTask)
  BY <1>5, CalmWoken, SmoothSelf, Assumed DEF ServicesInv
<1> QED BY <1>4, <1>7, <1>8, Disturbs
LEMMA FreeFromISRKeeps == ASSUME ServicesInv, FreeFromISR PROVE ServicesInv'
<1>1. PICK c \in Interrupt("release") : \E b \in obj[c.on].taken :
        LET o == FreeBlock(obj[c.on], b)
            o2 == CopyIn(o, Nothing, "back")
            n == IF o2.tx = -1 THEN o2.tx ELSE o2.tx + 1
        IN /\ ~Full(o) /\ FromISR(IF o.tx = -1 THEN WakeOne(k, Rx(c.on)) ELSE k)
           /\ Put(c.on, [o2 EXCEPT !.tx = n])
  BY DEF FreeFromISR
<1>2. c \in program.isr /\ c.op = "release" BY DEF Interrupt
<1>3. c.on \in Queues /\ c \in Raised(program, c.on, {"alloc", "release"})
  BY <1>2, InterruptKnown, InterruptSorts DEF ServicesInv, Plain, Raised
<1>4. PICK b \in obj[c.on].taken :
        LET o == FreeBlock(obj[c.on], b)
            o2 == CopyIn(o, Nothing, "back")
            n == IF o2.tx = -1 THEN o2.tx ELSE o2.tx + 1
        IN /\ ~Full(o) /\ FromISR(IF o.tx = -1 THEN WakeOne(k, Rx(c.on)) ELSE k)
           /\ Put(c.on, [o2 EXCEPT !.tx = n])
  BY <1>1
<1> DEFINE o == FreeBlock(obj[c.on], b)
           o2 == CopyIn(o, Nothing, "back")
           n == IF o2.tx = -1 THEN o2.tx ELSE o2.tx + 1
           o1 == [o2 EXCEPT !.tx = n]
           next == IF o.tx = -1 THEN WakeOne(k, Rx(c.on)) ELSE k
<1>5. ~Full(o) /\ FromISR(next) /\ obj' = [obj EXCEPT ![c.on] = o1] BY <1>4 DEF Put
<1>6. c.on \in QueueObjects /\ obj[c.on].kind = "pool" /\ Stocked(obj[c.on], Stock(c.on)) BY <1>3, PoolStands
<1>7. Stocked(o1, Stock(c.on)) /\ o1.kind = obj[c.on].kind /\ o1.len = obj[c.on].len
  <2>1. Stocked(o, Stock(c.on)) /\ o.kind = obj[c.on].kind /\ o.len = obj[c.on].len BY <1>6, BlocksApart
  <2> HIDE DEF o
  <2>2. Stocked(o2, Stock(c.on)) /\ o2.kind = obj[c.on].kind /\ o2.len = obj[c.on].len
    <3>1. Admits(o, "back") BY <1>5 DEF Admits
    <3>2. CopiedIn(o, o2, Nothing, "back") /\ Stocked(o2, Stock(c.on)) BY <1>6, <2>1, <3>1, CopyInFacts
    <3> QED BY <2>1, <3>2 DEF CopiedIn, Others
  <2> HIDE DEF o2
  <2>3. n \in Int BY <2>2 DEF Stocked, Aside
  <2> HIDE DEF n
  <2> QED BY <2>2, <2>3, Relocks
<1> HIDE DEF o1
<1>8. Settled /\ obj'["timers"] = obj["timers"] BY <1>5, <1>6, <1>7, Restocked, Replaced
<1>9. Smooth(k, WakeOne(k, Rx(c.on)), IdleTask) /\ Smooth(k, k, IdleTask)
  BY <1>6, CalmWoken, SmoothSelf, Assumed DEF ServicesInv
<1> QED BY <1>5, <1>8, <1>9, Disturbs

-----------------------------------------------------------------------------
(* The end of the calls that suspend the scheduler, and what is left of the   *)
(* system's steps.                                                           *)
LEMMA GoesFurther ==
  ASSUME NEW f, NEW t, NEW o, NEW p, Resumable(f, t, o, p), f.next # "user"
  PROVE  Places(f.next, f, t, o, p) /\ f.next \in {"try", "final", "woken", "commands", "expire", "obtain", "giveBack"}
BY DEF Resumable, Places, AtQueue, Tries, AtTimers, Passing, Grouping, Streaming, Tending, Owning
LEMMA ResumableFrame ==
  ASSUME ServicesInv, pc[k.cur] \in {"resume", "yield"}
  PROVE  Resumable(Here, k.cur, obj, program) /\ (pc[k.cur] = "yield" => Here.blocks)
         /\ k.susp = IF pc[k.cur] = "resume" THEN 1 ELSE 0
BY Running DEF Places, AtQueue, AtTimers, StreamPlaces, Here, Suspends
LEMMA ResumedFrom ==
  ASSUME ServicesInv, pc[k.cur] \in {"resume", "yield"}, NEW next, NEW to, Moves(pc[k.cur], to, next), GoesOn(to),
         UNCHANGED obj, to \in {"yield", Here.next}, to = "yield" => pc[k.cur] = "resume" /\ Here.blocks,
         Calm(next, IdleTask), next.cur = k.cur, next.susp = 0
  PROVE  ServicesInv'
<1>1. Resumable(Here, k.cur, obj, program) BY ResumableFrame
<1>2. Settled /\ obj'["timers"] = obj["timers"] BY Unreplaced
<1>3. CASE to = "user"
  <2>1. Places("user", NoCall, k.cur, obj, program) /\ ~Suspends("user", NoCall)
    BY DEF Places, Suspends, NoCall
  <2>2. k.cur = TimerTask => Sampled("user", NoCall, obj["timers"]) BY SampledOn
  <2> QED BY <1>2, <1>3, <2>1, <2>2, TaskGoes DEF GoesOn
<1>4. CASE to = "yield"
  <2>1. Places("yield", Here, k.cur, obj, program) BY <1>1, <1>4 DEF Places
  <2>2. k.cur = TimerTask => Sampled("yield", Here, obj["timers"]) BY SampledOn
  <2>3. ~Suspends("yield", Here) BY DEF Suspends
  <2> QED BY <1>2, <1>4, <2>1, <2>2, <2>3, TaskGoes DEF GoesOn
<1>5. CASE to \notin {"user", "yield"}
  <2>1. to = Here.next /\ Places(to, Here, k.cur, obj, program)
        /\ to \in {"try", "final", "woken", "commands", "expire", "obtain", "giveBack"}
    BY <1>1, <1>5, GoesFurther
  <2>2. ~Suspends(to, Here) BY <2>1 DEF Suspends
  <2>3. k.cur = TimerTask => Sampled(to, Here, obj["timers"])
    <3>1. ASSUME k.cur = TimerTask PROVE to \in {"commands", "obtain", "giveBack", "expire"}
      BY <1>1, <2>1, <3>1 DEF Resumable, Callers, Tending, Owning
    <3>2. ASSUME k.cur = TimerTask, to = "expire" PROVE Sampled(to, Here, obj["timers"])
      <4>1. Tending(Here) /\ Here.blocks = FALSE
        BY <1>1, <2>1, <3>2 DEF Resumable, Callers, Tending, Owning
      <4>2. pc[k.cur] = "resume" BY <4>1, ResumableFrame
      <4> QED BY <2>1, <3>2, <4>2 DEF ServicesInv, Sampled, Here
    <3> QED BY <3>1, <3>2, SampledOn
  <2> QED BY <1>2, <1>5, <2>1, <2>2, <2>3, TaskGoes DEF GoesOn
<1> QED BY <1>3, <1>4, <1>5
LEMMA ResumeKeeps == ASSUME ServicesInv, Resume PROVE ServicesInv'
<1> DEFINE to == IF Here.blocks /\ ~AlreadyYielded(k) THEN "yield" ELSE Here.next
<1>1. pc[k.cur] = "resume" /\ Moves("resume", to, ResumeAll(k)) /\ GoesOn(to) /\ UNCHANGED obj BY DEF Resume
<1>2. Calm(ResumeAll(k), IdleTask) /\ ResumeAll(k).cur = k.cur /\ ResumeAll(k).susp = 0
  BY <1>1, ResumableFrame, CalmResumed, Assumed DEF ServicesInv
<1>3. to \in {"yield", Here.next} /\ (to = "yield" => Here.blocks)
  <2>1. Here.next # "yield"
    BY <1>1, ResumableFrame DEF Resumable, Tries, Passing, Grouping, Streaming, Tending, Owning
  <2> QED BY <2>1
<1> HIDE DEF to
<1> QED BY <1>1, <1>2, <1>3, ResumedFrom
LEMMA YieldWithinAPIKeeps == ASSUME ServicesInv, YieldWithinAPI PROVE ServicesInv'
<1>1. pc[k.cur] = "yield" /\ Moves("yield", Here.next, Yield(k)) /\ GoesOn(Here.next) /\ UNCHANGED obj
  BY DEF YieldWithinAPI
<1>2. Smooth(k, Yield(k), IdleTask) /\ k.susp = 0 BY <1>1, ResumableFrame, CalmYield, Assumed DEF ServicesInv
<1>3. Here.next # "yield"
  BY <1>1, ResumableFrame DEF Resumable, Tries, Passing, Grouping, Streaming, Tending, Owning
<1> QED BY <1>1, <1>2, <1>3, ResumedFrom DEF Smooth, Ranks
LEMMA SuspendedAll ==
  ASSUME Calm(k, IdleTask), k.susp = 0
  PROVE  LET j == SuspendAll(k) IN Calm(j, IdleTask) /\ j.cur = k.cur /\ j.susp = 1 /\ j.events = k.events
BY CalmSuspended, Assumed
LEMMA DelayKeeps == ASSUME ServicesInv, Delay PROVE ServicesInv'
<1>1. PICK c \in Calls("delay") :
        /\ Moves("user", "resume", AddCurrentToDelayed(SuspendAll(k), c.ticks, FALSE))
        /\ Enter([op |-> "delay", on |-> Nothing, next |-> "user", blocks |-> TRUE]) /\ UNCHANGED obj
  BY DEF Delay
<1> DEFINE j == SuspendAll(k)
           next == AddCurrentToDelayed(j, c.ticks, FALSE)
           f == [op |-> "delay", on |-> Nothing, next |-> "user", blocks |-> TRUE]
<1>2. c \in TaskCalls /\ c.op = "delay" /\ k.susp = 0 /\ k.cur \in Callers /\ k.cur # TimerTask /\ k.cur # IdleTask
  BY Called
<1>3. c.ticks \in 1 .. MaxDelay BY <1>2, OtherCallKnown
<1>4. Calm(j, IdleTask) /\ j.cur = k.cur /\ j.susp = 1 BY <1>2, SuspendedAll DEF ServicesInv
<1> HIDE DEF j
<1>5. Smooth(j, next, IdleTask) BY <1>2, <1>3, <1>4, CalmSleeps, Assumed
<1> HIDE DEF next
<1>6. Settled /\ obj'["timers"] = obj["timers"] BY <1>1, Unreplaced
<1>7. Places("resume", f, k.cur, obj, program) BY <1>2 DEF Places, Resumable, Passing
<1>8. Suspends("resume", f) BY DEF Suspends
<1>9. Moves("user", "resume", next) /\ Enter(f) BY <1>1 DEF next, j
<1> HIDE DEF f
<1> QED BY <1>1, <1>2, <1>4, <1>5, <1>6, <1>7, <1>8, <1>9, TaskGoes DEF Smooth, Ranks

LEMMA StandsStill ==
  ASSUME ServicesInv, UNCHANGED <<k, pc, frame, program, obj>>
  PROVE  ServicesInv'
BY DEF ServicesInv, Control
LEMMA OwnCodeKeeps == ASSUME ServicesInv, OwnCode PROVE ServicesInv'
BY StandsStill DEF OwnCode, objectVars
LEMMA InterruptsKeep == ASSUME ServicesInv, Interrupts PROVE ServicesInv'
<1>1. CASE SysTick /\ UNCHANGED obj
  <2> DEFINE r == IncrementTick(k)
             next == [r.kernel EXCEPT !.pendsv = r.switch]
  <2>1. k' = next /\ UNCHANGED <<pc, frame, program>> BY <1>1 DEF SysTick
  <2>2. Smooth(k, next, IdleTask) BY CalmTicked, Assumed DEF ServicesInv
  <2> HIDE DEF next
  <2> QED BY <1>1, <2>1, <2>2, Unreplaced, InterruptKeeps
<1>2. CASE PendSV /\ UNCHANGED obj
  <2> DEFINE next == SwitchContext([k EXCEPT !.pendsv = FALSE])
  <2>1. k' = next /\ UNCHANGED <<pc, frame, program, obj>> /\ pc[k.cur] # "asserted"
    BY <1>2, Zenon DEF PendSV, Halted
  <2>2. Calm(next, IdleTask) /\ next.susp = k.susp /\ (k.susp > 0 => next.cur = k.cur)
    BY CalmSwitched, Assumed DEF ServicesInv
  <2> HIDE DEF next
  <2>3. k'.cur \in Task BY <2>1, <2>2, CalmShape
  <2>4. CASE k.susp > 0 BY <2>1, <2>2, <2>4 DEF ServicesInv, Control
  <2>5. CASE ~(k.susp > 0)
    <3>1. k.susp = 0 BY <2>5, CalmShape DEF ServicesInv
    <3>2. ~Suspends(pc[k.cur], frame[k.cur]) BY <2>1, <3>1, Running
    <3>3. \A t \in Task : ~Suspends(pc[t], frame[t]) BY <3>2 DEF ServicesInv, Control
    <3> QED BY <2>1, <2>2, <2>3, <3>1, <3>3 DEF ServicesInv, Control
  <2> QED BY <2>4, <2>5
<1>3. CASE AssertFailed /\ UNCHANGED obj BY <1>3, StandsStill DEF AssertFailed, schedVars
<1> QED BY <1>1, <1>2, <1>3 DEF Interrupts

(* A call on the heap by a task.                                             *)
LEMMA HeapUseKeeps ==
  ASSUME ServicesInv, NEW op \in {"malloc", "free"}, NEW c \in Calls(op), HeapUse(c)
  PROVE  ServicesInv'
<1> DEFINE f == [op |-> c.op, on |-> Nothing, next |-> "user", blocks |-> FALSE]
           j == SuspendAll(k)
<1>1. Moves("user", "resume", j) /\ Enter(f) /\ UNCHANGED obj BY DEF HeapUse, HeapCall
<1>2. c.op = op /\ k.susp = 0 /\ k.cur \in Callers /\ k.cur # TimerTask BY Called
<1>3. Calm(j, IdleTask) /\ j.cur = k.cur /\ j.susp = 1 BY <1>2, SuspendedAll DEF ServicesInv
<1> HIDE DEF j
<1>4. Settled /\ obj'["timers"] = obj["timers"] BY <1>1, Unreplaced
<1>5. Places("resume", f, k.cur, obj, program) BY <1>2 DEF Places, Resumable, Passing
<1>6. Suspends("resume", f) BY DEF Suspends
<1> HIDE DEF f
<1> QED BY <1>1, <1>2, <1>3, <1>4, <1>5, <1>6, TaskGoes
LEMMA HeapCallsKeep == ASSUME ServicesInv, TaskMalloc \/ TaskFree PROVE ServicesInv'
<1>1. \E op \in {"malloc", "free"} : \E c \in Calls(op) : HeapUse(c) BY DEF TaskMalloc, TaskFree
<1> QED BY <1>1, HeapUseKeeps

-----------------------------------------------------------------------------
(* The making and deleting of objects.                                       *)
LEMMA ThingPut ==
  ASSUME ServicesInv, NEW x \in Things, NEW o1, Put(x, o1)
  PROVE  Settled /\ obj'["timers"] = obj["timers"]
<1>1. Suited(x, o1) BY Assumed DEF Suited, Names, QueueObjects
<1> QED BY <1>1, Replaced DEF Put
LEMMA Owner ==
  ASSUME ServicesInv, pc[k.cur] \in {"obtain", "giveBack"}
  PROVE  /\ Owning(Here) /\ k.susp = 0 /\ Here # NoCall
         /\ pc[k.cur] = "obtain" => Here.op = "make" /\ Here.next = "obtain"
         /\ Here.on \in Things
<1>1. Owning(Here) /\ (pc[k.cur] = "obtain" => Here.op = "make" /\ Here.next = "obtain") /\ k.susp = 0
  BY Running DEF Places, AtQueue, AtTimers, StreamPlaces, Here, Suspends
<1> QED BY <1>1 DEF Owning, NoCall
LEMMA OwnerGoes ==
  ASSUME ServicesInv, NEW from \in {"obtain", "giveBack"}, NEW to \in {"obtain", "giveBack", "resume"}, NEW next,
         Moves(from, to, next), NEW g, Enter(g), DOMAIN g = DOMAIN Here, g.op = Here.op, g.on = Here.on,
         g.blocks = Here.blocks, g.next \in {"obtain", "giveBack"}, g.next = "obtain" => Here.op = "make",
         to \in {"resume", g.next}, UNCHANGED obj, next = IF to = "resume" THEN SuspendAll(k) ELSE k
  PROVE  ServicesInv'
<1>1. Owning(Here) /\ k.susp = 0 /\ pc[k.cur] = from BY Owner DEF Moves
<1>2. Owning(g) BY <1>1 DEF Owning
<1>3. Places(to, g, k.cur, obj, program)
  BY <1>2 DEF Places, Resumable, Owning
<1>4. Calm(next, IdleTask) /\ next.cur = k.cur /\ next.susp = IF to = "resume" THEN 1 ELSE 0
  BY <1>1, SuspendedAll DEF ServicesInv
<1>5. Suspends(to, g) <=> to = "resume" BY DEF Suspends
<1>6. k.cur = TimerTask => Sampled(to, g, obj["timers"]) BY <1>1, SampledOn
<1>7. Settled /\ obj'["timers"] = obj["timers"] BY Unreplaced
<1> QED BY <1>3, <1>4, <1>5, <1>6, <1>7, TaskGoes
LEMMA OwnerDone ==
  ASSUME ServicesInv, NEW from \in {"obtain", "giveBack"}, Returns(from, k), Settled, obj'["timers"] = obj["timers"]
  PROVE  ServicesInv'
<1>1. k.susp = 0 /\ pc[k.cur] = from BY Owner DEF Returns, Moves
<1>2. Places("user", NoCall, k.cur, obj, program) /\ ~Suspends("user", NoCall)
  BY DEF Places, Suspends, NoCall
<1>3. k.cur = TimerTask => Sampled("user", NoCall, obj["timers"]) BY <1>1, SampledOn
<1> QED BY <1>1, <1>2, <1>3, TaskGoes DEF Returns, ServicesInv

LEMMA MakeKeeps == ASSUME ServicesInv, Make PROVE ServicesInv'
<1>1. PICK c \in Calls("make") :
        /\ Moves("user", "obtain", k) /\ UNCHANGED obj
        /\ Enter([op |-> "make", on |-> c.on, kind |-> c.kind, want |-> Parts(c), have |-> <<>>,
                  next |-> "obtain", blocks |-> FALSE])
  BY DEF Make
<1> DEFINE f == [op |-> "make", on |-> c.on, kind |-> c.kind, want |-> Parts(c), have |-> <<>>,
                 next |-> "obtain", blocks |-> FALSE]
<1>2. c \in TaskCalls /\ c.op = "make" /\ k.susp = 0 /\ k.cur # TimerTask BY Called
<1>3. c.on \in Things BY <1>2, OtherCallKnown
<1>4. Settled /\ obj'["timers"] = obj["timers"] BY <1>1, Unreplaced
<1>5. Places("obtain", f, k.cur, obj, program) BY <1>3 DEF Places, Owning
<1>6. ~Suspends("obtain", f) BY DEF Suspends
<1> HIDE DEF f
<1> QED BY <1>1, <1>2, <1>4, <1>5, <1>6, TaskGoes DEF ServicesInv, f
LEMMA ObtainKeeps == ASSUME ServicesInv, Obtain \/ Supplied \/ Refused PROVE ServicesInv'
<1>1. pc[k.cur] = "obtain" /\ UNCHANGED obj BY DEF Obtain, Supplied, Refused, Asked, HeapCall
<1>2. Owning(Here) /\ Here.op = "make" BY <1>1, Owner
<1> DEFINE Given(part, n) == [Here EXCEPT !.want = Tail(Here.want), !.have = Append(Here.have, part), !.next = n]
           back == [Here EXCEPT !.have = OnFailure(Here.have), !.next = "giveBack"]
<1>3. \/ \E part : Moves("obtain", "resume", SuspendAll(k)) /\ Enter(Given(part, "obtain"))
      \/ Moves("obtain", "resume", SuspendAll(k)) /\ Enter(back)
      \/ Moves("obtain", "obtain", k) /\ Enter(Given(Outside, "obtain"))
      \/ Moves("obtain", "giveBack", k) /\ Enter(back)
  BY <1>1 DEF Obtain, Supplied, Refused, HeapCall, Has, GoesBack
<1>4. \A part : /\ DOMAIN Given(part, "obtain") = DOMAIN Here /\ Given(part, "obtain").op = "make"
                /\ Given(part, "obtain").on = Here.on /\ Given(part, "obtain").blocks = Here.blocks
                /\ Given(part, "obtain").next = "obtain"
  BY <1>2 DEF Owning
<1>5. /\ DOMAIN back = DOMAIN Here /\ back.op = "make" /\ back.on = Here.on /\ back.blocks = Here.blocks
      /\ back.next = "giveBack"
  BY <1>2 DEF Owning
<1>6. \E to \in {"obtain", "giveBack", "resume"} : \E g :
        /\ Moves("obtain", to, IF to = "resume" THEN SuspendAll(k) ELSE k) /\ Enter(g) /\ DOMAIN g = DOMAIN Here
        /\ g.op = "make" /\ g.on = Here.on /\ g.blocks = Here.blocks /\ g.next \in {"obtain", "giveBack"}
        /\ to \in {"resume", g.next}
  <2> HIDE DEF Given, back
  <2> QED BY <1>3, <1>4, <1>5
<1>7. PICK to \in {"obtain", "giveBack", "resume"} : \E g :
        /\ Moves("obtain", to, IF to = "resume" THEN SuspendAll(k) ELSE k) /\ Enter(g) /\ DOMAIN g = DOMAIN Here
        /\ g.op = "make" /\ g.on = Here.on /\ g.blocks = Here.blocks /\ g.next \in {"obtain", "giveBack"}
        /\ to \in {"resume", g.next}
  BY <1>6
<1> DEFINE next == IF to = "resume" THEN SuspendAll(k) ELSE k
<1>8. PICK g :
        /\ Moves("obtain", to, next) /\ Enter(g) /\ DOMAIN g = DOMAIN Here
        /\ g.op = "make" /\ g.on = Here.on /\ g.blocks = Here.blocks /\ g.next \in {"obtain", "giveBack"}
        /\ to \in {"resume", g.next}
  BY <1>7
<1> HIDE DEF next
<1> QED BY <1>1, <1>2, <1>8, OwnerGoes DEF next
LEMMA MadeKeeps == ASSUME ServicesInv, Made PROVE ServicesInv'
<1>1. pc[k.cur] = "obtain" /\ Returns("obtain", k) /\ Put(Here.on, [kind |-> Here.kind, own |-> Here.have])
  BY DEF Made
<1>2. Here.on \in Things BY <1>1, Owner
<1>3. Settled /\ obj'["timers"] = obj["timers"] BY <1>1, <1>2, ThingPut
<1> QED BY <1>1, <1>3, OwnerDone
LEMMA GiveBackKeeps == ASSUME ServicesInv, GiveBack PROVE ServicesInv'
<1>1. pc[k.cur] = "giveBack" /\ UNCHANGED obj BY DEF GiveBack, HeapCall
<1>2. Owning(Here) BY <1>1, Owner
<1>3. CASE Returns("giveBack", k) BY <1>1, <1>3, Unreplaced, OwnerDone
<1>4. CASE ~Returns("giveBack", k)
  <2> DEFINE g == [Here EXCEPT !.have = Tail(Here.have), !.next = "giveBack"]
  <2>1. Moves("giveBack", "resume", SuspendAll(k)) /\ Enter(g) BY <1>1, <1>4 DEF GiveBack, HeapCall
  <2>2. DOMAIN g = DOMAIN Here /\ g.op = Here.op /\ g.on = Here.on /\ g.blocks = Here.blocks /\ g.next = "giveBack"
    BY <1>2 DEF Owning
  <2> HIDE DEF g
  <2> QED BY <1>1, <2>1, <2>2, OwnerGoes
<1> QED BY <1>3, <1>4
LEMMA DeleteAtOnceKeeps == ASSUME ServicesInv, DeleteAtOnce PROVE ServicesInv'
<1>1. PICK c \in Calls("unmake") :
        /\ Moves("user", "user", ResumeAll(SuspendAll(k))) /\ UNCHANGED frame /\ Put(c.on, NoObject)
  BY DEF DeleteAtOnce
<1> DEFINE j == SuspendAll(k)
<1>2. c \in TaskCalls /\ c.op = "unmake" /\ k.susp = 0 BY Called
<1>3. c.on \in Things BY <1>2, OtherCallKnown
<1>4. Settled /\ obj'["timers"] = obj["timers"] BY <1>1, <1>3, ThingPut
<1>5. Calm(j, IdleTask) /\ j.cur = k.cur /\ j.susp = 1 BY <1>2, SuspendedAll DEF ServicesInv
<1>6. Moves("user", "user", ResumeAll(j)) BY <1>1
<1> HIDE DEF j
<1>7. Calm(ResumeAll(j), IdleTask) /\ ResumeAll(j).cur = k.cur /\ ResumeAll(j).susp = 0
  BY <1>5, CalmResumed, Assumed
<1> QED BY <1>1, <1>4, <1>6, <1>7, CallsOn
LEMMA FreesKeeps ==
  ASSUME ServicesInv, NEW x \in Things, NEW o1, Put(x, o1), NEW blocks, Frees(x, blocks), k.cur # TimerTask
  PROVE  ServicesInv'
<1> DEFINE f == [op |-> "unmake", on |-> x, have |-> blocks, next |-> "giveBack", blocks |-> FALSE]
<1>1. Moves("user", "giveBack", k) /\ Enter(f) /\ pc[k.cur] = "user" BY DEF Frees, Moves
<1>2. k.susp = 0
  <2>1. ~Suspends("user", frame[k.cur]) BY DEF Suspends
  <2> QED BY <1>1, <2>1, Running
<1>3. Settled /\ obj'["timers"] = obj["timers"] BY ThingPut
<1>4. Places("giveBack", f, k.cur, obj, program) BY DEF Places, Owning
<1>5. ~Suspends("giveBack", f) BY DEF Suspends
<1>6. KindKept(f, obj, obj') BY Assumed DEF KindKept, QueueObjects
<1> HIDE DEF f
<1> QED BY <1>1, <1>2, <1>3, <1>4, <1>5, <1>6, TaskGoes DEF ServicesInv
LEMMA DeletesKeep == ASSUME ServicesInv, DeleteOne \/ DeleteTimer \/ IdleFrees \/ TimerTaskFrees PROVE ServicesInv'
<1>1. CASE \E c \in Calls("unmake") : \E o1, blocks : Put(c.on, o1) /\ Frees(c.on, blocks)
  <2>1. PICK c \in Calls("unmake") : \E o1, blocks : Put(c.on, o1) /\ Frees(c.on, blocks) BY <1>1
  <2>2. c \in TaskCalls /\ c.op = "unmake" /\ k.cur # TimerTask BY Called
  <2>3. c.on \in Things BY <2>2, OtherCallKnown
  <2> QED BY <2>1, <2>2, <2>3, FreesKeeps
<1>2. CASE \E kind : Reap(kind) /\ k.cur # TimerTask
  BY <1>2, FreesKeeps DEF Reap
<1>3. ASSUME TimerTaskFrees PROVE k.cur # TimerTask
  <2>1. PICK c \in Calls("timerTask") : TRUE BY <1>3 DEF TimerTaskFrees
  <2> QED BY <2>1, Called
<1> QED BY <1>1, <1>2, <1>3, Assumed DEF DeleteOne, DeleteTimer, IdleFrees, TimerTaskFrees
LEMMA ThreadExitsKeeps == ASSUME ServicesInv, ThreadExits PROVE ServicesInv'
<1>1. UNCHANGED <<k, pc, frame, program>> /\ \E x \in Things : \E o1 : Put(x, o1) BY DEF ThreadExits
<1>2. Settled /\ obj'["timers"] = obj["timers"] BY <1>1, ThingPut
<1> QED BY <1>1, <1>2, SmoothSelf, InterruptKeeps DEF ServicesInv
LEMMA OwnerStepsKeep == ASSUME ServicesInv, OwnerSteps PROVE ServicesInv'
BY MakeKeeps, ObtainKeeps, MadeKeeps, GiveBackKeeps, DeleteAtOnceKeeps, DeletesKeep, ThreadExitsKeeps DEF OwnerSteps

-----------------------------------------------------------------------------
(* Event groups.                                                             *)
LEMMA GroupPut ==
  ASSUME ServicesInv, NEW g \in Groups, NEW o1, Put(g, o1)
  PROVE  Settled /\ obj'["timers"] = obj["timers"]
<1>1. Suited(g, o1) BY Assumed DEF Suited, Names, QueueObjects
<1> QED BY <1>1, Replaced DEF Put
LEMMA GroupCalled ==
  ASSUME ServicesInv, NEW op \in {"setBits", "clearBits", "waitBits", "sync", "newGroup", "deleteGroup"},
         NEW c \in Calls(op)
  PROVE  /\ c.on \in Groups /\ Waiters(c.on) \in EventLists /\ k.events[Waiters(c.on)] \in Seq(Task)
         /\ op \in {"waitBits", "sync"} => c.ticks \in Ticks
<1>1. c \in TaskCalls /\ c.op = op BY Called
<1>2. c.on \in Groups /\ (op \in {"waitBits", "sync"} => c.ticks \in Ticks) BY <1>1, GroupCallKnown
<1> QED BY <1>2, Assumed, CalmShape DEF ServicesInv
LEMMA GroupGoes ==
  ASSUME ServicesInv, NEW op \in {"setBits", "waitBits", "sync", "deleteGroup"}, NEW c \in Calls(op),
         NEW next, Moves("user", "resume", next), NEW to \in {"user", "woken"}, NEW b \in BOOLEAN,
         Enter(GroupFrame(c, to, b)), NEW o1, Put(c.on, o1),
         Calm(next, IdleTask), next.cur = k.cur, next.susp = 1
  PROVE  ServicesInv'
<1> DEFINE f == GroupFrame(c, to, b)
<1>1. c \in TaskCalls /\ c.op = op /\ k.cur \in Callers /\ k.cur # TimerTask BY Called
<1>2. c.on \in Groups /\ {"op", "on"} \subseteq DOMAIN c /\ DOMAIN c \cap {"next", "blocks"} = {}
  BY <1>1, GroupCallKnown
<1>3. Grouping(f) BY <1>1, <1>2 DEF GroupFrame, Joined, Grouping
<1>4. f.on = c.on BY <1>2 DEF GroupFrame, Joined
<1> HIDE DEF f
<1>5. Settled /\ obj'["timers"] = obj["timers"] BY <1>2, GroupPut
<1>6. KindKept(f, obj, obj') BY <1>2, <1>4, Assumed DEF KindKept, QueueObjects
<1>7. Places("resume", f, k.cur, obj, program) BY <1>1, <1>3 DEF Places, Resumable
<1>8. Suspends("resume", f) BY DEF Suspends
<1> QED BY <1>1, <1>5, <1>6, <1>7, <1>8, TaskGoes DEF f
LEMMA GroupWaits ==
  ASSUME NEW h, Calm(h, IdleTask), h.cur # IdleTask, NEW c, Waiters(c.on) \in EventLists, c.ticks \in Ticks \ {0}
  PROVE  Smooth(h, Blocked(h, c), IdleTask)
<1> DEFINE n == c.ticks
           e == Waiters(c.on)
           flags == c.bits \cup c.control
<1>1. n \in 1 .. MaxDelay BY TaskListsAssumption DEF Ticks, MaxDelay
<1>2. e \in EventLists OBVIOUS
<1>3. Blocked(h, c) = PlaceOnUnorderedEventList(h, e, flags, n) BY DEF Blocked
<1> HIDE DEF n, e, flags
<1> QED BY <1>1, <1>2, <1>3, CalmPlaced, Assumed
LEMMA SetBitsStepKeeps == ASSUME ServicesInv, SetBitsStep PROVE ServicesInv'
<1>1. PICK c \in Calls("setBits") :
        LET r == SetBits(SuspendAll(k), c.on, c.bits)
        IN /\ Moves("user", "resume", r.kernel) /\ Enter(GroupFrame(c, "user", FALSE))
           /\ Put(c.on, [obj[c.on] EXCEPT !.bits = r.bits])
  BY DEF SetBitsStep, OfGroup
<1> DEFINE j == SuspendAll(k)
           r == SetBits(j, c.on, c.bits)
           o1 == [obj[c.on] EXCEPT !.bits = r.bits]
           next == r.kernel
<1>2. k.susp = 0 BY Called
<1>3. k.events[Waiters(c.on)] \in Seq(Task) BY GroupCalled
<1>4. Calm(j, IdleTask) /\ j.cur = k.cur /\ j.susp = 1 /\ j.events = k.events
  BY <1>2, SuspendedAll DEF ServicesInv
<1> HIDE DEF j
<1>5. Smooth(j, next, IdleTask) BY <1>3, <1>4, CalmJudged DEF SetBits
<1>6. Moves("user", "resume", next) /\ Enter(GroupFrame(c, "user", FALSE)) /\ Put(c.on, o1) BY <1>1 DEF j
<1> HIDE DEF next, o1
<1>7. Calm(next, IdleTask) /\ next.cur = k.cur /\ next.susp = 1 BY <1>4, <1>5 DEF Smooth, Ranks
<1> QED BY <1>6, <1>7, GroupGoes
LEMMA ClearBitsKeeps == ASSUME ServicesInv, ClearBits PROVE ServicesInv'
<1>1. PICK c \in Calls("clearBits") :
        Moves("user", "user", k) /\ UNCHANGED frame /\ \E o1 : Put(c.on, o1)
  BY DEF ClearBits, OfGroup
<1>2. k.susp = 0 /\ c.on \in Groups BY Called, GroupCalled
<1>3. Settled /\ obj'["timers"] = obj["timers"] BY <1>1, <1>2, GroupPut
<1> QED BY <1>1, <1>2, <1>3, CallsOn DEF ServicesInv
LEMMA WaitBitsKeeps == ASSUME ServicesInv, WaitBits PROVE ServicesInv'
<1> DEFINE Met1(c) == Met(obj[c.on].bits, c.bits, c.control)
           Blocks1(c) == ~Met1(c) /\ c.ticks # 0
<1>1. PICK c \in Calls("waitBits") :
        /\ Moves("user", "resume", IF Blocks1(c) THEN Blocked(SuspendAll(k), c) ELSE SuspendAll(k))
        /\ Enter(GroupFrame(c, IF Blocks1(c) THEN "woken" ELSE "user", Blocks1(c)))
        /\ \E o1 : Put(c.on, o1)
  BY DEF WaitBits, OfGroup
<1> DEFINE j == SuspendAll(k)
           b == Blocks1(c)
           next == IF b THEN Blocked(j, c) ELSE j
<1>2. k.susp = 0 /\ k.cur # IdleTask BY Called
<1>3. Waiters(c.on) \in EventLists /\ c.ticks \in Ticks BY GroupCalled
<1>4. Calm(j, IdleTask) /\ j.cur = k.cur /\ j.susp = 1 BY <1>2, SuspendedAll DEF ServicesInv
<1>5. Moves("user", "resume", next) /\ Enter(GroupFrame(c, IF b THEN "woken" ELSE "user", b)) BY <1>1
<1> HIDE DEF j
<1>6. b => c.ticks \in Ticks \ {0} BY <1>3
<1>7. b \in BOOLEAN BY DEF b
<1> HIDE DEF b
<1>8. b => Smooth(j, Blocked(j, c), IdleTask) BY <1>2, <1>3, <1>4, <1>6, GroupWaits
<1>9. Calm(next, IdleTask) /\ next.cur = k.cur /\ next.susp = 1 BY <1>4, <1>8 DEF Smooth, Ranks
<1> HIDE DEF next
<1>10. CASE b BY <1>1, <1>5, <1>7, <1>9, <1>10, GroupGoes
<1>11. CASE ~b BY <1>1, <1>5, <1>7, <1>9, <1>11, GroupGoes
<1> QED BY <1>10, <1>11
LEMMA SyncKeeps == ASSUME ServicesInv, Sync PROVE ServicesInv'
<1> DEFINE Blocks1(c) == ~(c.bits \subseteq obj[c.on].bits \cup c.set) /\ c.ticks # 0
           R(c) == SetBits(SuspendAll(k), c.on, c.set)
<1>1. PICK c \in Calls("sync") :
        /\ Moves("user", "resume", IF Blocks1(c) THEN Blocked(R(c).kernel, c) ELSE R(c).kernel)
        /\ Enter(GroupFrame(c, IF Blocks1(c) THEN "woken" ELSE "user", Blocks1(c)))
        /\ \E o1 : Put(c.on, o1)
  BY DEF Sync, OfGroup
<1> DEFINE j == SuspendAll(k)
           i == R(c).kernel
           b == Blocks1(c)
           next == IF b THEN Blocked(i, c) ELSE i
<1>2. k.susp = 0 /\ k.cur # IdleTask BY Called
<1>3. Waiters(c.on) \in EventLists /\ c.ticks \in Ticks /\ k.events[Waiters(c.on)] \in Seq(Task) BY GroupCalled
<1>4. Calm(j, IdleTask) /\ j.cur = k.cur /\ j.susp = 1 /\ j.events = k.events
  BY <1>2, SuspendedAll DEF ServicesInv
<1>5. i = SetBits(j, c.on, c.set).kernel OBVIOUS
<1> HIDE DEF j
<1>6. Smooth(j, i, IdleTask) BY <1>3, <1>4, <1>5, CalmJudged DEF SetBits
<1>7. Moves("user", "resume", next) /\ Enter(GroupFrame(c, IF b THEN "woken" ELSE "user", b)) BY <1>1
<1> HIDE DEF i
<1>8. Calm(i, IdleTask) /\ i.cur = k.cur /\ i.susp = 1 BY <1>4, <1>6 DEF Smooth, Ranks
<1>9. b => c.ticks \in Ticks \ {0} BY <1>3
<1>10. b \in BOOLEAN BY DEF b
<1> HIDE DEF b
<1>11. b => Smooth(i, Blocked(i, c), IdleTask) BY <1>2, <1>3, <1>8, <1>9, GroupWaits
<1>12. Calm(next, IdleTask) /\ next.cur = k.cur /\ next.susp = 1 BY <1>8, <1>11 DEF Smooth, Ranks
<1> HIDE DEF next
<1>13. CASE b BY <1>1, <1>7, <1>10, <1>12, <1>13, GroupGoes
<1>14. CASE ~b BY <1>1, <1>7, <1>10, <1>12, <1>14, GroupGoes
<1> QED BY <1>13, <1>14
LEMMA WokenKeeps == ASSUME ServicesInv, Woken PROVE ServicesInv'
<1> DEFINE next == ResetEventItemValue(k)
<1>1. pc[k.cur] = "woken" /\ Returns("woken", next) /\ \E o1 : Put(Here.on, o1) BY DEF Woken
<1>2. k.cur \in Callers /\ Grouping(Here) /\ k.susp = 0
  BY <1>1, Running DEF Places, AtQueue, AtTimers, StreamPlaces, Here, Suspends
<1>3. Here.on \in Groups BY <1>2 DEF Grouping
<1>4. Settled /\ obj'["timers"] = obj["timers"] BY <1>1, <1>3, GroupPut
<1>5. Smooth(k, next, IdleTask) BY CalmReset, Assumed DEF ServicesInv
<1> HIDE DEF next
<1> QED BY <1>1, <1>2, <1>4, <1>5, CallOver DEF Returns, Smooth, Ranks
LEMMA CreateGroupKeeps == ASSUME ServicesInv, CreateGroup PROVE ServicesInv'
<1>1. PICK c \in Calls("newGroup") : Moves("user", "user", k) /\ UNCHANGED frame /\ Put(c.on, NewGroup)
  BY DEF CreateGroup
<1>2. k.susp = 0 /\ c.on \in Groups BY Called, GroupCalled
<1>3. Settled /\ obj'["timers"] = obj["timers"] BY <1>1, <1>2, GroupPut
<1> QED BY <1>1, <1>2, <1>3, CallsOn DEF ServicesInv
LEMMA DeleteGroupKeeps == ASSUME ServicesInv, DeleteGroup PROVE ServicesInv'
<1>1. PICK c \in Calls("deleteGroup") :
        /\ Moves("user", "resume", Releases(SuspendAll(k), k.events[Waiters(c.on)], Task, {Unblocked}))
        /\ Enter(GroupFrame(c, "user", FALSE)) /\ Put(c.on, NoObject)
  BY DEF DeleteGroup, OfGroup
<1> DEFINE j == SuspendAll(k)
           next == Releases(j, k.events[Waiters(c.on)], Task, {Unblocked})
<1>2. k.susp = 0 BY Called
<1>3. k.events[Waiters(c.on)] \in Seq(Task) BY GroupCalled
<1>4. Calm(j, IdleTask) /\ j.cur = k.cur /\ j.susp = 1 BY <1>2, SuspendedAll DEF ServicesInv
<1>5. Moves("user", "resume", next) BY <1>1
<1> HIDE DEF j
<1>6. Smooth(j, next, IdleTask) BY <1>3, <1>4, CalmReleased
<1> HIDE DEF next
<1>7. Calm(next, IdleTask) /\ next.cur = k.cur /\ next.susp = 1 BY <1>4, <1>6 DEF Smooth, Ranks
<1> QED BY <1>1, <1>5, <1>7, GroupGoes
LEMMA GroupStepsKeep == ASSUME ServicesInv, GroupSteps PROVE ServicesInv'
BY SetBitsStepKeeps, ClearBitsKeeps, WaitBitsKeeps, SyncKeeps, WokenKeeps, CreateGroupKeeps, DeleteGroupKeeps
  DEF GroupSteps

-----------------------------------------------------------------------------
(* Stream buffers.                                                           *)
LEMMA StreamEdits ==
  ASSUME NEW o, Ended(o), NEW bytes, NEW n, NEW u \in Task \cup {Nothing}
  PROVE  /\ \A o1 \in {Write(o, bytes), Read(o, n), WriteData(o, n), ReadData(o, n)} :
              Ended(o1) /\ o1.kind = o.kind
         /\ \A o1 \in {[o EXCEPT !.sender = u], [o EXCEPT !.receiver = u]} : Ended(o1) /\ o1.kind = o.kind
<1>1. ASSUME NEW x, Ended(x), NEW b
      PROVE  /\ Ended(Write(x, b)) /\ Write(x, b).kind = x.kind
             /\ Ended(Read(x, b)) /\ Read(x, b).kind = x.kind
  BY <1>1 DEF Ended, Write, Read
<1>3. Ended(WriteData(o, n)) /\ WriteData(o, n).kind = o.kind
  <2> DEFINE x == Write(o, Data(o, n))
             v == (x.sent + n) % Numbers
  <2>1. Ended(x) /\ x.kind = o.kind BY <1>1
  <2>2. WriteData(o, n) = [x EXCEPT !.sent = v] BY DEF WriteData
  <2> HIDE DEF x, v
  <2>3. Ended([x EXCEPT !.sent = v]) /\ [x EXCEPT !.sent = v].kind = x.kind BY <2>1 DEF Ended
  <2> QED BY <2>1, <2>2, <2>3
<1>4. Ended(ReadData(o, n)) /\ ReadData(o, n).kind = o.kind
  <2> DEFINE x == Read(o, n)
             v == (x.got + n) % Numbers
  <2>1. Ended(x) /\ x.kind = o.kind BY <1>1
  <2>2. ReadData(o, n) = [x EXCEPT !.got = v] BY DEF ReadData
  <2> HIDE DEF x, v
  <2>3. Ended([x EXCEPT !.got = v]) /\ [x EXCEPT !.got = v].kind = x.kind BY <2>1 DEF Ended
  <2> QED BY <2>1, <2>2, <2>3
<1>5. \A o1 \in {[o EXCEPT !.sender = u], [o EXCEPT !.receiver = u]} : Ended(o1) /\ o1.kind = o.kind
  BY DEF Ended
<1> QED BY <1>1, <1>3, <1>4, <1>5
LEMMA StreamPut ==
  ASSUME ServicesInv, NEW s \in Streams, NEW o1, StreamSound(o1), Put(s, o1),
         \/ o1.kind = obj[s].kind \/ obj[s].kind = "none"
         \/ \A t \in Task : frame[t] # NoCall => frame[t].on # s
  PROVE  Settled /\ obj'["timers"] = obj["timers"]
<1>1. Suited(s, o1) BY Assumed DEF Suited, Names, QueueObjects
<1> QED BY <1>1, Replaced DEF Put
LEMMA TimeOutFacts ==
  ASSUME ServicesInv, NEW n \in Ticks
  PROVE  Deadline(TimeOut(k, n))
<1>1. k.tick \in Int
  <2>1. k.tick \in Ticks BY CalmShape DEF ServicesInv
  <2> QED BY <2>1, TaskListsAssumption DEF Ticks
<1> QED BY <1>1 DEF Deadline, TimeOut
LEMMA Streamed ==
  ASSUME ServicesInv, pc[k.cur] \in StreamPlaces
  PROVE  /\ k.cur \in Callers /\ k.cur # TimerTask /\ k.cur # IdleTask /\ Streaming(Here, obj) /\ Here # NoCall
         /\ Here.on \in Streams /\ O.kind \in {"stream", "message"} /\ Ended(O)
         /\ k.susp = IF pc[k.cur] = "notify" THEN 1 ELSE 0
<1>1. k.cur \in Callers /\ Streaming(Here, obj)
  BY Running DEF Places, AtQueue, AtTimers, StreamPlaces, Here
<1>2. k.susp = IF pc[k.cur] = "notify" THEN 1 ELSE 0 BY Running DEF Suspends, StreamPlaces
<1>3. Here.on \in Streams /\ Here.op # "none" /\ O.kind \in {"stream", "message"} BY <1>1 DEF Streaming, O
<1>4. Ended(O) BY <1>3 DEF ServicesInv, ObjectsSound, StreamSound, O, NoObject
<1> QED BY <1>1, <1>2, <1>3, <1>4 DEF NoCall, Callers
(* The end of a stream that does not change, or changes and stays a stream.   *)
LEMMA StreamChanges ==
  ASSUME ServicesInv, pc[k.cur] \in StreamPlaces,
         UNCHANGED obj \/ \E o1 : Ended(o1) /\ o1.kind = O.kind /\ Changes(o1)
  PROVE  Settled /\ obj'["timers"] = obj["timers"]
<1>1. CASE UNCHANGED obj BY <1>1, Unreplaced
<1>2. CASE \E o1 : Ended(o1) /\ o1.kind = O.kind /\ Changes(o1)
  <2>1. PICK o1 : Ended(o1) /\ o1.kind = O.kind /\ Changes(o1) BY <1>2
  <2>2. StreamSound(o1) /\ o1.kind = obj[Here.on].kind /\ Put(Here.on, o1) /\ Here.on \in Streams
    BY <2>1, Streamed DEF StreamSound, Changes, O
  <2> QED BY <2>2, StreamPut
<1> QED BY <1>1, <1>2
LEMMA StreamMoves ==
  ASSUME ServicesInv, NEW from \in StreamPlaces, NEW to \in StreamPlaces \cup {"resume"}, NEW next,
         Moves(from, to, next), NEW f, Enter(f) \/ (UNCHANGED frame /\ f = Here),
         DOMAIN f = DOMAIN Here, f.op = Here.op, f.on = Here.on, f.next = Here.next, f.blocks = Here.blocks,
         Deadline(f.to), UNCHANGED obj \/ \E o1 : Ended(o1) /\ o1.kind = O.kind /\ Changes(o1),
         Calm(next, IdleTask), next.cur = k.cur, next.susp = IF to \in {"notify", "resume"} THEN 1 ELSE 0
  PROVE  ServicesInv'
<1>1. pc[k.cur] = from BY DEF Moves
<1>2. k.cur \in Callers /\ k.cur # TimerTask /\ Streaming(Here, obj) /\ Here # NoCall BY <1>1, Streamed
<1>3. Streaming(f, obj) BY <1>2 DEF Streaming
<1>4. Places(to, f, k.cur, obj, program) BY <1>2, <1>3 DEF Places, Resumable
<1>5. Suspends(to, f) <=> to \in {"notify", "resume"} BY DEF Suspends, StreamPlaces
<1>6. Settled /\ obj'["timers"] = obj["timers"] BY <1>1, StreamChanges
<1> QED BY <1>2, <1>4, <1>5, <1>6, TaskGoes
LEMMA StreamStays ==
  ASSUME ServicesInv, NEW from \in StreamPlaces, NEW to \in StreamPlaces \cup {"resume"}, NEW next,
         Goes(from, to, next), UNCHANGED obj \/ \E o1 : Ended(o1) /\ o1.kind = O.kind /\ Changes(o1),
         Calm(next, IdleTask), next.cur = k.cur, next.susp = IF to \in {"notify", "resume"} THEN 1 ELSE 0
  PROVE  ServicesInv'
<1>1. Moves(from, to, next) /\ UNCHANGED frame /\ pc[k.cur] = from BY DEF Goes, Moves
<1>2. Deadline(Here.to) BY <1>1, Streamed DEF Streaming
<1> QED BY <1>1, <1>2, StreamMoves
LEMMA StreamOver ==
  ASSUME ServicesInv, NEW from \in StreamPlaces \ {"notify"}, Returns(from, k), UNCHANGED obj
  PROVE  ServicesInv'
<1>1. Moves(from, "user", k) /\ Leave /\ pc[k.cur] = from BY DEF Returns, Moves
<1>2. k.cur \in Callers /\ k.susp = 0 BY <1>1, Streamed
<1> QED BY <1>1, <1>2, Unreplaced, CallOver DEF ServicesInv
LEMMA StreamBegun ==
  ASSUME ServicesInv, NEW op \in {"put", "get"}, NEW c \in InStream(op)
  PROVE  /\ c \in Calls(op) /\ c.on \in Streams /\ c.ticks \in Ticks
         /\ k.cur \in Callers /\ k.cur # TimerTask /\ k.susp = 0
         /\ Ended(obj[c.on]) /\ obj[c.on].kind \in {"stream", "message"}
<1>1. c \in Calls(op) /\ obj[c.on].kind \in {"stream", "message"} BY DEF InStream
<1>2. c \in TaskCalls /\ c.op = op /\ k.cur \in Callers /\ k.cur # TimerTask /\ k.susp = 0 BY <1>1, Called
<1>3. c \in Transfers BY <1>2, StreamCallKnown
<1>4. c.on \in Streams /\ c.ticks \in Ticks BY <1>3 DEF Transfers
<1>5. Ended(obj[c.on]) BY <1>1, <1>4 DEF ServicesInv, ObjectsSound, StreamSound, NoObject
<1> QED BY <1>1, <1>2, <1>4, <1>5
LEMMA StreamEnters ==
  ASSUME ServicesInv, NEW op \in {"put", "get"}, NEW c \in InStream(op),
         NEW to \in StreamPlaces \ {"notify"}, NEW next, Moves("user", to, next),
         Enter([op |-> op, on |-> c.on, n |-> c.n, to |-> TimeOut(k, c.ticks), space |-> 0,
                next |-> "user", blocks |-> FALSE]),
         UNCHANGED obj \/ \E o1 : Ended(o1) /\ o1.kind = obj[c.on].kind /\ Put(c.on, o1),
         Calm(next, IdleTask), next.cur = k.cur, next.susp = 0
  PROVE  ServicesInv'
<1> DEFINE f == [op |-> op, on |-> c.on, n |-> c.n, to |-> TimeOut(k, c.ticks), space |-> 0,
                 next |-> "user", blocks |-> FALSE]
<1>1. /\ c.on \in Streams /\ c.ticks \in Ticks /\ k.cur \in Callers /\ k.cur # TimerTask
      /\ obj[c.on].kind \in {"stream", "message"}
  BY StreamBegun
<1>2. Deadline(TimeOut(k, c.ticks)) BY <1>1, TimeOutFacts
<1>3. Streaming(f, obj) BY <1>1, <1>2 DEF Streaming
<1>4. f.on = c.on OBVIOUS
<1> HIDE DEF f
<1>5. Places(to, f, k.cur, obj, program) BY <1>1, <1>3 DEF Places
<1>6. ~Suspends(to, f) BY DEF Suspends, StreamPlaces
<1>7. Settled /\ obj'["timers"] = obj["timers"] /\ KindKept(f, obj, obj')
  <2>1. CASE UNCHANGED obj BY <2>1, Unreplaced DEF KindKept
  <2>2. CASE \E o1 : Ended(o1) /\ o1.kind = obj[c.on].kind /\ Put(c.on, o1)
    <3>1. PICK o1 : Ended(o1) /\ o1.kind = obj[c.on].kind /\ Put(c.on, o1) BY <2>2
    <3>2. StreamSound(o1) BY <1>1, <3>1 DEF StreamSound
    <3>3. KindKept(f, obj, obj') BY <1>1, <1>4, <3>1, Running DEF KindKept, Put, Names
    <3> QED BY <1>1, <3>1, <3>2, <3>3, StreamPut
  <2> QED BY <2>1, <2>2
<1> QED BY <1>1, <1>5, <1>6, <1>7, TaskGoes DEF f

LEMMA StreamCallsKeep == ASSUME ServicesInv, StreamSend \/ StreamReceive PROVE ServicesInv'
<1>1. CASE StreamSend
  <2>1. PICK c \in InStream("put") :
          /\ Moves("user", IF c.ticks = 0 THEN "measure" ELSE "room", k)
          /\ Enter([op |-> "put", on |-> c.on, n |-> c.n, to |-> TimeOut(k, c.ticks), space |-> 0,
                    next |-> "user", blocks |-> FALSE])
          /\ UNCHANGED obj
    BY <1>1 DEF StreamSend
  <2>2. \E to \in {"measure", "room"} : Moves("user", to, k) BY <2>1
  <2>3. {"measure", "room"} \subseteq StreamPlaces \ {"notify"} BY DEF StreamPlaces
  <2>4. k.susp = 0 BY StreamBegun
  <2> QED BY <2>1, <2>2, <2>3, <2>4, StreamEnters DEF ServicesInv
<1>2. CASE StreamReceive
  <2> DEFINE waits(c) == c.ticks # 0 /\ BytesIn(obj[c.on]) <= Header(obj[c.on])
  <2>1. PICK c \in InStream("get") :
          /\ Moves("user", IF waits(c) THEN "sleep" ELSE "look", IF waits(c) THEN NoNote ELSE k)
          /\ Enter([op |-> "get", on |-> c.on, n |-> c.n, to |-> TimeOut(k, c.ticks), space |-> 0,
                    next |-> "user", blocks |-> FALSE])
          /\ IF waits(c) THEN Put(c.on, [obj[c.on] EXCEPT !.receiver = k.cur]) ELSE UNCHANGED obj
    BY <1>2 DEF StreamReceive
  <2>2. k.susp = 0 /\ Ended(obj[c.on]) BY StreamBegun
  <2>3. {"sleep", "look"} \subseteq StreamPlaces \ {"notify"} BY DEF StreamPlaces
  <2>4. Smooth(k, NoNote, IdleTask) BY CalmUnnoted DEF ServicesInv
  <2> DEFINE w == waits(c)
             o1 == [obj[c.on] EXCEPT !.receiver = k.cur]
  <2>5. Ended(o1) /\ o1.kind = obj[c.on].kind BY <2>2, Running, StreamEdits
  <2>6. CASE w
    <3>1. Moves("user", "sleep", NoNote) /\ Put(c.on, o1) BY <2>1, <2>6
    <3> HIDE DEF o1, w
    <3> QED BY <2>1, <2>2, <2>3, <2>4, <2>5, <3>1, StreamEnters DEF Smooth, Ranks
  <2>7. CASE ~w
    <3>1. Moves("user", "look", k) /\ UNCHANGED obj BY <2>1, <2>7
    <3> HIDE DEF o1, w
    <3> QED BY <2>1, <2>2, <2>3, <3>1, StreamEnters DEF ServicesInv
  <2> QED BY <2>6, <2>7
<1> QED BY <1>1, <1>2
LEMMA RoomKeeps == ASSUME ServicesInv, Room PROVE ServicesInv'
<1> DEFINE f == [Here EXCEPT !.space = Space(O)]
           o1 == [O EXCEPT !.sender = k.cur]
<1>1. pc[k.cur] = "room" /\ Enter(f) BY DEF Room, At
<1>2. \/ Moves("room", "sleep", NoNote) /\ Changes(o1)
      \/ Moves("room", "measure", k) /\ UNCHANGED obj
  BY DEF Room
<1>3. "room" \in StreamPlaces /\ "sleep" \in StreamPlaces /\ "measure" \in StreamPlaces BY DEF StreamPlaces
<1>4. Streaming(Here, obj) /\ Ended(O) /\ k.susp = 0 BY <1>1, <1>3, Streamed
<1>5. DOMAIN f = DOMAIN Here /\ f.op = Here.op /\ f.on = Here.on /\ f.next = Here.next /\ f.blocks = Here.blocks
      /\ Deadline(f.to)
  BY <1>4 DEF Streaming
<1>6. Ended(o1) /\ o1.kind = O.kind BY <1>4, Running, StreamEdits
<1>7. Smooth(k, NoNote, IdleTask) BY CalmUnnoted DEF ServicesInv
<1> HIDE DEF f, o1
<1>8. CASE Moves("room", "sleep", NoNote) /\ Changes(o1)
  BY <1>1, <1>3, <1>4, <1>5, <1>6, <1>7, <1>8, StreamMoves DEF Smooth, Ranks
<1>9. CASE Moves("room", "measure", k) /\ UNCHANGED obj
  BY <1>1, <1>3, <1>4, <1>5, <1>9, StreamMoves DEF ServicesInv
<1> QED BY <1>2, <1>8, <1>9
LEMMA SleepsKeep == ASSUME ServicesInv, Sleep \/ Slept PROVE ServicesInv'
<1>1. "sleep" \in StreamPlaces /\ "slept" \in StreamPlaces /\ "forget" \in StreamPlaces BY DEF StreamPlaces
<1>2. CASE Sleep
  <2>1. pc[k.cur] = "sleep" /\ UNCHANGED obj /\ \E next \in {k, Block(Here.to.left)} : Goes("sleep", "slept", next)
    BY <1>2 DEF Sleep, At
  <2>2. k.susp = 0 /\ k.cur # IdleTask /\ Here.to.left \in Ticks BY <1>1, <2>1, Streamed DEF Streaming, Deadline
  <2>3. Smooth(k, Block(Here.to.left), IdleTask) BY <2>2, CalmBlocks DEF ServicesInv
  <2> QED BY <1>1, <2>1, <2>2, <2>3, StreamStays DEF ServicesInv, Smooth, Ranks
<1>3. CASE Slept
  <2> DEFINE next == [k EXCEPT !.nstate[k.cur] = "no"]
  <2>1. pc[k.cur] = "slept" /\ UNCHANGED obj /\ Goes("slept", "forget", next) BY <1>3 DEF Slept, At
  <2>2. k.susp = 0 BY <1>1, <2>1, Streamed
  <2>3. Smooth(k, next, IdleTask) BY CalmUnnoted DEF ServicesInv
  <2> HIDE DEF next
  <2> QED BY <1>1, <2>1, <2>2, <2>3, StreamStays DEF Smooth, Ranks
<1> QED BY <1>2, <1>3
LEMMA ForgetKeeps == ASSUME ServicesInv, Forget PROVE ServicesInv'
<1> DEFINE o1 == [O EXCEPT !.sender = Nothing]
           o2 == [O EXCEPT !.receiver = Nothing]
<1>1. pc[k.cur] = "forget" /\ \/ Goes("forget", "expired", k) /\ Changes(o1)
                              \/ Goes("forget", "look", k) /\ Changes(o2)
  BY DEF Forget, At
<1>2. "forget" \in StreamPlaces /\ "expired" \in StreamPlaces /\ "look" \in StreamPlaces BY DEF StreamPlaces
<1>3. Ended(O) /\ k.susp = 0 BY <1>1, <1>2, Streamed
<1>4. Ended(o1) /\ o1.kind = O.kind /\ Ended(o2) /\ o2.kind = O.kind BY <1>3, StreamEdits
<1> HIDE DEF o1, o2
<1> QED BY <1>1, <1>2, <1>3, <1>4, StreamStays DEF ServicesInv
LEMMA ExpiredKeeps == ASSUME ServicesInv, Expired PROVE ServicesInv'
<1>1. pc[k.cur] = "expired" /\ UNCHANGED obj BY DEF Expired, At
<1>2. "expired" \in StreamPlaces /\ "room" \in StreamPlaces /\ "measure" \in StreamPlaces BY DEF StreamPlaces
<1>3. Streaming(Here, obj) /\ k.susp = 0 BY <1>1, <1>2, Streamed
<1>4. CASE TimedOut(k, Here.to)
  <2>1. Goes("expired", "measure", k) BY <1>4 DEF Expired
  <2> QED BY <1>1, <1>2, <1>3, <2>1, StreamStays DEF ServicesInv
<1>5. CASE ~TimedOut(k, Here.to)
  <2> DEFINE to == Rest(k, Here.to)
             f == [Here EXCEPT !.to = to]
  <2>1. Moves("expired", "room", k) /\ Enter(f) BY <1>5 DEF Expired
  <2>2. Deadline(to)
    <3>1. Deadline(Here.to) BY <1>3 DEF Streaming
    <3>2. CASE Here.to.left = MaxDelay BY <3>1, <3>2 DEF Rest
    <3>3. CASE Here.to.left # MaxDelay
      <4>1. Here.to.left # 0
        <5> DEFINE e == (k.tick - Here.to.at) % TickRange
        <5>1. e \in Nat
          <6> DEFINE d == k.tick - Here.to.at
          <6>1. k.tick \in Ticks BY CalmShape DEF ServicesInv
          <6>2. d \in Int BY <3>1, <6>1, TaskListsAssumption DEF Ticks, Deadline
          <6> HIDE DEF d
          <6>3. d % TickRange \in 0 .. TickRange - 1 BY <6>2, TaskListsAssumption, Division
          <6> QED BY <6>3, TaskListsAssumption DEF d
        <5>2. ~(e >= Here.to.left) BY <1>5, <3>3 DEF TimedOut, Elapsed
        <5> HIDE DEF e
        <5> QED BY <5>1, <5>2
      <4> QED BY <1>5, <3>1, <4>1, RestFacts
    <3> QED BY <3>2, <3>3
  <2> HIDE DEF to
  <2>3. DOMAIN f = DOMAIN Here /\ f.op = Here.op /\ f.on = Here.on /\ f.next = Here.next /\ f.blocks = Here.blocks
        /\ Deadline(f.to)
    BY <1>3, <2>2 DEF Streaming
  <2> HIDE DEF f
  <2> QED BY <1>1, <1>2, <1>3, <2>1, <2>3, StreamMoves DEF ServicesInv
<1> QED BY <1>4, <1>5

LEMMA MeasureKeeps == ASSUME ServicesInv, Measure PROVE ServicesInv'
<1>1. pc[k.cur] = "measure" BY DEF Measure, At
<1>2. "data" \in StreamPlaces /\ "measure" \in StreamPlaces \ {"notify"} BY DEF StreamPlaces
<1>3. Streaming(Here, obj) /\ Ended(O) /\ k.susp = 0 BY <1>1, <1>2, Streamed
<1>4. CASE Returns("measure", k) /\ UNCHANGED obj BY <1>2, <1>4, StreamOver
<1>5. CASE \E n : /\ Moves("measure", "data", k) /\ Enter([Here EXCEPT !.n = n])
                  /\ UNCHANGED obj \/ Changes(Write(O, <<[length |-> n]>>))
  <2>1. PICK n : /\ Moves("measure", "data", k) /\ Enter([Here EXCEPT !.n = n])
                 /\ UNCHANGED obj \/ Changes(Write(O, <<[length |-> n]>>))
    BY <1>5
  <2> DEFINE f == [Here EXCEPT !.n = n]
             o1 == Write(O, <<[length |-> n]>>)
  <2>2. DOMAIN f = DOMAIN Here /\ f.op = Here.op /\ f.on = Here.on /\ f.next = Here.next /\ f.blocks = Here.blocks
        /\ Deadline(f.to)
    BY <1>3 DEF Streaming
  <2>3. Ended(o1) /\ o1.kind = O.kind BY <1>3, StreamEdits
  <2>4. Enter(f) /\ (UNCHANGED obj \/ Changes(o1)) BY <2>1
  <2> HIDE DEF f, o1
  <2> QED BY <1>2, <1>3, <2>1, <2>2, <2>3, <2>4, StreamMoves DEF ServicesInv
<1> QED BY <1>4, <1>5 DEF Measure
LEMMA BytesKeep == ASSUME ServicesInv, PutData \/ Copy PROVE ServicesInv'
<1> DEFINE o1 == WriteData(O, Here.n)
           o2 == ReadData(O, Here.n)
<1>1. \/ pc[k.cur] = "data" /\ Goes("data", "tell", k) /\ Changes(o1)
      \/ pc[k.cur] = "copy" /\ Goes("copy", "tell", k) /\ Changes(o2)
  BY DEF PutData, Copy, At
<1>2. "data" \in StreamPlaces /\ "tell" \in StreamPlaces /\ "copy" \in StreamPlaces BY DEF StreamPlaces
<1>3. Ended(O) /\ k.susp = 0 BY <1>1, <1>2, Streamed
<1>4. Ended(o1) /\ o1.kind = O.kind /\ Ended(o2) /\ o2.kind = O.kind BY <1>3, StreamEdits
<1> HIDE DEF o1, o2
<1> QED BY <1>1, <1>2, <1>3, <1>4, StreamStays DEF ServicesInv
LEMMA TellKeeps == ASSUME ServicesInv, Tell PROVE ServicesInv'
<1>1. pc[k.cur] = "tell" /\ UNCHANGED obj /\ (Returns("tell", k) \/ Goes("tell", "notify", SuspendAll(k)))
  BY DEF Tell, At
<1>2. "tell" \in StreamPlaces \ {"notify"} /\ "notify" \in StreamPlaces BY DEF StreamPlaces
<1>3. k.susp = 0 BY <1>1, <1>2, Streamed
<1>4. Calm(SuspendAll(k), IdleTask) /\ SuspendAll(k).cur = k.cur /\ SuspendAll(k).susp = 1
  BY <1>3, SuspendedAll DEF ServicesInv
<1> QED BY <1>1, <1>2, <1>4, StreamOver, StreamStays
LEMMA NotifyOtherKeeps == ASSUME ServicesInv, NotifyOther PROVE ServicesInv'
<1> DEFINE o1 == [O EXCEPT !.sender = Nothing]
           o2 == [O EXCEPT !.receiver = Nothing]
<1>1. pc[k.cur] = "notify" /\ \/ Goes("notify", "resume", Notified(O.receiver)) /\ Changes(o2)
                              \/ Goes("notify", "resume", Notified(O.sender)) /\ Changes(o1)
  BY DEF NotifyOther, At
<1>2. "notify" \in StreamPlaces BY DEF StreamPlaces
<1>3. Ended(O) /\ k.susp = 1 BY <1>1, <1>2, Streamed
<1>4. Ended(o1) /\ o1.kind = O.kind /\ Ended(o2) /\ o2.kind = O.kind BY <1>3, StreamEdits
<1>5. ASSUME NEW u \in Task \cup {Nothing} PROVE Smooth(k, Notified(u), IdleTask)
  BY CalmNotified, SmoothSelf DEF ServicesInv, Notified
<1>6. Smooth(k, Notified(O.receiver), IdleTask) /\ Smooth(k, Notified(O.sender), IdleTask)
  BY <1>3, <1>5 DEF Ended
<1> HIDE DEF o1, o2
<1> QED BY <1>1, <1>2, <1>3, <1>4, <1>6, StreamStays DEF Smooth, Ranks
LEMMA LooksKeep == ASSUME ServicesInv, Look \/ Length PROVE ServicesInv'
<1>1. "look" \in StreamPlaces \ {"notify"} /\ "length" \in StreamPlaces \ {"notify"} /\ "copy" \in StreamPlaces
  BY DEF StreamPlaces
<1>2. pc[k.cur] \in {"look", "length"} BY DEF Look, Length, At
<1>3. Streaming(Here, obj) /\ Ended(O) /\ k.susp = 0 BY <1>1, <1>2, Streamed
<1>4. CASE Look
  <2> DEFINE f == [Here EXCEPT !.space = BytesIn(O)]
  <2>1. UNCHANGED obj /\ (Returns("look", k) \/ (Moves("look", "length", k) /\ Enter(f))) BY <1>4 DEF Look
  <2>2. DOMAIN f = DOMAIN Here /\ f.op = Here.op /\ f.on = Here.on /\ f.next = Here.next /\ f.blocks = Here.blocks
        /\ Deadline(f.to)
    BY <1>3 DEF Streaming
  <2> HIDE DEF f
  <2>3. CASE Returns("look", k) BY <1>1, <2>1, <2>3, StreamOver
  <2>4. CASE Moves("look", "length", k) /\ Enter(f) BY <1>1, <1>3, <2>1, <2>2, <2>4, StreamMoves DEF ServicesInv
  <2> QED BY <2>1, <2>3, <2>4
<1>5. CASE Length
  <2> DEFINE o1 == Read(O, Header(O))
  <2>1. \/ Returns("length", k) /\ UNCHANGED obj
        \/ \E n : Moves("length", "copy", k) /\ Enter([Here EXCEPT !.n = n]) /\ Changes(o1)
    BY <1>5 DEF Length
  <2>2. Ended(o1) /\ o1.kind = O.kind BY <1>3, StreamEdits
  <2> HIDE DEF o1
  <2>3. CASE Returns("length", k) /\ UNCHANGED obj BY <1>1, <2>3, StreamOver
  <2>4. ASSUME NEW n, Moves("length", "copy", k), Enter([Here EXCEPT !.n = n]), Changes(o1) PROVE ServicesInv'
    <3> DEFINE f == [Here EXCEPT !.n = n]
    <3>1. DOMAIN f = DOMAIN Here /\ f.op = Here.op /\ f.on = Here.on /\ f.next = Here.next
          /\ f.blocks = Here.blocks /\ Deadline(f.to)
      BY <1>3 DEF Streaming
    <3>2. Enter(f) BY <2>4
    <3> HIDE DEF f
    <3> QED BY <1>1, <1>3, <2>2, <2>4, <3>1, <3>2, StreamMoves DEF ServicesInv
  <2> QED BY <2>1, <2>3, <2>4
<1> QED BY <1>4, <1>5
LEMMA NextMessageLengthKeeps == ASSUME ServicesInv, NextMessageLength PROVE ServicesInv'
<1>1. PICK c \in Calls("nextLength") :
        UNCHANGED <<frame, obj>> /\ \E to \in {"asserted", "user"} : Moves("user", to, k)
  BY DEF NextMessageLength, InStream
<1>2. k.cur # TimerTask /\ Here = NoCall /\ k.susp = 0 BY Called
<1>3. Settled /\ obj'["timers"] = obj["timers"] BY <1>1, Unreplaced
<1>4. ASSUME NEW to \in {"asserted", "user"}
      PROVE  Places(to, NoCall, k.cur, obj, program) /\ ~Suspends(to, NoCall)
  BY DEF Places, Suspends, NoCall
<1> QED BY <1>1, <1>2, <1>3, <1>4, TaskGoes DEF ServicesInv
(* A stream that is replaced by a task in one step.                          *)
LEMMA StreamEdited ==
  ASSUME ServicesInv, NEW op \in {"resetStream", "trigger", "newStream", "deleteStream"}, NEW c \in Calls(op),
         Moves("user", "user", k), UNCHANGED frame, NEW o1, Put(c.on, o1), StreamSound(o1),
         \/ o1.kind = obj[c.on].kind \/ obj[c.on].kind = "none"
         \/ \A t \in Task : frame[t] # NoCall => frame[t].on # c.on
  PROVE  ServicesInv'
<1>1. c \in TaskCalls /\ c.op = op /\ k.susp = 0 BY Called
<1>2. c.on \in Streams BY <1>1, StreamCallKnown
<1>3. Settled /\ obj'["timers"] = obj["timers"] BY <1>2, StreamPut
<1> QED BY <1>1, <1>3, CallsOn DEF ServicesInv
LEMMA StreamReplacedKeeps ==
  ASSUME ServicesInv, StreamReset \/ SetTriggerLevel \/ StreamCreate \/ StreamDelete
  PROVE  ServicesInv'
<1>1. ASSUME NEW op \in {"resetStream", "trigger"}, NEW c \in InStream(op)
      PROVE  /\ c \in Calls(op) /\ obj[c.on].kind \in {"stream", "message"} /\ Ended(obj[c.on])
  <2>1. c \in Calls(op) /\ obj[c.on].kind \in {"stream", "message"} BY DEF InStream
  <2>2. c \in TaskCalls /\ c.op = op BY <2>1, Called
  <2>3. c.on \in Streams BY <2>2, StreamCallKnown
  <2> QED BY <2>1, <2>3 DEF ServicesInv, ObjectsSound, StreamSound, NoObject
<1>2. CASE StreamReset
  <2>1. PICK c \in InStream("resetStream") :
          /\ Moves("user", "user", k) /\ UNCHANGED frame
          /\ Put(c.on, [obj[c.on] EXCEPT !.head = 0, !.tail = 0, !.got = obj[c.on].sent])
    BY <1>2 DEF StreamReset
  <2> DEFINE o1 == [obj[c.on] EXCEPT !.head = 0, !.tail = 0, !.got = obj[c.on].sent]
  <2>2. c \in Calls("resetStream") /\ obj[c.on].kind \in {"stream", "message"} /\ Ended(obj[c.on]) BY <1>1
  <2>3. StreamSound(o1) /\ o1.kind = obj[c.on].kind BY <2>2 DEF StreamSound, Ended
  <2> HIDE DEF o1
  <2> QED BY <2>1, <2>2, <2>3, StreamEdited DEF o1
<1>3. CASE SetTriggerLevel
  <2>1. PICK c \in InStream("trigger") :
          /\ Moves("user", "user", k) /\ UNCHANGED frame /\ \E v : Put(c.on, [obj[c.on] EXCEPT !.trigger = v])
    BY <1>3 DEF SetTriggerLevel
  <2>2. PICK v : Put(c.on, [obj[c.on] EXCEPT !.trigger = v]) BY <2>1
  <2> DEFINE o1 == [obj[c.on] EXCEPT !.trigger = v]
  <2>3. c \in Calls("trigger") /\ obj[c.on].kind \in {"stream", "message"} /\ Ended(obj[c.on]) BY <1>1
  <2>4. StreamSound(o1) /\ o1.kind = obj[c.on].kind BY <2>3 DEF StreamSound, Ended
  <2> HIDE DEF o1
  <2> QED BY <2>1, <2>2, <2>3, <2>4, StreamEdited DEF o1
<1>4. CASE StreamCreate
  <2>1. PICK c \in Calls("newStream") :
          /\ obj[c.on].kind = "none" /\ Moves("user", "user", k) /\ UNCHANGED frame
          /\ Put(c.on, NewStream(c.kind, c.size, c.level))
    BY <1>4 DEF StreamCreate
  <2>2. c \in TaskCalls /\ c.op = "newStream" BY Called
  <2>3. c.kind \in {"stream", "message"} BY <2>2, StreamCallKnown
  <2>4. StreamSound(NewStream(c.kind, c.size, c.level)) BY <2>3 DEF StreamSound, NewStream, Ended
  <2> QED BY <2>1, <2>4, StreamEdited
<1>5. CASE StreamDelete
  <2>1. PICK c \in Calls("deleteStream") :
          NotInCall(c.on) /\ Moves("user", "user", k) /\ UNCHANGED frame /\ Put(c.on, NoObject)
    BY <1>5 DEF StreamDelete, InStream
  <2>2. StreamSound(NoObject) BY DEF StreamSound
  <2> QED BY <2>1, <2>2, StreamEdited DEF NotInCall
<1> QED BY <1>2, <1>3, <1>4, <1>5
LEMMA StreamISRsKeep == ASSUME ServicesInv, StreamSendFromISR \/ StreamReceiveFromISR PROVE ServicesInv'
<1>1. ASSUME NEW op \in {"put", "get"}, NEW c \in Interrupt(op), obj[c.on].kind # "none"
      PROVE  c.on \in Streams /\ Ended(obj[c.on]) /\ obj[c.on].kind \in {"stream", "message"}
  <2>1. c \in InterruptCalls /\ c.op = op BY InterruptKnown DEF Interrupt, ServicesInv
  <2>2. c.on \in Streams BY <2>1, InterruptSorts
  <2> QED BY <1>1, <2>2 DEF ServicesInv, ObjectsSound, StreamSound, NoObject
<1>2. ASSUME NEW u \in Task \cup {Nothing} PROVE Smooth(k, Told(u), IdleTask)
  BY CalmNotified, SmoothSelf DEF ServicesInv, Told
<1>3. Smooth(k, k, IdleTask) BY SmoothSelf DEF ServicesInv
<1>4. ASSUME NEW s \in Streams, Ended(obj[s]), obj[s].kind \in {"stream", "message"}, NEW o1, Put(s, o1), Ended(o1),
             o1.kind = obj[s].kind, NEW next, FromISR(next), Smooth(k, next, IdleTask)
      PROVE  ServicesInv'
  <2>1. Settled /\ obj'["timers"] = obj["timers"] BY <1>4, StreamPut DEF StreamSound
  <2> QED BY <1>4, <2>1, Disturbs
<1>5. CASE StreamSendFromISR
  <2>1. \E c \in Interrupt("put") : \E n, b :
          LET o2 == IF Header(obj[c.on]) = 0 THEN obj[c.on] ELSE Write(obj[c.on], <<[length |-> n]>>)
              o3 == WriteData(o2, n)
          IN /\ obj[c.on].kind # "none" /\ (FromISR(Told(obj[c.on].receiver)) \/ FromISR(k))
             /\ Put(c.on, [o3 EXCEPT !.receiver = b]) /\ b \in {Nothing, o3.receiver}
    <3>1. PICK c \in {d \in Interrupt("put") : obj[d.on].kind # "none"} :
            LET o == obj[c.on]
                n == IF Header(o) = 0 THEN Smaller(c.n, Space(o)) ELSE IF Space(o) > c.n THEN c.n ELSE 0
                o1 == WriteData(IF Header(o) = 0 THEN o ELSE Write(o, <<[length |-> n]>>), n)
                full == BytesIn(o1) >= o.trigger
            IN /\ FromISR(IF full THEN Told(o.receiver) ELSE k)
               /\ Put(c.on, [o1 EXCEPT !.receiver = IF full THEN Nothing ELSE o1.receiver])
      BY <1>5 DEF StreamSendFromISR
    <3> DEFINE o == obj[c.on]
               n == IF Header(o) = 0 THEN Smaller(c.n, Space(o)) ELSE IF Space(o) > c.n THEN c.n ELSE 0
               o3 == WriteData(IF Header(o) = 0 THEN o ELSE Write(o, <<[length |-> n]>>), n)
               full == BytesIn(o3) >= o.trigger
               b == IF full THEN Nothing ELSE o3.receiver
    <3>2. /\ FromISR(IF full THEN Told(o.receiver) ELSE k)
          /\ Put(c.on, [o3 EXCEPT !.receiver = b])
      BY <3>1
    <3>3. FromISR(Told(o.receiver)) \/ FromISR(k)
      <4> HIDE DEF full
      <4>1. CASE full BY <3>2, <4>1
      <4>2. CASE ~full BY <3>2, <4>2
      <4> QED BY <4>1, <4>2
    <3>4. b \in {Nothing, o3.receiver} OBVIOUS
    <3>5. c \in Interrupt("put") /\ obj[c.on].kind # "none" OBVIOUS
    <3> HIDE DEF n, full, b
    <3> QED BY <3>2, <3>3, <3>4, <3>5
  <2>2. PICK c \in Interrupt("put") : \E n, b :
          LET o2 == IF Header(obj[c.on]) = 0 THEN obj[c.on] ELSE Write(obj[c.on], <<[length |-> n]>>)
              o3 == WriteData(o2, n)
          IN /\ obj[c.on].kind # "none" /\ (FromISR(Told(obj[c.on].receiver)) \/ FromISR(k))
             /\ Put(c.on, [o3 EXCEPT !.receiver = b]) /\ b \in {Nothing, o3.receiver}
    BY <2>1
  <2>3. PICK n, b :
          LET o2 == IF Header(obj[c.on]) = 0 THEN obj[c.on] ELSE Write(obj[c.on], <<[length |-> n]>>)
              o3 == WriteData(o2, n)
          IN /\ obj[c.on].kind # "none" /\ (FromISR(Told(obj[c.on].receiver)) \/ FromISR(k))
             /\ Put(c.on, [o3 EXCEPT !.receiver = b]) /\ b \in {Nothing, o3.receiver}
    BY <2>2
  <2> DEFINE o2 == IF Header(obj[c.on]) = 0 THEN obj[c.on] ELSE Write(obj[c.on], <<[length |-> n]>>)
             o3 == WriteData(o2, n)
             o1 == [o3 EXCEPT !.receiver = b]
  <2>4. c.on \in Streams /\ Ended(obj[c.on]) /\ obj[c.on].kind \in {"stream", "message"} BY <1>1, <2>3
  <2>5. Ended(o2) /\ o2.kind = obj[c.on].kind BY <2>4, StreamEdits
  <2> HIDE DEF o2
  <2>6. Ended(o3) /\ o3.kind = o2.kind BY <2>5, StreamEdits
  <2>7. b \in Task \cup {Nothing} BY <2>3, <2>6 DEF Ended, o2
  <2> HIDE DEF o3
  <2>8. Ended(o1) /\ o1.kind = o3.kind BY <2>6, <2>7, StreamEdits
  <2>9. Put(c.on, o1) BY <2>3 DEF o2, o3
  <2> HIDE DEF o1
  <2>10. Smooth(k, Told(obj[c.on].receiver), IdleTask) BY <1>2, <2>4 DEF Ended
  <2> QED BY <1>3, <1>4, <2>3, <2>4, <2>5, <2>6, <2>8, <2>9, <2>10
<1>6. CASE StreamReceiveFromISR
  <2>1. PICK c \in Interrupt("get") : \E m :
          /\ obj[c.on].kind # "none" /\ FromISR(Told(obj[c.on].sender))
          /\ Put(c.on, [ReadData(Read(obj[c.on], Header(obj[c.on])), m) EXCEPT !.sender = Nothing])
    BY <1>6 DEF StreamReceiveFromISR
  <2>2. PICK m :
          /\ obj[c.on].kind # "none" /\ FromISR(Told(obj[c.on].sender))
          /\ Put(c.on, [ReadData(Read(obj[c.on], Header(obj[c.on])), m) EXCEPT !.sender = Nothing])
    BY <2>1
  <2> DEFINE o2 == Read(obj[c.on], Header(obj[c.on]))
             o3 == ReadData(o2, m)
             o1 == [o3 EXCEPT !.sender = Nothing]
  <2>3. c.on \in Streams /\ Ended(obj[c.on]) /\ obj[c.on].kind \in {"stream", "message"} BY <1>1, <2>2
  <2>4. Ended(o2) /\ o2.kind = obj[c.on].kind BY <2>3, StreamEdits
  <2> HIDE DEF o2
  <2>5. Ended(o3) /\ o3.kind = o2.kind BY <2>4, StreamEdits
  <2> HIDE DEF o3
  <2>6. Ended(o1) /\ o1.kind = o3.kind BY <2>5, StreamEdits
  <2>7. Put(c.on, o1) BY <2>2 DEF o2, o3
  <2> HIDE DEF o1
  <2>8. Smooth(k, Told(obj[c.on].sender), IdleTask) BY <1>2, <2>3 DEF Ended
  <2> QED BY <1>4, <2>2, <2>3, <2>4, <2>5, <2>6, <2>7, <2>8
<1> QED BY <1>5, <1>6
LEMMA StreamStepsKeep == ASSUME ServicesInv, StreamSteps PROVE ServicesInv'
BY StreamCallsKeep, RoomKeeps, SleepsKeep, ForgetKeeps, ExpiredKeeps, MeasureKeeps, BytesKeep, TellKeeps,
   NotifyOtherKeeps, LooksKeep, NextMessageLengthKeeps, StreamReplacedKeeps, StreamISRsKeep DEF StreamSteps

-----------------------------------------------------------------------------
(* The timer task, and the commands it is sent.                              *)
LEMMA TickFacts ==
  /\ TickRange \in Nat \ {0, 1} /\ MaxDelay = TickRange - 1 /\ 0 \in Ticks /\ 1 .. MaxDelay \subseteq Ticks
  /\ \A n \in Int : n % TickRange \in Ticks
<1>1. TickRange \in Nat \ {0, 1} BY TaskListsAssumption
<1>2. ASSUME NEW n \in Int PROVE n % TickRange \in Ticks
  <2>1. n % TickRange \in 0 .. TickRange - 1 BY <1>1, Division
  <2> QED BY <2>1 DEF Ticks
<1> QED BY <1>1, <1>2 DEF Ticks, MaxDelay
LEMMA TimersPut ==
  ASSUME ServicesInv, NEW o1, TimersSound(o1), NEW q1, Stocked(q1, Messages), q1.kind = "queue",
         obj' = [obj EXCEPT !["timers"] = o1, ![TimerQueue] = q1]
           \/ (q1 = obj[TimerQueue] /\ obj' = [obj EXCEPT !["timers"] = o1])
  PROVE  Settled /\ obj'["timers"] = o1
<1>1. /\ DOMAIN obj = Names /\ "timers" \in Names /\ TimerQueue \in Names
      /\ "timers" # TimerQueue
  BY Assumed DEF ServicesInv, ObjectsSound, Names, QueueObjects
<1>2. /\ DOMAIN obj' = Names /\ obj'["timers"] = o1 /\ obj'[TimerQueue] = q1
      /\ \A y \in Names : y # "timers" /\ y # TimerQueue => obj'[y] = obj[y]
  BY <1>1
<1>3. obj[TimerQueue].kind = "queue" BY DEF ServicesInv, ObjectsSound
<1>4. KindsKept(obj, obj')
  BY <1>2, <1>3, Assumed DEF KindsKept, KindKept, Names, QueueObjects
<1>5. ObjectsSound(obj', program)
  BY <1>2, Assumed DEF ServicesInv, ObjectsSound, Names, QueueObjects
<1> QED BY <1>2, <1>4, <1>5 DEF Settled
LEMMA TimersStand ==
  ASSUME ServicesInv
  PROVE  /\ TimersSound(T) /\ T.current \in Seq(Timers) /\ T.overflow \in Seq(Timers) /\ DOMAIN T = TimerFields
         /\ T.last \in Ticks /\ T.value \in [Timers -> Ticks] /\ T.period \in [Timers -> 1 .. MaxDelay]
         /\ Stocked(obj[TimerQueue], Messages) /\ obj[TimerQueue].kind = "queue"
         /\ TimerQueue \in QueueObjects /\ Stock(TimerQueue) = Messages
BY DEF ServicesInv, ObjectsSound, TimersSound, QueueObjects, Stock, T
TimerPlaces == {"await", "sleepUntil", "switch", "command", "act", "call", "commands", "expire"}
LEMMA Tended ==
  ASSUME ServicesInv, pc[k.cur] \in TimerPlaces
  PROVE  /\ k.cur = TimerTask /\ k.cur # IdleTask /\ AtTimers(pc[k.cur], Here) /\ Tending(Here)
         /\ Here # NoCall /\ Here.on = TimerQueue
         /\ Sampled(pc[k.cur], Here, T)
         /\ k.susp = IF Suspends(pc[k.cur], Here) THEN 1 ELSE 0
<1>1. k.cur = TimerTask /\ AtTimers(pc[k.cur], Here)
  BY Running DEF Places, AtQueue, StreamPlaces, TimerPlaces, Here
<1>2. Tending(Here) BY <1>1 DEF AtTimers
<1>3. Here # NoCall BY <1>2 DEF Tending, NoCall
<1> QED BY <1>1, <1>2, <1>3, Running, Assumed DEF Tending, ServicesInv, T, TimerPlaces, Here

(* The lists after a timer has been taken out, started or inserted.          *)
LEMMA ListedTimers ==
  ASSUME NEW o, TimersSound(o), NEW t \in Timers
  PROVE  /\ TimersSound(Stopped(o, t)) /\ TimersSound(Fire(o, t))
         /\ \A n \in Ticks : TimersSound([o EXCEPT !.last = n]) /\ TimersSound([o EXCEPT !.value[t] = n])
         /\ \A n \in 1 .. MaxDelay : TimersSound([o EXCEPT !.period[t] = n])
         /\ \A at : TimersSound(Begun(o, t, at))
         /\ \A s : TimersSound([o EXCEPT !.active = s])
         /\ TimersSound([o EXCEPT !.current = ListInsert(o.current, t, o.value)])
         /\ TimersSound([o EXCEPT !.overflow = ListInsert(o.overflow, t, o.value)])
<1>1. /\ DOMAIN o = TimerFields /\ o.current \in Seq(Timers) /\ o.overflow \in Seq(Timers)
      /\ o.last \in Ticks /\ o.value \in [Timers -> Ticks] /\ o.period \in [Timers -> 1 .. MaxDelay]
  BY DEF TimersSound
<1>2. RemoveFirst(o.current, t) \in Seq(Timers) /\ RemoveFirst(o.overflow, t) \in Seq(Timers)
  BY <1>1, Removed
<1>3. ListInsert(o.current, t, o.value) \in Seq(Timers) /\ ListInsert(o.overflow, t, o.value) \in Seq(Timers)
  BY <1>1, CalmListInsert
<1>4. TimersSound(Stopped(o, t)) BY <1>1, <1>2 DEF TimersSound, TimerFields, Stopped
<1>5. TimersSound(Fire(o, t)) BY <1>1 DEF TimersSound, TimerFields, Fire
<1>6. ASSUME NEW n \in Ticks PROVE TimersSound([o EXCEPT !.last = n]) /\ TimersSound([o EXCEPT !.value[t] = n])
  BY <1>1 DEF TimersSound, TimerFields
<1>7. ASSUME NEW n \in 1 .. MaxDelay PROVE TimersSound([o EXCEPT !.period[t] = n])
  BY <1>1 DEF TimersSound, TimerFields
<1>8. ASSUME NEW at PROVE TimersSound(Begun(o, t, at))
  BY <1>1 DEF TimersSound, TimerFields, Begun
<1>9. ASSUME NEW s PROVE TimersSound([o EXCEPT !.active = s])
  BY <1>1 DEF TimersSound, TimerFields
<1>10. TimersSound([o EXCEPT !.current = ListInsert(o.current, t, o.value)])
  BY <1>1, <1>3 DEF TimersSound, TimerFields
<1>11. TimersSound([o EXCEPT !.overflow = ListInsert(o.overflow, t, o.value)])
  BY <1>1, <1>3 DEF TimersSound, TimerFields
<1> QED BY <1>4, <1>5, <1>6, <1>7, <1>8, <1>9, <1>10, <1>11
(* A timer goes to the list of those after the wrap only when the tick is    *)
(* not 0: at tick 0 it would be due.                                         *)
LEMMA InsertFacts ==
  ASSUME NEW o, TimersSound(o), NEW t \in Timers, NEW now \in Ticks, NEW command \in Ticks
  PROVE  LET o1 == InsertTimer(o, t, (command + o.period[t]) % TickRange, now, command)
         IN /\ TimersSound(o1) /\ o1.last = o.last
            /\ o1.overflow # <<>> => o.overflow # <<>> \/ now > 0
<1> DEFINE expiry == (command + o.period[t]) % TickRange
           o1 == [o EXCEPT !.value[t] = expiry]
           o2 == [o1 EXCEPT !.overflow = ListInsert(o1.overflow, t, o1.value)]
           o3 == [o1 EXCEPT !.current = ListInsert(o1.current, t, o1.value)]
<1>1. DOMAIN o = TimerFields /\ o.period[t] \in 1 .. MaxDelay BY DEF TimersSound
<1>2. expiry \in Ticks BY <1>1, TickFacts DEF Ticks
<1>3. now = 0 /\ expiry <= now => Overdue(o, t, expiry, now, command)
  <2> DEFINE p == o.period[t]
  <2>1. SUFFICES ASSUME now = 0, expiry <= now PROVE (now - command) % TickRange >= p
    BY DEF Overdue
  <2>2. p \in 1 .. TickRange - 1 /\ command \in 0 .. TickRange - 1 /\ TickRange \in Nat \ {0}
    BY <1>1, TickFacts DEF Ticks
  <2> HIDE DEF p
  <2>3. (command + p) % TickRange = 0 BY <1>2, <2>1 DEF Ticks, p
  <2>4. (command + p) % TickRange = IF command + p < TickRange THEN command + p ELSE command + p - TickRange
    <3>1. command + p \in 0 .. 2 * TickRange - 1 BY <2>2
    <3> QED BY <2>2, <3>1
  <2>5. command = TickRange - p BY <2>2, <2>3, <2>4
  <2>6. (now - command) % TickRange = (p - TickRange) % TickRange BY <2>1, <2>2, <2>5
  <2>7. (p - TickRange) % TickRange = p BY <2>2
  <2> QED BY <2>2, <2>6, <2>7
<1> HIDE DEF expiry
<1>4. TimersSound(o1) /\ o1.last = o.last /\ o1.overflow = o.overflow /\ DOMAIN o1 = TimerFields
  BY <1>1, <1>2, ListedTimers DEF TimerFields
<1> HIDE DEF o1
<1>5. TimersSound(o2) /\ TimersSound(o3) BY <1>4, ListedTimers
<1>6. o2.last = o1.last /\ o3.last = o1.last /\ o3.overflow = o1.overflow BY <1>4 DEF TimerFields
<1>7. InsertTimer(o, t, expiry, now, command) =
        IF Overdue(o, t, expiry, now, command) THEN o1 ELSE IF expiry <= now THEN o2 ELSE o3
  BY DEF InsertTimer, o1
<1> HIDE DEF o2, o3
<1>8. now = 0 \/ now > 0 BY DEF Ticks
<1> QED BY <1>3, <1>4, <1>5, <1>6, <1>7, <1>8 DEF expiry

(* A step of the timer task that may send itself a command.                  *)
LEMMA TimerGoes ==
  ASSUME ServicesInv, pc[k.cur] \in TimerPlaces, NEW to, NEW next, NEW f, Moves(pc[k.cur], to, next),
         Enter(f) \/ (UNCHANGED frame /\ f = Here) \/ (Leave /\ f = NoCall),
         f = NoCall \/ f.on = TimerQueue, Places(to, f, TimerTask, obj, program), Settled,
         Calm(next, IdleTask), next.cur = k.cur,
         to # "asserted" => next.susp = IF Suspends(to, f) THEN 1 ELSE 0,
         Sampled(to, f, obj'["timers"])
  PROVE  ServicesInv'
<1>1. k.cur = TimerTask /\ Here # NoCall /\ Here.on = TimerQueue BY Tended
<1> QED BY <1>1, TaskGoes
LEMMA SendsKeeps ==
  ASSUME ServicesInv, pc[k.cur] \in TimerPlaces, NEW o, TimersSound(o), NEW message, NEW b, b => message \in Messages,
         NEW to, SendsIf(b, o, message, to), UNCHANGED frame,
         AtTimers(to, Here), Suspends(to, Here) <=> Suspends(pc[k.cur], Here), Sampled(to, Here, o)
  PROVE  ServicesInv'
<1>1. /\ k.cur = TimerTask /\ Here.on = TimerQueue /\ Tending(Here)
      /\ k.susp = IF Suspends(to, Here) THEN 1 ELSE 0
  BY Tended
<1>2. Stocked(obj[TimerQueue], Messages) /\ obj[TimerQueue].kind = "queue" BY TimersStand
<1>3. Calm(k, IdleTask) BY DEF ServicesInv
<1>4. Places(to, Here, TimerTask, obj, program) BY <1>1 DEF Places
<1>5. CASE ~b
  <2>1. Moves(pc[k.cur], to, k) /\ obj' = [obj EXCEPT !["timers"] = o] BY <1>5, Zenon DEF SendsIf, Timed
  <2>2. Settled /\ obj'["timers"] = o BY <1>2, <2>1, TimersPut
  <2> QED BY <1>1, <1>3, <1>4, <2>1, <2>2, TimerGoes
<1>6. CASE b
  <2> DEFINE full == Full(obj[TimerQueue])
             to1 == IF full THEN "asserted" ELSE to
             q1 == IF full THEN obj[TimerQueue] ELSE CopyIn(obj[TimerQueue], message, "back")
  <2>0. Sends(o, message, to) BY <1>6, Zenon DEF SendsIf
  <2>1. Moves(pc[k.cur], to1, k) /\ obj' = [obj EXCEPT !["timers"] = o, ![TimerQueue] = q1]
    <3>1. /\ Moves(pc[k.cur], to1, k)
          /\ obj' = [obj EXCEPT !["timers"] = o,
                                ![TimerQueue] = IF Full(obj[TimerQueue]) THEN obj[TimerQueue]
                                                ELSE CopyIn(obj[TimerQueue], message, "back")]
      BY <2>0, Assumed DEF Sends
    <3> QED BY <3>1
  <2>2. Stocked(q1, Messages) /\ q1.kind = "queue"
    <3>1. CASE full BY <1>2, <3>1
    <3>2. CASE ~full
      <4> DEFINE q2 == CopyIn(obj[TimerQueue], message, "back")
      <4>1. CopiedIn(obj[TimerQueue], q2, message, "back") /\ Stocked(q2, Messages)
        BY <1>2, <1>6, <3>2, CopyInFacts DEF Admits
      <4>2. q1 = q2 BY <3>2
      <4> HIDE DEF q1, q2
      <4>3. q2.kind = obj[TimerQueue].kind BY <4>1 DEF CopiedIn, Others
      <4> QED BY <1>2, <4>1, <4>2, <4>3
    <3> QED BY <3>1, <3>2
  <2> HIDE DEF q1
  <2>3. Settled /\ obj'["timers"] = o BY <2>1, <2>2, TimersPut
  <2>4. Places("asserted", Here, TimerTask, obj, program) BY <1>1 DEF Places, Tending
  <2>5. Sampled("asserted", Here, o) BY DEF Sampled
  <2>6. to1 = to \/ to1 = "asserted" OBVIOUS
  <2> HIDE DEF to1
  <2>7. CASE to1 = "asserted" BY <1>1, <1>3, <2>1, <2>3, <2>4, <2>5, <2>7, TimerGoes
  <2>8. CASE to1 = to BY <1>1, <1>3, <1>4, <2>1, <2>3, <2>8, TimerGoes
  <2> QED BY <2>6, <2>7, <2>8
<1> QED BY <1>5, <1>6

LEMMA TimerLookKeeps == ASSUME ServicesInv, TimerLook PROVE ServicesInv'
<1> DEFINE wrapped == k.tick < T.last
           due == T.current # <<>> /\ NextExpiry(T) <= k.tick
           to == IF wrapped THEN "switch" ELSE IF due THEN "resume" ELSE "await"
           next == IF due /\ ~wrapped THEN "expire" ELSE "commands"
           f == [op |-> "timer", on |-> TimerQueue, now |-> k.tick, message |-> Nothing,
                 after |-> "resume", next |-> next, blocks |-> FALSE]
           o == [T EXCEPT !.last = k.tick]
           j == SuspendAll(k)
<1>1. /\ k.cur = TimerTask /\ pc[k.cur] = "user" /\ Moves("user", to, j) /\ Enter(f)
      /\ obj' = [obj EXCEPT !["timers"] = o]
  BY DEF TimerLook, Timed
<1>2. TimersSound(T) /\ DOMAIN T = TimerFields /\ T.last \in Ticks /\ T.current \in Seq(Timers)
      /\ T.value \in [Timers -> Ticks] /\ Stocked(obj[TimerQueue], Messages) /\ obj[TimerQueue].kind = "queue"
  BY TimersStand
<1>3. k.tick \in Ticks BY CalmShape DEF ServicesInv
<1>4. TimersSound(o) /\ o.last = k.tick /\ o.current = T.current /\ o.overflow = T.overflow /\ o.value = T.value
  BY <1>2, <1>3 DEF TimersSound, TimerFields
<1>5. Settled /\ obj'["timers"] = o BY <1>1, <1>2, <1>4, TimersPut
<1>6. k.susp = 0 BY <1>1, Running DEF Suspends
<1>7. Calm(j, IdleTask) /\ j.cur = k.cur /\ j.susp = 1 BY <1>6, SuspendedAll DEF ServicesInv
<1> HIDE DEF o, j
<1>8. T.overflow # <<>> => T.last > 0 BY <1>1, Running DEF ServicesInv, Sampled, T
<1>9. f.on = TimerQueue /\ f.now = k.tick /\ f.next = next /\ f.after = "resume" /\ f.blocks = FALSE
      /\ Tending(f)
  BY <1>3 DEF Tending
<1> HIDE DEF f
<1>10. Suspends(to, f) BY <1>9 DEF Suspends
<1>11. Places(to, f, k.cur, obj, program) BY <1>1, <1>9 DEF Places, Resumable, AtTimers
<1>12. Sampled(to, f, o)
  <2>1. T.overflow # <<>> /\ ~wrapped => k.tick > 0 BY <1>2, <1>3, <1>8 DEF Ticks
  <2>2. ~wrapped /\ ~due /\ T.current # <<>> => T.value[Head(T.current)] > k.tick
    <3>1. ASSUME T.current # <<>> PROVE T.value[Head(T.current)] \in Int
      <4>1. Head(T.current) \in Timers BY <1>2, <3>1
      <4> QED BY <1>2, <4>1 DEF Ticks
    <3> QED BY <1>3, <3>1 DEF NextExpiry, Ticks
  <2> QED BY <1>4, <1>9, <2>1, <2>2 DEF Sampled
<1>13. KindKept(f, obj, obj')
  <2>1. obj'[TimerQueue] = obj[TimerQueue] BY <1>1, Assumed
  <2> QED BY <1>9, <2>1 DEF KindKept
<1> QED BY <1>1, <1>5, <1>7, <1>10, <1>11, <1>12, <1>13, TaskGoes

LEMMA SwitchOneKeeps == ASSUME ServicesInv, SwitchOne PROVE ServicesInv'
<1> DEFINE t == Head(T.current)
           expire == T.value[t]
           again == (expire + T.period[t]) % TickRange
           o1 == Fire(Stopped(T, t), t)
           later == T.reload[t] /\ again > expire
           o2 == [o1 EXCEPT !.value[t] = again]
           o3 == [o2 EXCEPT !.current = ListInsert(o2.current, t, o2.value)]
           o == IF later THEN o3 ELSE o1
           b == T.reload[t] /\ ~later
           message == Command("again", t, expire)
<1>1. pc[k.cur] = "switch" /\ T.current # <<>> /\ SendsIf(b, o, message, "switch") /\ UNCHANGED frame
  BY DEF SwitchOne
<1>2. pc[k.cur] \in TimerPlaces BY <1>1 DEF TimerPlaces
<1>3. AtTimers("switch", Here) /\ Sampled("switch", Here, T) BY <1>1, <1>2, Tended
<1>4. TimersSound(T) /\ T.current \in Seq(Timers) /\ T.value \in [Timers -> Ticks]
      /\ T.period \in [Timers -> 1 .. MaxDelay] /\ DOMAIN T = TimerFields
  BY TimersStand
<1>5. t \in Timers BY <1>1, <1>4
<1> HIDE DEF t
<1>6. expire \in Ticks /\ T.period[t] \in 1 .. MaxDelay BY <1>4, <1>5
<1>7. again \in Ticks
  <2>1. expire + T.period[t] \in Int BY <1>6, TickFacts DEF Ticks
  <2> QED BY <2>1, TickFacts
<1>8. message \in Messages
  <2>1. message \in Timing /\ message.cmd = "again" BY <1>5, <1>6 DEF Timing, Command
  <2> HIDE DEF message
  <2> QED BY <2>1 DEF Messages, Commands
<1> HIDE DEF expire, again, message, later
<1>9. TimersSound(o1) /\ o1.last = T.last /\ DOMAIN o1 = TimerFields
  <2>1. TimersSound(Stopped(T, t)) BY <1>4, <1>5, ListedTimers
  <2>2. TimersSound(o1) BY <1>5, <2>1, ListedTimers
  <2>3. o1.last = T.last /\ DOMAIN o1 = TimerFields BY <1>4 DEF Fire, Stopped, TimerFields
  <2> QED BY <2>2, <2>3
<1> HIDE DEF o1
<1>10. TimersSound(o2) /\ o2.last = T.last /\ DOMAIN o2 = TimerFields
  <2>1. TimersSound(o2) BY <1>5, <1>7, <1>9, ListedTimers
  <2> QED BY <1>9, <2>1 DEF TimerFields
<1> HIDE DEF o2
<1>11. TimersSound(o3) /\ o3.last = T.last
  <2>1. TimersSound(o3) BY <1>5, <1>10, ListedTimers
  <2> QED BY <1>10, <2>1 DEF TimerFields
<1> HIDE DEF o3
<1>12. TimersSound(o) /\ o.last = T.last BY <1>9, <1>11
<1> HIDE DEF o
<1>13. Sampled("switch", Here, o) BY <1>3, <1>12 DEF Sampled
<1> QED BY <1>1, <1>2, <1>3, <1>8, <1>12, <1>13, SendsKeeps
LEMMA SwitchDoneKeeps == ASSUME ServicesInv, SwitchDone PROVE ServicesInv'
<1> DEFINE o == [T EXCEPT !.current = T.overflow, !.overflow = <<>>]
           to == Here.after
<1>1. /\ pc[k.cur] = "switch" /\ Moves(pc[k.cur], to, k) /\ UNCHANGED frame
      /\ obj' = [obj EXCEPT !["timers"] = o]
  BY DEF SwitchDone, Goes, Timed
<1>2. pc[k.cur] \in TimerPlaces BY <1>1 DEF TimerPlaces
<1>3. AtTimers("switch", Here) /\ Tending(Here) /\ Sampled("switch", Here, T) /\ Here.on = TimerQueue
      /\ k.susp = IF Suspends("switch", Here) THEN 1 ELSE 0
  BY <1>1, <1>2, Tended
<1>4. TimersSound(T) /\ DOMAIN T = TimerFields /\ Stocked(obj[TimerQueue], Messages) /\ obj[TimerQueue].kind = "queue"
  BY TimersStand
<1>5. TimersSound(o) /\ o.overflow = <<>> /\ o.last = T.last
  <2>1. <<>> \in Seq(Timers) OBVIOUS
  <2> QED BY <1>4, <2>1 DEF TimersSound, TimerFields
<1> HIDE DEF o
<1>6. Settled /\ obj'["timers"] = o BY <1>1, <1>4, <1>5, TimersPut
<1>7. to \in {"resume", "act"} /\ Here.next = "commands" /\ (to = "act" => Here.message \in Commands)
  BY <1>3 DEF AtTimers, Tending
<1>8. Places(to, Here, TimerTask, obj, program) BY <1>3, <1>7 DEF Places, Resumable, AtTimers
<1>9. Suspends("switch", Here) <=> Suspends(to, Here) BY <1>7 DEF Suspends
<1>10. Sampled(to, Here, o) BY <1>3, <1>5, <1>7 DEF Sampled
<1> QED BY <1>1, <1>2, <1>3, <1>6, <1>8, <1>9, <1>10, TimerGoes DEF ServicesInv

LEMMA AwaitKeeps == ASSUME ServicesInv, Await PROVE ServicesInv'
<1> DEFINE q == TimerQueue
           o1 == Locked(obj[q])
           f == [Here EXCEPT !.blocks = TRUE]
<1>1. pc[k.cur] = "await" /\ Moves(pc[k.cur], "sleepUntil", k) /\ Enter(f) /\ Put(q, o1)
  BY DEF Await, Moves
<1>2. pc[k.cur] \in TimerPlaces BY <1>1 DEF TimerPlaces
<1>3. /\ AtTimers("await", Here) /\ Tending(Here) /\ Sampled("await", Here, T)
      /\ k.susp = IF Suspends("await", Here) THEN 1 ELSE 0
  BY <1>1, <1>2, Tended
<1>4. Stocked(obj[q], Stock(q)) /\ obj[q].kind = "queue" /\ q \in QueueObjects BY TimersStand
<1>5. Settled /\ obj'["timers"] = T
  <2>1. QueueFields \subseteq DOMAIN obj[q] /\ Aside(obj[q]) BY <1>4 DEF Stocked
  <2>2. /\ o1.kind = obj[q].kind /\ o1.len = obj[q].len /\ o1.n = obj[q].n /\ o1.slots = obj[q].slots
        /\ o1.write = obj[q].write /\ o1.read = obj[q].read /\ DOMAIN o1 = DOMAIN obj[q] /\ Aside(o1)
    BY <2>1 DEF QueueFields, Aside, Locked
  <2> HIDE DEF o1
  <2> QED BY <1>1, <1>4, <2>2, Adjusted DEF T
<1>6. /\ Tending(f) /\ f.on = TimerQueue /\ f.next = Here.next /\ f.now = Here.now
      /\ f.after = Here.after /\ Here.next = "commands"
  BY <1>3 DEF Tending, AtTimers
<1> HIDE DEF f
<1>7. Places("sleepUntil", f, TimerTask, obj, program) BY <1>6 DEF Places, AtTimers
<1>8. Sampled("sleepUntil", f, T) BY <1>3, <1>6 DEF Sampled
<1>9. k.susp = IF Suspends("sleepUntil", f) THEN 1 ELSE 0 BY <1>3 DEF Suspends
<1> QED BY <1>1, <1>2, <1>5, <1>6, <1>7, <1>8, <1>9, TimerGoes DEF ServicesInv
LEMMA SleepUntilKeeps == ASSUME ServicesInv, SleepUntil PROVE ServicesInv'
<1> DEFINE n == (NextExpiry(T) - Here.now) % TickRange
           forever == T.current = <<>> /\ T.overflow = <<>>
           e == Rx(TimerQueue)
           asleep == PlaceOnEventListRestricted(k, e, n, forever)
           next == IF Empty(obj[TimerQueue]) THEN asleep ELSE k
<1>1. pc[k.cur] = "sleepUntil" /\ Moves(pc[k.cur], "unlockTx", next) /\ UNCHANGED frame /\ obj' = obj
  BY DEF SleepUntil, Goes, Moves
<1>2. pc[k.cur] \in TimerPlaces BY <1>1 DEF TimerPlaces
<1>3. /\ k.cur # IdleTask /\ AtTimers("sleepUntil", Here) /\ Tending(Here) /\ Here.on = TimerQueue
      /\ Sampled("sleepUntil", Here, T) /\ k.susp = IF Suspends("sleepUntil", Here) THEN 1 ELSE 0
  BY <1>1, <1>2, Tended
<1>4. T.current \in Seq(Timers) /\ T.value \in [Timers -> Ticks] /\ T.last \in Ticks
  BY TimersStand
<1>5. Settled /\ obj'["timers"] = T BY <1>1, Unreplaced DEF T
<1>6. Here.now \in Ticks /\ Here.now = T.last BY <1>3 DEF Tending, Sampled
<1>7. forever \/ n \in 1 .. MaxDelay
  <2> DEFINE a == NextExpiry(T)
             d == a - Here.now
  <2>1. CASE T.current # <<>>
    <3>1. Head(T.current) \in Timers BY <1>4, <2>1
    <3>2. a \in Ticks /\ a > Here.now BY <1>3, <1>4, <2>1, <3>1 DEF NextExpiry, Sampled
    <3> HIDE DEF a
    <3>3. d \in 1 .. TickRange - 1 BY <1>6, <3>2, TickFacts DEF Ticks
    <3> HIDE DEF d
    <3>4. d = 0 * TickRange + d /\ d \in 0 .. TickRange - 1 BY <3>3, TickFacts
    <3>5. d % TickRange = d BY <3>3, <3>4, TickFacts
    <3> QED BY <3>3, <3>5, TickFacts DEF d, a
  <2>2. CASE T.current = <<>> /\ T.overflow # <<>>
    <3>1. a = 0 /\ Here.now > 0 BY <1>3, <1>6, <2>2 DEF NextExpiry, Sampled
    <3> HIDE DEF a
    <3>2. d \in Int /\ TickRange - Here.now \in 1 .. TickRange - 1 /\ d = (0 - 1) * TickRange + (TickRange - Here.now)
      BY <1>6, <3>1, TickFacts DEF Ticks
    <3> HIDE DEF d
    <3>3. d % TickRange = TickRange - Here.now
      <4>1. TickRange - Here.now \in 0 .. TickRange - 1 /\ 0 - 1 \in Int BY <3>2
      <4> QED BY <3>2, <4>1, Residue, TickFacts
    <3> QED BY <3>2, <3>3, TickFacts DEF d, a
  <2> QED BY <2>1, <2>2
<1>8. forever \in BOOLEAN /\ e \in EventLists BY Assumed DEF QueueObjects
<1> HIDE DEF n, forever, e
<1>9. Smooth(k, asleep, IdleTask) BY <1>3, <1>7, <1>8, CalmPlacedRestricted, Assumed DEF ServicesInv
<1> HIDE DEF asleep
<1>10. Calm(next, IdleTask) /\ next.cur = k.cur /\ next.susp = k.susp BY <1>9 DEF Smooth, Ranks, ServicesInv
<1> HIDE DEF next
<1>11. Places("unlockTx", Here, TimerTask, obj, program) BY <1>3 DEF Places, AtTimers
<1>12. Sampled("unlockTx", Here, T) BY <1>3 DEF Sampled
<1>13. k.susp = IF Suspends("unlockTx", Here) THEN 1 ELSE 0 BY <1>3 DEF Suspends
<1> QED BY <1>1, <1>2, <1>3, <1>5, <1>10, <1>11, <1>12, <1>13, TimerGoes

LEMMA ExpireKeeps == ASSUME ServicesInv, Expire PROVE ServicesInv'
<1> DEFINE t == Head(T.current)
           expire == T.value[t]
           again == (expire + T.period[t]) % TickRange
           o1 == Fire(Stopped(T, t), t)
           o2 == InsertTimer(o1, t, again, Here.now, expire)
           o3 == [o1 EXCEPT !.active = o1.active \ {t}]
           o == IF T.reload[t] THEN o2 ELSE o3
           b == T.reload[t] /\ Overdue(T, t, again, Here.now, expire)
           message == Command("again", t, expire)
<1>1. pc[k.cur] = "expire" /\ SendsIf(b, o, message, "commands") /\ UNCHANGED frame
  BY DEF Expire
<1>2. pc[k.cur] \in TimerPlaces BY <1>1 DEF TimerPlaces
<1>3. AtTimers("expire", Here) /\ Tending(Here) /\ Sampled("expire", Here, T) BY <1>1, <1>2, Tended
<1>4. TimersSound(T) /\ T.current \in Seq(Timers) /\ T.overflow \in Seq(Timers) /\ T.value \in [Timers -> Ticks]
      /\ T.period \in [Timers -> 1 .. MaxDelay] /\ DOMAIN T = TimerFields /\ T.last \in Ticks
  BY TimersStand
<1>5. t \in Timers /\ Here.now = T.last /\ Here.now \in Ticks BY <1>3, <1>4 DEF Sampled
<1>6. T.overflow # <<>> => T.last > 0 BY <1>3 DEF Sampled
<1> HIDE DEF t
<1>7. expire \in Ticks BY <1>4, <1>5
<1>8. message \in Messages
  <2>1. message \in Timing /\ message.cmd = "again" BY <1>5, <1>7 DEF Timing, Command
  <2> HIDE DEF message
  <2> QED BY <2>1 DEF Messages, Commands
<1>9. TimersSound(o1) /\ o1.last = T.last /\ DOMAIN o1 = TimerFields /\ o1.period = T.period
      /\ (o1.overflow # <<>> => T.overflow # <<>>)
  <2>1. TimersSound(Stopped(T, t)) BY <1>4, <1>5, ListedTimers
  <2>2. TimersSound(o1) BY <1>5, <2>1, ListedTimers
  <2>3. o1.last = T.last /\ DOMAIN o1 = TimerFields /\ o1.period = T.period /\ o1.overflow = RemoveFirst(T.overflow, t)
    BY <1>4 DEF Fire, Stopped, TimerFields
  <2>4. T.overflow = <<>> => RemoveFirst(T.overflow, t) = <<>>
    <3>1. T.overflow = <<>> => ~Contains(T.overflow, t) BY DEF Contains
    <3> QED BY <1>4, <3>1, Removed
  <2> QED BY <2>2, <2>3, <2>4
<1> HIDE DEF expire, message, o1
<1>10. TimersSound(o2) /\ o2.last = T.last /\ (o2.overflow # <<>> => T.overflow # <<>> \/ Here.now > 0)
  <2>1. o2 = InsertTimer(o1, t, (expire + o1.period[t]) % TickRange, Here.now, expire) BY <1>9
  <2> HIDE DEF o2
  <2> QED BY <1>5, <1>7, <1>9, <2>1, InsertFacts
<1> HIDE DEF o2
<1>11. TimersSound(o3) /\ o3.last = T.last /\ o3.overflow = o1.overflow
  <2> DEFINE s == o1.active \ {t}
  <2>1. o3 = [o1 EXCEPT !.active = s] OBVIOUS
  <2> HIDE DEF s, o3
  <2>2. TimersSound(o3) BY <1>5, <1>9, <2>1, ListedTimers
  <2> QED BY <1>9, <2>1, <2>2 DEF TimerFields
<1> HIDE DEF o3
<1>12. TimersSound(o) /\ o.last = T.last /\ (o.overflow # <<>> => T.last > 0)
  BY <1>5, <1>6, <1>9, <1>10, <1>11
<1> HIDE DEF o, b
<1>13. Sampled("commands", Here, o) BY <1>12 DEF Sampled
<1>14. AtTimers("commands", Here) BY <1>3 DEF AtTimers
<1>15. Suspends("commands", Here) <=> Suspends("expire", Here) BY DEF Suspends
<1> QED BY <1>1, <1>2, <1>8, <1>12, <1>13, <1>14, <1>15, SendsKeeps

LEMMA NextCommandKeeps == ASSUME ServicesInv, NextCommand PROVE ServicesInv'
<1> DEFINE q == TimerQueue
           o == TakeOut(obj[q])
           m == o.out
           to == IF m.cmd = "call" THEN "call" ELSE "command"
           next == WakeOne(k, Tx(q))
           f == [Here EXCEPT !.message = m, !.after = "act", !.next = "commands", !.blocks = FALSE]
<1>1. /\ pc[k.cur] = "commands"
      /\ IF Empty(obj[q]) THEN Returns("commands", k) /\ UNCHANGED obj
         ELSE Moves("commands", to, next) /\ Enter(f) /\ Put(q, o)
  BY DEF NextCommand
<1>2. pc[k.cur] \in TimerPlaces BY <1>1 DEF TimerPlaces
<1>3. /\ k.cur = TimerTask /\ Tending(Here) /\ Sampled("commands", Here, T) /\ k.susp = 0
  BY <1>1, <1>2, Tended DEF Suspends
<1>4. Stocked(obj[q], Messages) /\ obj[q].kind = "queue" /\ q \in QueueObjects /\ Stock(q) = Messages
  BY TimersStand
<1>5. CASE Empty(obj[q])
  <2>1. Moves(pc[k.cur], "user", k) /\ Leave /\ obj' = obj BY <1>1, <1>5 DEF Returns
  <2>2. Settled /\ obj'["timers"] = T BY <2>1, Unreplaced DEF T
  <2>3. Places("user", NoCall, TimerTask, obj, program) BY DEF Places
  <2>4. ~Suspends("user", NoCall) BY DEF Suspends
  <2>5. Sampled("user", NoCall, T) BY <1>3 DEF Sampled
  <2> QED BY <1>2, <1>3, <2>1, <2>2, <2>3, <2>4, <2>5, TimerGoes DEF ServicesInv
<1>6. CASE ~Empty(obj[q])
  <2>1. Moves(pc[k.cur], to, next) /\ Enter(f) /\ Put(q, o) BY <1>1, <1>6
  <2>2. Stocked(o, Messages) /\ o.kind = obj[q].kind /\ o.len = obj[q].len /\ m \in Messages
    <3>1. obj[q].n # 0 BY <1>6 DEF Empty
    <3>2. Stocked(o, Messages) /\ CopiedOut(obj[q], o) /\ Inside(obj[q], 1) \in Messages
      BY <1>4, <3>1, CopyOutFacts
    <3> HIDE DEF o
    <3> QED BY <1>4, <3>2 DEF CopiedOut, Others
  <2> HIDE DEF o, m
  <2>3. Settled /\ obj'["timers"] = T
    <3>1. Suited(q, o) BY <1>4, <2>2, Restocked
    <3> QED BY <2>1, <3>1, Replaced DEF Put, T
  <2>4. Smooth(k, next, IdleTask) BY <1>4, CalmWoken, Assumed DEF ServicesInv
  <2>5. Calm(next, IdleTask) /\ next.cur = k.cur /\ next.susp = 0 BY <1>3, <2>4 DEF Smooth, Ranks
  <2> HIDE DEF next
  <2>6. Tending(f) /\ f.on = q /\ f.next = "commands" /\ f.after = "act" /\ f.message = m
    BY <1>3 DEF Tending
  <2> HIDE DEF f
  <2>7. to \in {"call", "command"} /\ (to = "call" => m \in Callbacks) /\ (to = "command" => m \in Commands)
    BY <2>2 DEF Messages, Commands, Timing, Callbacks
  <2>8. Places(to, f, TimerTask, obj, program) BY <2>6, <2>7 DEF Places, AtTimers
  <2>9. ~Suspends(to, f) /\ Sampled(to, f, T) BY <1>3, <2>7 DEF Suspends, Sampled
  <2> HIDE DEF to
  <2> QED BY <1>2, <2>1, <2>3, <2>5, <2>6, <2>8, <2>9, TimerGoes
<1> QED BY <1>5, <1>6
LEMMA SampleTimeKeeps == ASSUME ServicesInv, SampleTime PROVE ServicesInv'
<1> DEFINE t == Here.message.timer
           o1 == Stopped(T, t)
           o == [o1 EXCEPT !.last = k.tick]
           to == IF k.tick < T.last THEN "switch" ELSE "act"
           f == [Here EXCEPT !.now = k.tick]
<1>1. pc[k.cur] = "command" /\ Moves(pc[k.cur], to, k) /\ Enter(f) /\ obj' = [obj EXCEPT !["timers"] = o]
  BY DEF SampleTime, Timed, Moves
<1>2. pc[k.cur] \in TimerPlaces BY <1>1 DEF TimerPlaces
<1>3. /\ k.cur = TimerTask /\ Tending(Here) /\ Sampled("command", Here, T) /\ k.susp = 0
      /\ AtTimers("command", Here)
  BY <1>1, <1>2, Tended DEF Suspends
<1>4. Here.message \in Commands /\ t \in Timers BY <1>3 DEF AtTimers, Commands, Timing
<1>5. TimersSound(T) /\ T.overflow \in Seq(Timers) /\ DOMAIN T = TimerFields /\ T.last \in Ticks
      /\ Stocked(obj[TimerQueue], Messages) /\ obj[TimerQueue].kind = "queue"
  BY TimersStand
<1>6. k.tick \in Ticks BY CalmShape DEF ServicesInv
<1>7. TimersSound(o1) /\ o1.overflow = RemoveFirst(T.overflow, t) /\ DOMAIN o1 = TimerFields
  <2>1. TimersSound(o1) BY <1>4, <1>5, ListedTimers
  <2> QED BY <1>5, <2>1 DEF Stopped, TimerFields
<1>8. T.overflow = <<>> => RemoveFirst(T.overflow, t) = <<>>
  <2> HIDE DEF t, o1
  <2>1. T.overflow = <<>> => ~Contains(T.overflow, t) BY DEF Contains
  <2> QED BY <1>5, <2>1, Removed
<1> HIDE DEF o1, t
<1>9. TimersSound(o) /\ o.last = k.tick /\ (o.overflow # <<>> => T.overflow # <<>>)
  <2>1. TimersSound(o) BY <1>4, <1>6, <1>7, ListedTimers
  <2> QED BY <1>7, <1>8, <2>1 DEF TimerFields
<1> HIDE DEF o
<1>10. Settled /\ obj'["timers"] = o BY <1>1, <1>5, <1>9, TimersPut
<1>11. /\ Tending(f) /\ f.on = TimerQueue /\ f.now = k.tick /\ f.after = Here.after /\ f.next = Here.next
       /\ f.message = Here.message
  BY <1>3, <1>6 DEF Tending
<1> HIDE DEF f
<1>12. Places(to, f, TimerTask, obj, program) BY <1>3, <1>11 DEF Places, AtTimers
<1>13. ~Suspends(to, f) BY <1>3, <1>11 DEF Suspends, AtTimers
<1>14. Sampled(to, f, o)
  <2>1. ~(k.tick < T.last) /\ T.last > 0 => k.tick > 0 BY <1>5, <1>6 DEF Ticks
  <2> QED BY <1>3, <1>9, <1>11, <2>1 DEF Sampled
<1> HIDE DEF to
<1> QED BY <1>1, <1>2, <1>3, <1>10, <1>11, <1>12, <1>13, <1>14, TimerGoes DEF ServicesInv
LEMMA ActKeeps == ASSUME ServicesInv, Act PROVE ServicesInv'
<1> DEFINE t == Here.message.timer
           v == Here.message.value
           expiry == (v + T.period[t]) % TickRange
           due == Overdue(T, t, expiry, Here.now, v)
           o1 == IF Here.message.cmd = "start" THEN Begun(T, t, v) ELSE [T EXCEPT !.active = T.active \cup {t}]
           o2 == InsertTimer(o1, t, expiry, Here.now, v)
           p == [T EXCEPT !.period[t] = v]
           o3 == Begun(p, t, Here.now)
           o4 == InsertTimer(o3, t, (Here.now + v) % TickRange, Here.now, Here.now)
           o5 == [T EXCEPT !.active = T.active \ {t}]
<1>1. /\ pc[k.cur] = "act" /\ UNCHANGED frame
      /\ \/ /\ Here.message.cmd \in {"start", "again"}
            /\ SendsIf(due /\ T.reload[t], IF due THEN Fire(o2, t) ELSE o2, Command("again", t, expiry), "commands")
         \/ /\ Here.message.cmd = "period" /\ SendsIf(FALSE, o4, Nothing, "commands")
         \/ SendsIf(FALSE, o5, Nothing, "commands")
  BY DEF Act
<1>2. pc[k.cur] \in TimerPlaces BY <1>1 DEF TimerPlaces
<1>3. AtTimers("act", Here) /\ Tending(Here) /\ Sampled("act", Here, T) BY <1>1, <1>2, Tended
<1>4. t \in Timers /\ v \in Ticks /\ (Here.message.cmd = "period" => v \in 1 .. MaxDelay)
  <2>1. Here.message \in Commands BY <1>3 DEF AtTimers
  <2> QED BY <2>1, TickFacts DEF Commands, Timing, Ticks
<1>5. TimersSound(T) /\ T.period \in [Timers -> 1 .. MaxDelay] /\ DOMAIN T = TimerFields
  BY TimersStand
<1>6. Here.now \in Ticks /\ Here.now = T.last /\ (T.overflow # <<>> => T.last > 0)
  BY <1>3 DEF Sampled, Tending
<1> HIDE DEF t, v
<1>7. expiry \in Ticks
  <2>1. v + T.period[t] \in Int BY <1>4, <1>5, TickFacts DEF Ticks
  <2> QED BY <2>1, TickFacts
<1>8. Command("again", t, expiry) \in Messages
  <2> DEFINE m == Command("again", t, expiry)
  <2>1. m \in Timing /\ m.cmd = "again" BY <1>4, <1>7 DEF Timing, Command
  <2> HIDE DEF m
  <2> QED BY <2>1 DEF Messages, Commands, m
<1>9. /\ AtTimers("commands", Here) /\ (Suspends("commands", Here) <=> Suspends("act", Here))
      /\ \A o : o.last = T.last /\ (o.overflow # <<>> => T.last > 0) => Sampled("commands", Here, o)
  BY <1>3 DEF AtTimers, Suspends, Sampled
<1>10. ASSUME Here.message.cmd \in {"start", "again"},
              SendsIf(due /\ T.reload[t], IF due THEN Fire(o2, t) ELSE o2, Command("again", t, expiry), "commands")
       PROVE  ServicesInv'
  <2> DEFINE o == IF due THEN Fire(o2, t) ELSE o2
             b == due /\ T.reload[t]
  <2>1. TimersSound(o1) /\ o1.last = T.last /\ o1.overflow = T.overflow /\ o1.period = T.period
    <3>1. TimersSound(Begun(T, t, v)) BY <1>4, <1>5, ListedTimers
    <3>2. /\ Begun(T, t, v).last = T.last /\ Begun(T, t, v).overflow = T.overflow
          /\ Begun(T, t, v).period = T.period
      BY <1>5 DEF Begun, TimerFields
    <3> DEFINE s == T.active \cup {t}
               i == [T EXCEPT !.active = s]
    <3> HIDE DEF s
    <3>3. TimersSound(i) BY <1>4, <1>5, ListedTimers
    <3>4. i.last = T.last /\ i.overflow = T.overflow /\ i.period = T.period BY <1>5 DEF TimerFields
    <3>5. o1 = IF Here.message.cmd = "start" THEN Begun(T, t, v) ELSE i BY DEF s
    <3> QED BY <3>1, <3>2, <3>3, <3>4, <3>5
  <2> HIDE DEF o1
  <2>2. TimersSound(o2) /\ o2.last = T.last /\ (o2.overflow # <<>> => T.last > 0)
    <3>1. o2 = InsertTimer(o1, t, (v + o1.period[t]) % TickRange, Here.now, v) BY <2>1
    <3> HIDE DEF o2
    <3> QED BY <1>4, <1>6, <2>1, <3>1, InsertFacts
  <2> HIDE DEF o2
  <2>3. TimersSound(o) /\ o.last = T.last /\ (o.overflow # <<>> => T.last > 0)
    <3>1. TimersSound(Fire(o2, t)) BY <1>4, <2>2, ListedTimers
    <3>2. Fire(o2, t).last = o2.last /\ Fire(o2, t).overflow = o2.overflow BY <2>2 DEF Fire, TimersSound, TimerFields
    <3> QED BY <2>2, <3>1, <3>2
  <2>4. SendsIf(b, o, Command("again", t, expiry), "commands") BY <1>10
  <2> HIDE DEF o, b, expiry
  <2> QED BY <1>1, <1>2, <1>8, <1>9, <2>3, <2>4, SendsKeeps
<1>11. ASSUME Here.message.cmd = "period", SendsIf(FALSE, o4, Nothing, "commands") PROVE ServicesInv'
  <2>1. TimersSound(p) /\ p.last = T.last /\ p.overflow = T.overflow /\ p.period[t] = v /\ DOMAIN p = TimerFields
    <3>1. TimersSound(p) BY <1>4, <1>5, <1>11, ListedTimers
    <3> QED BY <1>4, <1>5, <3>1 DEF TimerFields
  <2> HIDE DEF p
  <2>2. TimersSound(o3) /\ o3.last = T.last /\ o3.overflow = T.overflow /\ o3.period[t] = v
    <3>1. TimersSound(o3) BY <1>4, <2>1, ListedTimers
    <3> QED BY <2>1, <3>1 DEF Begun, TimerFields
  <2> HIDE DEF o3
  <2>3. TimersSound(o4) /\ o4.last = T.last /\ (o4.overflow # <<>> => T.last > 0)
    <3>1. o4 = InsertTimer(o3, t, (Here.now + o3.period[t]) % TickRange, Here.now, Here.now) BY <2>2
    <3> HIDE DEF o4
    <3> QED BY <1>4, <1>6, <2>2, <3>1, InsertFacts
  <2> HIDE DEF o4
  <2> QED BY <1>1, <1>2, <1>9, <1>11, <2>3, SendsKeeps
<1>12. ASSUME SendsIf(FALSE, o5, Nothing, "commands") PROVE ServicesInv'
  <2> DEFINE s == T.active \ {t}
  <2>1. o5 = [T EXCEPT !.active = s] OBVIOUS
  <2> HIDE DEF s, o5
  <2>2. TimersSound(o5) BY <1>4, <1>5, <2>1, ListedTimers
  <2>3. o5.last = T.last /\ o5.overflow = T.overflow BY <1>5, <2>1 DEF TimerFields
  <2> QED BY <1>1, <1>2, <1>6, <1>9, <1>12, <2>2, <2>3, SendsKeeps
<1> HIDE DEF o1, o2, o3, o4, o5, due, expiry
<1> QED BY <1>1, <1>10, <1>11, <1>12
LEMMA CallKeeps == ASSUME ServicesInv, Call PROVE ServicesInv'
<1> DEFINE m == Here.message
           j == SuspendAll(k)
           r == SetBits(j, m.on, m.bits)
           next == r.kernel
<1>1. /\ pc[k.cur] = "call" /\ UNCHANGED frame
      /\ \/ Moves(pc[k.cur], "resume", next) /\ Put(m.on, [obj[m.on] EXCEPT !.bits = r.bits])
         \/ Moves(pc[k.cur], "commands", k) /\ Put(m.on, [obj[m.on] EXCEPT !.bits = obj[m.on].bits \ m.bits])
  <2>1. /\ pc[k.cur] = "call" /\ UNCHANGED frame
        /\ IF m.set
          THEN Moves("call", "resume", next) /\ Put(m.on, [obj[m.on] EXCEPT !.bits = r.bits])
          ELSE Moves("call", "commands", k) /\ Put(m.on, [obj[m.on] EXCEPT !.bits = obj[m.on].bits \ m.bits])
    BY DEF Call
  <2> HIDE DEF r, next
  <2>2. CASE m.set = TRUE BY <2>1, <2>2
  <2>3. CASE m.set = FALSE BY <2>1, <2>3
  <2>4. m.set \in BOOLEAN
    <3>1. pc[k.cur] \in TimerPlaces BY <2>1 DEF TimerPlaces
    <3>2. AtTimers("call", Here) BY <2>1, <3>1, Tended
    <3> QED BY <3>2 DEF AtTimers, Callbacks
  <2> QED BY <2>2, <2>3, <2>4
<1>2. pc[k.cur] \in TimerPlaces BY <1>1 DEF TimerPlaces
<1>3. AtTimers("call", Here) /\ Tending(Here) /\ Sampled("call", Here, T) /\ k.susp = 0 /\ Here.on = TimerQueue
  BY <1>1, <1>2, Tended DEF Suspends
<1>4. Here.next = "commands" /\ m.on \in Groups BY <1>3 DEF AtTimers, Callbacks
<1>5. Settled /\ obj'["timers"] = T BY <1>1, <1>4, GroupPut DEF T
<1>6. Calm(j, IdleTask) /\ j.cur = k.cur /\ j.susp = 1 /\ j.events = k.events
  BY <1>3, SuspendedAll DEF ServicesInv
<1>7. k.events[Waiters(m.on)] \in Seq(Task) BY <1>4, Assumed, CalmShape DEF ServicesInv
<1> HIDE DEF j
<1>8. Smooth(j, next, IdleTask) BY <1>6, <1>7, CalmJudged DEF SetBits
<1> HIDE DEF next
<1>9. Calm(next, IdleTask) /\ next.cur = k.cur /\ next.susp = 1 BY <1>6, <1>8 DEF Smooth, Ranks
<1>10. Places("resume", Here, TimerTask, obj, program) /\ Places("commands", Here, TimerTask, obj, program)
  BY <1>3, <1>4 DEF Places, Resumable, AtTimers
<1>11. Suspends("resume", Here) /\ ~Suspends("commands", Here) BY DEF Suspends
<1>12. Sampled("resume", Here, T) /\ Sampled("commands", Here, T) BY <1>3, <1>4 DEF Sampled
<1>13. Calm(k, IdleTask) BY DEF ServicesInv
<1>14. CASE Moves(pc[k.cur], "resume", next)
  BY <1>1, <1>2, <1>3, <1>5, <1>9, <1>10, <1>11, <1>12, <1>14, TimerGoes
<1>15. CASE Moves(pc[k.cur], "commands", k)
  BY <1>1, <1>2, <1>3, <1>5, <1>10, <1>11, <1>12, <1>13, <1>15, TimerGoes
<1> QED BY <1>1, <1>14, <1>15

LEMMA CommandKnown ==
  ASSUME ServicesInv, NEW c, c \in Commanded, c.op = "command"
  PROVE  Message(c) \in Messages
<1> DEFINE v == IF c.cmd = "start" THEN k.tick ELSE c.value
           m == Command(c.cmd, c.timer, v)
<1>1. c.cmd \in {"period", "start", "stop", "delete"} /\ c.timer \in Timers /\ c.value \in Ticks
      /\ (c.cmd = "period" => c.value # 0)
  BY TickFacts DEF Commanded
<1>2. k.tick \in Ticks BY CalmShape DEF ServicesInv
<1>3. v \in Ticks /\ (c.cmd = "period" => v # 0) BY <1>1, <1>2
<1> HIDE DEF v
<1>4. m \in Timing /\ m.cmd = c.cmd /\ m.value = v BY <1>1, <1>3 DEF Timing, Command
<1>5. Message(c) = m BY DEF Message, v
<1> HIDE DEF m
<1> QED BY <1>3, <1>4, <1>5 DEF Messages, Commands
LEMMA TimerSends ==
  ASSUME ServicesInv, k.cur \in Callers, k.susp = 0, NEW m \in Messages, NEW n \in Ticks,
         Moves("user", "try", k), Enter(Begin(Send(TimerQueue, m, "back", n))), UNCHANGED obj
  PROVE  ServicesInv'
<1> DEFINE c == Send(TimerQueue, m, "back", n)
           f == Begin(c)
<1>1. /\ c.op = "send" /\ c.on = TimerQueue /\ c.item = m /\ c.pos = "back" /\ c.ticks = n
      /\ DOMAIN c = {"op", "on", "item", "pos", "ticks"}
  BY DEF Send
<1>2. TimerQueue \in QueueObjects /\ obj[TimerQueue].kind = "queue" /\ Stock(TimerQueue) = Messages
  BY TimersStand
<1> HIDE DEF c
<1>3. Queueing(f, obj, program) BY <1>1, <1>2, BegunFacts
<1>4. Enter(f) BY DEF c
<1> HIDE DEF f
<1>5. Places("try", f, k.cur, obj, program) BY <1>3 DEF Places, AtQueue
<1>6. Settled /\ obj'["timers"] = obj["timers"] BY Unreplaced
<1> QED BY <1>4, <1>5, <1>6, TaskGoes DEF ServicesInv, Suspends, Callers
LEMMA TimerCallsKeep == ASSUME ServicesInv, SendCommand \/ PendCall PROVE ServicesInv'
<1>1. CASE SendCommand
  <2>1. PICK c \in Calls("command") :
          Moves("user", "try", k) /\ Enter(Begin(Send(TimerQueue, Message(c), "back", 0))) /\ UNCHANGED obj
    BY <1>1 DEF SendCommand
  <2>2. k.cur \in Callers /\ k.susp = 0 /\ c \in TaskCalls /\ c.op = "command" BY Called
  <2>3. Message(c) \in Messages BY <2>2, OtherCallKnown, CommandKnown
  <2> QED BY <2>1, <2>2, <2>3, TimerSends, TickFacts
<1>2. CASE PendCall
  <2>1. PICK c \in Calls("pendCall") :
          Moves("user", "try", k) /\ Enter(Begin(Send(TimerQueue, Pended(c), "back", c.ticks))) /\ UNCHANGED obj
    BY <1>2 DEF PendCall
  <2>2. k.cur \in Callers /\ k.susp = 0 /\ c \in TaskCalls /\ c.op = "pendCall" BY Called
  <2>3. c.on \in Groups /\ c.bits \in Choice /\ c.set \in BOOLEAN /\ c.ticks \in Ticks
    BY <2>2, OtherCallKnown
  <2>4. Pended(c) \in Callbacks BY <2>3 DEF Pended, Callbacks
  <2>5. Pended(c) \in Messages BY <2>4 DEF Messages
  <2> QED BY <2>1, <2>2, <2>3, <2>5, TimerSends
<1> QED BY <1>1, <1>2
LEMMA TimerInterruptsKeep == ASSUME ServicesInv, CommandFromISR \/ PendCallFromISR PROVE ServicesInv'
<1>1. TimerQueue \in QueueObjects /\ Stock(TimerQueue) = Messages BY TimersStand
<1>2. CASE CommandFromISR
  <2>1. PICK c \in Interrupt("command") : SendsFromISR(TimerQueue, Message(c), "back")
    BY <1>2 DEF CommandFromISR
  <2>2. c \in program.isr /\ c.op = "command" BY DEF Interrupt
  <2>3. c \in Commanded BY <2>2, InterruptKnown, InterruptSorts DEF ServicesInv
  <2>4. Message(c) \in Messages BY <2>2, <2>3, CommandKnown
  <2> QED BY <1>1, <2>1, <2>4, SendsFromISRKeeps
<1>3. CASE PendCallFromISR
  <2>1. PICK c \in Interrupt("pendCall") : SendsFromISR(TimerQueue, Pended(c), "back")
    BY <1>3 DEF PendCallFromISR
  <2>2. c \in program.isr /\ c.op = "pendCall" BY DEF Interrupt
  <2>3. c \in Deferred BY <2>2, InterruptKnown, InterruptSorts DEF ServicesInv
  <2>4. Pended(c) \in Callbacks BY <2>3 DEF Pended, Callbacks, Deferred
  <2>5. Pended(c) \in Messages BY <2>4 DEF Messages
  <2> QED BY <1>1, <2>1, <2>5, SendsFromISRKeeps
<1> QED BY <1>2, <1>3
LEMMA SetReloadModeKeeps == ASSUME ServicesInv, SetReloadMode PROVE ServicesInv'
<1>1. PICK c \in Calls("reload") :
        /\ Moves("user", "user", k) /\ UNCHANGED frame
        /\ obj' = [obj EXCEPT !["timers"] = [T EXCEPT !.reload[c.timer] = c.reload]]
  BY DEF SetReloadMode, Timed
<1> DEFINE o == [T EXCEPT !.reload[c.timer] = c.reload]
<1>2. k.cur # TimerTask /\ k.susp = 0 /\ Here = NoCall BY Called
<1>3. TimersSound(T) /\ DOMAIN T = TimerFields /\ Stocked(obj[TimerQueue], Messages) /\ obj[TimerQueue].kind = "queue"
  BY TimersStand
<1>4. TimersSound(o) /\ o.last = T.last /\ o.current = T.current /\ o.overflow = T.overflow /\ o.value = T.value
  BY <1>3 DEF TimersSound, TimerFields
<1>5. obj' = [obj EXCEPT !["timers"] = o] BY <1>1
<1> HIDE DEF o
<1>6. Settled /\ obj'["timers"] = o BY <1>3, <1>4, <1>5, TimersPut
<1>7. GoneTo("user", NoCall) /\ k' = k BY <1>1, <1>2, MovesOn DEF Here
<1>8. Arrives("user", NoCall) BY <1>2, <1>7 DEF Arrives, Places, Suspends
<1>9. pc'[TimerTask] = pc[TimerTask] /\ frame'[TimerTask] = frame[TimerTask]
  BY <1>2, <1>7, Assumed DEF GoneTo
<1>10. Sampled(pc[TimerTask], frame[TimerTask], T) BY DEF ServicesInv, T
<1>11. Sampled(pc'[TimerTask], frame'[TimerTask], obj'["timers"])
  BY <1>4, <1>6, <1>9, <1>10 DEF Sampled
<1> QED BY <1>6, <1>7, <1>8, <1>11, StepKeeps DEF ServicesInv, Settled
LEMMA TimerStepsKeep == ASSUME ServicesInv, TimerSteps PROVE ServicesInv'
BY TimerLookKeeps, SwitchOneKeeps, SwitchDoneKeeps, AwaitKeeps, SleepUntilKeeps, ExpireKeeps, NextCommandKeeps,
   SampleTimeKeeps, ActKeeps, CallKeeps, TimerCallsKeep, TimerInterruptsKeep, SetReloadModeKeeps DEF TimerSteps

LEMMA QueueStepsKeep == ASSUME ServicesInv, QueueSteps PROVE ServicesInv'
BY TryToSendKeeps, TryToReceiveKeeps, TryToPeekKeeps, TryToTakeKeeps, TryInVainKeeps, TryAssertsKeeps,
   TryWaitsKeeps, SuspendKeeps, LockKeeps, PlaceKeeps, UnlockTxKeeps, UnlockRxKeeps, FinalKeeps,
   DisinheritStepKeeps, TakeAgainKeeps, CountTakeKeeps, GiveRecursiveKeeps, ResetKeeps, NewKeeps, DeleteKeeps,
   SendFromISRKeeps, ReceiveFromISRKeeps, PeekFromISRKeeps DEF QueueSteps
LEMMA PoolStepsKeep == ASSUME ServicesInv, PoolSteps PROVE ServicesInv'
BY AllotKeeps, FreeKeeps, AllocFromISRKeeps, FreeFromISRKeeps DEF PoolSteps
LEMMA NextKeeps == ASSUME ServicesInv, [Next]_serviceVars PROVE ServicesInv'
<1>1. CASE Next
  BY <1>1, HeapCallsKeep, OwnerStepsKeep, OwnCodeKeeps, InterruptsKeep, ResumeKeeps, YieldWithinAPIKeeps, DelayKeeps,
     QueueStepsKeep, GroupStepsKeep, StreamStepsKeep, TimerStepsKeep, PoolStepsKeep DEF Next
<1>2. CASE UNCHANGED serviceVars BY <1>2, StandsStill DEF serviceVars
<1> QED BY <1>1, <1>2

-----------------------------------------------------------------------------
(* The start: the tasks are created one by one, each ready, with its own     *)
(* priority and no mutex.                                                    *)
Creation == INSTANCE Folding WITH Step <- Create
Made1(j, S) ==
  /\ Good(j) /\ j.tick = 0 /\ j.pended = 0 /\ j.susp = 0 /\ j.missed = FALSE /\ j.pendsv = FALSE
  /\ j.events = [e \in EventLists \cup {"pending"} |-> <<>>] /\ j.prio = j.base
  /\ j.held = [t \in Task |-> 0] /\ j.order \in [Task -> Urgencies] /\ DOMAIN j.flags = Task /\ DOMAIN j.nstate = Task
  /\ \A u \in Task : (InAList(j, u) <=> u \in S) /\ (IsReady(j, u) <=> u \in S)
LEMMA NoneMade ==
  Made1(NoTasks(IdleTask), {})
<1> DEFINE j == NoTasks(IdleTask)
<1>1. /\ Good(j) /\ j.tick = 0 /\ j.pended = 0 /\ j.susp = 0 /\ j.missed = FALSE /\ j.pendsv = FALSE
      /\ j.nstate = [t \in Task |-> "no"] /\ \A t \in Task : ~InAList(j, t)
  BY NoTasksGood, Assumed
<1>2. /\ j.events = [e \in EventLists \cup {"pending"} |-> <<>>] /\ j.prio = j.base
      /\ j.held = [t \in Task |-> 0] /\ j.order = [t \in Task |-> Priorities] /\ DOMAIN j.flags = Task
  BY DEF NoTasks
<1>3. Priorities \in Urgencies BY TaskListsAssumption DEF Urgencies
<1> HIDE DEF j
<1>4. Made1(j, {}) BY <1>1, <1>2, <1>3 DEF Made1, InAList
<1> QED BY <1>4 DEF j
LEMMA NewTaskBare ==
  ASSUME NEW j, Good(j), NEW t \in Task, NEW p \in Nat, j.held = [u \in Task |-> 0], j.order \in [Task -> Urgencies],
         DOMAIN j.flags = Task
  PROVE  LET i == NewTask(j, t, p, FALSE)
         IN i.held = [u \in Task |-> 0] /\ i.order \in [Task -> Urgencies] /\ DOMAIN i.flags = Task
<1> DEFINE urgency == IF p < Priorities THEN p ELSE Priorities - 1
           n == Priorities - urgency
           g == InitialiseTask(j, t, p)
           m == [g EXCEPT !.cur = t, !.number = g.number + 1]
           l == [g EXCEPT !.number = g.number + 1]
           b == ~FALSE /\ (g.cur \notin Task \/ g.prio[g.cur] <= g.prio[t])
           h == IF b THEN m ELSE l
<1>1. DOMAIN j = Fields BY DEF Good, Sound, Shape
<1>2. n \in Urgencies BY TaskListsAssumption DEF Urgencies
<1>3. /\ DOMAIN g = Fields /\ g.held = [j.held EXCEPT ![t] = 0] /\ g.order = [j.order EXCEPT ![t] = n]
      /\ g.flags = [j.flags EXCEPT ![t] = {}]
  BY <1>1 DEF InitialiseTask, Fields
<1> HIDE DEF n, g
<1>4. g.held = [u \in Task |-> 0] /\ g.order \in [Task -> Urgencies] /\ DOMAIN g.flags = Task
  BY <1>2, <1>3
<1>5. DOMAIN m = Fields /\ m.held = g.held /\ m.order = g.order /\ m.flags = g.flags
  BY <1>3 DEF Fields
<1>6. DOMAIN l = Fields /\ l.held = g.held /\ l.order = g.order /\ l.flags = g.flags
  BY <1>3 DEF Fields
<1>7. NewTask(j, t, p, FALSE) = AddReady(h, t)
  BY DEF NewTask, AddNewTask, g
<1> HIDE DEF m, l, b
<1>8. DOMAIN h = Fields /\ h.held = g.held /\ h.order = g.order /\ h.flags = g.flags
  BY <1>5, <1>6
<1> HIDE DEF h
<1>9. AddReady(h, t).held = h.held /\ AddReady(h, t).order = h.order /\ AddReady(h, t).flags = h.flags
  BY <1>8 DEF AddReady, Fields
<1> QED BY <1>4, <1>7, <1>8, <1>9
LEMMA OneMade ==
  ASSUME NEW j, NEW S \in SUBSET Task, Made1(j, S), NEW t \in Task \ S, NEW p \in Nat
  PROVE  Made1(Create(j, [thread |-> t, prio |-> p]), S \cup {t})
<1> DEFINE i == NewTask(j, t, p, FALSE)
<1>1. Good(j) /\ ~InAList(j, t) /\ DOMAIN j.nstate = Task /\ j.prio = j.base BY DEF Made1
<1>2. Arrived(j, i, t, p) BY <1>1, NewTaskArrived
<1>3. i.held = [u \in Task |-> 0] /\ i.order \in [Task -> Urgencies] /\ DOMAIN i.flags = Task
  BY NewTaskBare DEF Made1
<1>4. Create(j, [thread |-> t, prio |-> p]) = i BY DEF Create
<1> HIDE DEF i
<1>5. /\ Good(i) /\ i.tick = 0 /\ i.pended = 0 /\ i.susp = 0 /\ i.missed = FALSE /\ i.pendsv = FALSE
      /\ i.events = j.events /\ i.prio = i.base /\ i.nstate = [j.nstate EXCEPT ![t] = "no"]
      /\ IsReady(i, t) /\ Concerns(j, i, {t})
  BY <1>1, <1>2 DEF Arrived, Made1, SwitchesAs
<1>6. \A u \in Task \ {t} : (InAList(i, u) <=> InAList(j, u)) /\ (IsReady(i, u) <=> IsReady(j, u))
  BY <1>5 DEF Concerns, AsWas, Stays, InAList, Elsewhere, Dozes
<1>7. \A u \in Task : (InAList(i, u) <=> u \in S \cup {t}) /\ (IsReady(i, u) <=> u \in S \cup {t})
  BY <1>5, <1>6 DEF Made1, InAList
<1> QED BY <1>1, <1>3, <1>4, <1>5, <1>7 DEF Made1
LEMMA AllMade ==
  ASSUME NEW p, Sensible(p)
  PROVE  \E S \in SUBSET Task : IdleTask \in S /\ Made1(Started(p), S)
<1> DEFINE k0 == NoTasks(IdleTask)
           n == Len(p.tasks)
           s == [i \in DOMAIN p.tasks |-> [thread |-> p.tasks[i], prio |-> p.prio[p.tasks[i]]]]
           j == FoldLeft(Create, k0, s)
           S(i) == {p.tasks[m] : m \in 1 .. i}
<1>1. /\ p.tasks \in Seq(Task \ {IdleTask}) /\ IsInjective(p.tasks) /\ p.prio \in [Task -> Nat]
      /\ IdleTask \in Task /\ n \in Nat /\ DOMAIN p.tasks = 1 .. n
  BY Assumed DEF Sensible
<1>2. j = Creation!Fold(k0, s)
  BY SMT DEF FoldLeft, MapThenFoldSet, Max, Creation!Fold, Creation!Greatest
<1>3. Creation!Unrolled(k0, n, s, Creation!Fold(k0, s))
  <2>1. DOMAIN s = 1 .. n BY <1>1
  <2> HIDE DEF s
  <2> QED BY <1>1, <2>1, Creation!FoldTrace, Zenon
<1> HIDE DEF j
<1>4. PICK g : g[0] = k0 /\ (\A i \in 1 .. n : g[i] = Create(g[i - 1], s[i])) /\ j = g[n]
  BY <1>2, <1>3, Zenon DEF Creation!Unrolled
<1> DEFINE D == {i \in Nat : i <= n => Made1(g[i], S(i))}
<1>5. 0 \in D
  <2>1. S(0) = {} OBVIOUS
  <2> QED BY <1>4, <2>1, NoneMade
<1>6. ASSUME NEW i \in Nat, i \in D PROVE i + 1 \in D
  <2>1. SUFFICES ASSUME i + 1 <= n PROVE Made1(g[i + 1], S(i + 1)) OBVIOUS
  <2>2. Made1(g[i], S(i)) BY <1>1, <1>6, <2>1
  <2>3. i + 1 \in 1 .. n /\ (i + 1) - 1 = i /\ \A m \in 1 .. i : m \in 1 .. n /\ m # i + 1
    BY <1>1, <2>1
  <2> DEFINE t == p.tasks[i + 1]
  <2>4. t \in Task /\ p.prio[t] \in Nat /\ \A m \in 1 .. i : p.tasks[m] \in Task
    BY <1>1, <2>3
  <2>5. t \notin S(i) BY <1>1, <2>3 DEF IsInjective
  <2>6. S(i + 1) = S(i) \cup {t}
    <3>1. \A m : m \in 1 .. i + 1 <=> m \in 1 .. i \/ m = i + 1 OBVIOUS
    <3> QED BY <3>1
  <2>7. g[i + 1] = Create(g[i], [thread |-> t, prio |-> p.prio[t]])
    <3>1. s[i + 1] = [thread |-> t, prio |-> p.prio[t]] BY <1>1, <2>3
    <3> HIDE DEF s, t
    <3> QED BY <1>4, <2>3, <3>1
  <2>8. S(i) \in SUBSET Task BY <2>4
  <2> HIDE DEF t, S
  <2> QED BY <2>2, <2>4, <2>5, <2>6, <2>7, <2>8, OneMade
<1> HIDE DEF D
<1>7. Nat \subseteq D BY <1>5, <1>6, Creation!SetInduction, Zenon
<1>8. Made1(j, S(n))
  <2>1. n \in D BY <1>1, <1>7
  <2>2. n <= n BY <1>1
  <2> HIDE DEF S
  <2>3. Made1(g[n], S(n)) BY <2>1, <2>2, Zenon DEF D
  <2>4. j = g[n] BY <1>4
  <2> QED BY <2>3, <2>4
<1>9. S(n) \in SUBSET Task /\ IdleTask \notin S(n) BY <1>1
<1>10. Started(p) = Create(j, [thread |-> IdleTask, prio |-> 0]) BY DEF Started, j
<1> HIDE DEF S
<1>11. Made1(Started(p), S(n) \cup {IdleTask}) BY <1>1, <1>8, <1>9, <1>10, OneMade
<1> QED BY <1>1, <1>9, <1>11
(* The tick a run begins at is that of tasks that do not sleep.              *)
LEMMA BegunAt ==
  ASSUME NEW j, NEW S \in SUBSET Task, IdleTask \in S, Made1(j, S), NEW n \in Ticks
  PROVE  LET i == [j EXCEPT !.tick = n]
         IN Calm(i, IdleTask) /\ i.susp = 0 /\ i.prio = i.base /\ i.held = [t \in Task |-> 0]
<1> DEFINE i == [j EXCEPT !.tick = n]
<1>1. /\ Good(j) /\ j.pended = 0 /\ j.susp = 0 /\ j.missed = FALSE /\ j.pendsv = FALSE
      /\ j.held = [t \in Task |-> 0] /\ j.order \in [Task -> Urgencies] /\ DOMAIN j.flags = Task
      /\ DOMAIN j.nstate = Task /\ j.prio = j.base
      /\ \A u \in Task : InAList(j, u) => IsReady(j, u)
      /\ IsReady(j, IdleTask)
  BY Assumed DEF Made1
<1>2. DOMAIN j = Fields BY <1>1 DEF Good, Sound, Shape
<1>3. /\ DOMAIN i = Fields /\ i.tick = n
      /\ \A x \in Fields \ {"tick"} : i[x] = j[x]
  BY <1>2 DEF Fields
<1> HIDE DEF i
<1>4. /\ i.cur = j.cur /\ i.top = j.top /\ i.prio = j.prio /\ i.base = j.base /\ i.events = j.events
      /\ i.wake = j.wake /\ i.ready = j.ready /\ i.delayed = j.delayed /\ i.overflow = j.overflow /\ i.dead = j.dead
      /\ i.suspended = j.suspended /\ i.unblock = j.unblock /\ i.susp = j.susp /\ i.pended = j.pended
      /\ i.missed = j.missed /\ i.pendsv = j.pendsv /\ i.held = j.held /\ i.order = j.order /\ i.flags = j.flags
      /\ i.nstate = j.nstate
  BY <1>3 DEF Fields
<1>5. Sound(i) BY <1>1, <1>3, <1>4 DEF Good, Sound, Shape, Rings, OtherLists
<1>6. Single(i) BY <1>1, <1>4 DEF Good, Single, IsReady, Elsewhere
<1>7. \A t \in Task : ~Contains(j.delayed, t) /\ ~Contains(j.overflow, t)
  BY <1>1 DEF Good, Single, InAList, Elsewhere
<1>8. j.delayed = <<>>
  <2>1. j.delayed \in Seq(Task) BY <1>1 DEF Good, Sound, OtherLists
  <2>2. ASSUME j.delayed # <<>> PROVE FALSE
    <3>1. 1 \in DOMAIN j.delayed /\ j.delayed[1] \in Task BY <2>1, <2>2
    <3> QED BY <1>7, <2>1, <3>1 DEF Contains
  <2> QED BY <2>2
<1>9. OnTime(i)
  <2>1. TimedFrom(i, i.tick + 1)
    BY <1>1, <1>3, <1>4, <1>7 DEF Good, OnTime, TimedFrom
  <2>2. Alarm(i) BY <1>1, <1>4, <1>8 DEF Good, OnTime, Alarm
  <2> QED BY <2>1, <2>2 DEF OnTime
<1>10. IsReady(i, IdleTask) BY <1>1, <1>4 DEF IsReady
<1>11. i.held \in [Task -> Int] BY <1>1, <1>4
<1>12. Calm(i, IdleTask)
  <2>1. Good(i) BY <1>5, <1>6, <1>9 DEF Good
  <2>2. i.susp \in Nat /\ i.pended \in Nat
    <3>1. i.susp = 0 /\ i.pended = 0 BY <1>1, <1>4
    <3> QED BY <3>1
  <2>4. i.missed \in BOOLEAN /\ i.pendsv \in BOOLEAN
    <3>1. i.missed = FALSE /\ i.pendsv = FALSE BY <1>1, <1>4
    <3> QED BY <3>1, Zenon
  <2>3. i.order \in [Task -> Urgencies] /\ DOMAIN i.flags = Task /\ DOMAIN i.nstate = Task BY <1>1, <1>4
  <2> QED BY <1>10, <1>11, <2>1, <2>2, <2>3, <2>4 DEF Calm
<1>13. i.susp = 0 /\ i.prio = i.base /\ i.held = [t \in Task |-> 0] BY <1>1, <1>4
<1> QED BY <1>12, <1>13, Zenon DEF i
LEMMA ObjectsProvided ==
  ASSUME NEW p \in Programs
  PROVE  ObjectsSound(p.objects, p) /\ p.objects["timers"].last \in Ticks
         /\ (p.objects["timers"].overflow # <<>> => p.objects["timers"].last > 0)
<1>1. Sensible(p) BY Assumed
<1>2. Provided(p) BY <1>1 DEF Sensible
<1> DEFINE o == p.objects
<1>3. ASSUME NEW x, NewlyMade(x), NEW V PROVE Stocked(x, V) /\ x.kind # "none"
  <2>1. x.len \in Some /\ x.n \in 0 .. x.len /\ (x.kind = "queue" => x.n = 0) BY <1>3 DEF NewlyMade
  <2>2. CASE x.kind = "pool"
    <3>1. x = NewPool(x.len) BY <1>3, <2>2 DEF NewlyMade
    <3> DEFINE m == x.len
               y == NewQueue("pool", m, m)
    <3>2. m \in Some /\ m \in 0 .. m BY <2>1 DEF Some
    <3> HIDE DEF m
    <3>3. Stocked(y, V) BY <3>2, NewQueueStocked
    <3>4. /\ QueueFields \subseteq DOMAIN NewPool(m)
          /\ \A f \in QueueFields : NewPool(m)[f] = y[f]
      BY DEF NewPool, NewQueue, QueueFields, Joined
    <3>5. Stocked(NewPool(m), V) BY <2>2, <3>1, <3>3, <3>4 DEF Stocked, Aside, QueueFields, m
    <3> QED BY <2>2, <3>1, <3>5 DEF m
  <2>3. CASE x.kind # "pool"
    <3>1. x.kind \in {"queue", "semaphore", "mutex", "recursive"} /\ x = NewQueue(x.kind, x.len, x.n)
      BY <1>3, <2>3 DEF NewlyMade
    <3> DEFINE a == x.kind
               b == x.len
               c == x.n
    <3>2. a \in {"queue", "semaphore", "mutex", "recursive"} /\ b \in Some /\ c \in 0 .. b /\ (a = "queue" => c = 0)
      BY <2>1, <3>1
    <3>3. x = NewQueue(a, b, c) BY <3>1
    <3> HIDE DEF a, b, c
    <3> QED BY <3>2, <3>3, NewQueueStocked
  <2> QED BY <2>2, <2>3
<1>4. DOMAIN o = Names BY <1>2, Assumed DEF Provided, Names, QueueObjects
<1>5. ASSUME NEW q \in Queues PROVE QueueSound(o[q], q, p)
  <2>1. CASE o[q] = NoObject BY <2>1 DEF QueueSound
  <2>2. CASE NewlyMade(o[q])
    <3>1. Stocked(o[q], Items) BY <1>3, <2>2
    <3>2. o[q] \in Makes(p, q) BY DEF Makes
    <3> QED BY <3>1, <3>2 DEF QueueSound
  <2> QED BY <1>2, <2>1, <2>2 DEF Provided
<1>6. Stocked(o[TimerQueue], Messages) /\ o[TimerQueue].kind = "queue" BY <1>2, <1>3 DEF Provided
<1>7. ASSUME NEW s \in Streams PROVE StreamSound(o[s])
  <2>1. CASE o[s] = NoObject BY <2>1 DEF StreamSound
  <2>2. CASE o[s] # NoObject
    <3>1. o[s].kind \in {"stream", "message"} /\ o[s] = NewStream(o[s].kind, o[s].length - 1, o[s].trigger)
      BY <1>2, <2>2 DEF Provided
    <3> DEFINE a == o[s].kind
               b == o[s].length - 1
               c == o[s].trigger
    <3>2. o[s] = NewStream(a, b, c) BY <3>1
    <3> HIDE DEF a, b, c
    <3>3. Ended(o[s]) BY <3>2 DEF NewStream, Ended
    <3> QED BY <3>1, <3>3 DEF StreamSound
  <2> QED BY <2>1, <2>2
<1>8. TimersSound(o["timers"]) /\ (o["timers"].overflow # <<>> => o["timers"].last > 0)
  <2> DEFINE w == o["timers"]
  <2>1. Wound(w) BY <1>2 DEF Provided
  <2> HIDE DEF w
  <2>2. /\ w \in [kind : {"timers"}, current : Seq(Timers), overflow : Seq(Timers), last : Ticks,
                  value : [Timers -> Ticks], period : [Timers -> 1 .. MaxDelay], reload : [Timers -> BOOLEAN],
                  active : SUBSET Timers, began : [Timers -> Int], fired : [Timers -> Nat]]
        /\ \A t \in ToSet(w.overflow) : w.value[t] < w.last
    BY <2>1 DEF Wound
  <2>3. TimersSound(w) BY <2>2 DEF TimersSound, TimerFields
  <2>4. ASSUME w.overflow # <<>> PROVE w.last > 0
    <3>1. w.overflow \in Seq(Timers) /\ w.value \in [Timers -> Ticks] /\ w.last \in Ticks BY <2>2
    <3>2. 1 \in DOMAIN w.overflow /\ w.overflow[1] \in Timers BY <2>4, <3>1
    <3>3. w.overflow[1] \in ToSet(w.overflow) BY <3>2 DEF ToSet
    <3>4. w.value[w.overflow[1]] < w.last /\ w.value[w.overflow[1]] \in Ticks BY <2>2, <3>1, <3>2, <3>3
    <3> QED BY <3>1, <3>4 DEF Ticks
  <2> QED BY <2>3, <2>4 DEF w
<1>9. o["timers"].last \in Ticks BY <1>8 DEF TimersSound
<1> QED BY <1>4, <1>5, <1>6, <1>7, <1>8, <1>9 DEF ObjectsSound
LEMMA InitHolds1 == ASSUME Init PROVE ServicesInv
<1>1. /\ program \in Programs /\ k = [Started(program) EXCEPT !.tick = program.start]
      /\ pc = [t \in Task |-> "user"] /\ frame = [t \in Task |-> NoCall] /\ obj = program.objects
  BY DEF Init
<1>2. Sensible(program) /\ program.start \in Ticks BY <1>1, Assumed DEF Sensible
<1>3. PICK S \in SUBSET Task : IdleTask \in S /\ Made1(Started(program), S) BY <1>2, AllMade
<1>4. Calm(k, IdleTask) /\ k.susp = 0 BY <1>1, <1>2, <1>3, BegunAt
<1>5. k.cur \in Task BY <1>4, CalmShape
<1>6. Control BY <1>1, <1>4, <1>5 DEF Control, Places, Suspends
<1>7. ObjectsSound(obj, program) BY <1>1, ObjectsProvided
<1>8. Sampled(pc[TimerTask], frame[TimerTask], obj["timers"])
  BY <1>1, ObjectsProvided, Assumed DEF Sampled
<1> QED BY <1>1, <1>4, <1>6, <1>7, <1>8 DEF ServicesInv

(* What the services always keep: the kernel's lists are in order and the    *)
(* idle task ready, every task is at a step of a call with a frame that      *)
(* suits it, the scheduler is suspended by the running task or not at all,   *)
(* and every object is in order.                                             *)
THEOREM ServicesSound == Spec => []ServicesInv
BY InitHolds1, NextKeeps, PTL DEF Spec
===============================================================================
