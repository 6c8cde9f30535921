------------------------------ MODULE SoftTimers ------------------------------
(***************************************************************************)
(* Software timers (timers.c and osTimer... in cmsis_os2.c): commands that   *)
(* tasks and interrupts send to the timer task through a queue, the two      *)
(* lists of running timers, and the task that sleeps until the next expiry   *)
(* or the next command.  Only the timer task touches the lists, so a run of  *)
(* its statements on them is one step; sampling the tick, the queue and the  *)
(* scheduler are steps of their own.  What a timer's function does is left   *)
(* out, except the functions interrupts ask the task to call for them.       *)
(***************************************************************************)
EXTENDS Queue, EventGroup

CONSTANTS
  Timers,
  TimerTask,
  TimerQueue   \* the object the commands are sent through

(* current and overflow: the running timers, in the order of "value", the    *)
(* tick of the next expiry; last: the tick sampled last.  The reference is   *)
(* "began", when the timer was last started, not wrapped, and "fired", how    *)
(* often its function has been called since.                                 *)
NewTimers(period, reload) ==
  [kind |-> "timers", current |-> <<>>, overflow |-> <<>>, last |-> 0,
   value |-> [t \in Timers |-> 0], period |-> period, reload |-> reload, active |-> {},
   began |-> [t \in Timers |-> 0], fired |-> [t \in Timers |-> 0]]
T == obj["timers"]
Timed(o) == obj' = [obj EXCEPT !["timers"] = o]
Absolute(tick) == k.ovf * TickRange + k.tick - ((k.tick - tick) % TickRange)

Command(cmd, t, v) == [cmd |-> cmd, timer |-> t, value |-> v]
Fire(o, t) == [o EXCEPT !.fired[t] = @ + 1]
Stopped(o, t) == [o EXCEPT !.current = RemoveFirst(@, t), !.overflow = RemoveFirst(@, t)]
Begun(o, t, at) ==
  [o EXCEPT !.active = @ \cup {t}, !.began[t] = Absolute(at), !.fired[t] = 0]

(* prvInsertTimerInActiveList: whether the timer is due already, and if not  *)
(* the list it goes to.                                                      *)
Overdue(o, t, expiry, now, command) ==
  IF expiry <= now THEN (now - command) % TickRange >= o.period[t]
  ELSE now < command /\ expiry >= command
InsertTimer(o, t, expiry, now, command) ==
  LET o1 == [o EXCEPT !.value[t] = expiry]
  IN IF Overdue(o, t, expiry, now, command) THEN o1
     ELSE IF expiry <= now THEN [o1 EXCEPT !.overflow = ListInsert(@, t, o1.value)]
     ELSE [o1 EXCEPT !.current = ListInsert(@, t, o1.value)]

(* The timer task sends itself a command: it must find room in the queue.    *)
Sends(o, message, to) ==
  /\ Moves(pc[k.cur], IF Full(obj[TimerQueue]) THEN "asserted" ELSE to, k)
  /\ obj' = [obj EXCEPT !["timers"] = o,
                        ![TimerQueue] = IF Full(@) THEN @ ELSE CopyIn(@, message, "back")]
SendsIf(b, o, message, to) ==
  IF b THEN Sends(o, message, to) ELSE Moves(pc[k.cur], to, k) /\ Timed(o)

-----------------------------------------------------------------------------
(* prvTimerTask: prvGetNextExpireTime and prvProcessTimerOrBlockTask.        *)
NextExpiry(o) == IF o.current = <<>> THEN 0 ELSE o.value[Head(o.current)]
TimerLook ==
  LET wrapped == k.tick < T.last
      due == T.current # <<>> /\ NextExpiry(T) <= k.tick
  IN /\ k.cur = TimerTask /\ pc[k.cur] = "user"
     /\ Moves("user", IF wrapped THEN "switch" ELSE IF due THEN "resume" ELSE "await", SuspendAll(k))
     /\ Enter([op |-> "timer", on |-> TimerQueue, now |-> k.tick, message |-> Nothing,
               after |-> "resume", next |-> IF due /\ ~wrapped THEN "expire" ELSE "commands",
               blocks |-> FALSE])
     /\ Timed([T EXCEPT !.last = k.tick])

(* prvSwitchTimerLists, one timer of the list the tick has left at a time.   *)
SwitchOne ==
  LET t == Head(T.current)
      expire == T.value[t]
      again == (expire + T.period[t]) % TickRange
      o1 == Fire(Stopped(T, t), t)
      later == T.reload[t] /\ again > expire
      o2 == [o1 EXCEPT !.value[t] = again]
  IN /\ pc[k.cur] = "switch" /\ T.current # <<>>
     /\ SendsIf(T.reload[t] /\ ~later,
                IF later THEN [o2 EXCEPT !.current = ListInsert(@, t, o2.value)] ELSE o1,
                Command("again", t, expire), "switch")
     /\ UNCHANGED frame
(* Faulty variant: the lists are not exchanged.                              *)
SwitchNot ==
  pc[k.cur] = "switch" /\ T.current = <<>> /\ Goes("switch", Here.after, k) /\ UNCHANGED obj
SwitchDone ==
  /\ pc[k.cur] = "switch" /\ T.current = <<>>
  /\ Goes("switch", Here.after, k)
  /\ Timed([T EXCEPT !.current = T.overflow, !.overflow = <<>>])

(* vQueueWaitForMessageRestricted; without a timer the task sleeps until a   *)
(* command comes, or until the tick wraps when the timers are after that.    *)
Await ==
  /\ pc[k.cur] = "await"
  /\ Moves("await", "sleepUntil", k) /\ Enter([Here EXCEPT !.blocks = TRUE])
  /\ Put(TimerQueue, Locked(obj[TimerQueue]))
SleepUntil ==
  /\ pc[k.cur] = "sleepUntil"
  /\ Goes("sleepUntil", "unlockTx",
          IF Empty(obj[TimerQueue])
            THEN PlaceOnEventListRestricted(k, Rx(TimerQueue), (NextExpiry(T) - Here.now) % TickRange,
                                            T.current = <<>> /\ T.overflow = <<>>)
            ELSE k)
  /\ UNCHANGED obj

(* prvProcessExpiredTimer.                                                   *)
Expire ==
  LET t == Head(T.current)
      expire == T.value[t]
      again == (expire + T.period[t]) % TickRange
      o1 == Fire(Stopped(T, t), t)
  IN /\ pc[k.cur] = "expire"
     /\ SendsIf(T.reload[t] /\ Overdue(T, t, again, Here.now, expire),
                IF T.reload[t] THEN InsertTimer(o1, t, again, Here.now, expire)
                ELSE [o1 EXCEPT !.active = @ \ {t}],
                Command("again", t, expire), "commands")
     /\ UNCHANGED frame

-----------------------------------------------------------------------------
(* prvProcessReceivedCommands.                                               *)
NextCommand ==
  /\ pc[k.cur] = "commands"
  /\ IF Empty(obj[TimerQueue]) THEN Returns("commands", k) /\ UNCHANGED obj
     ELSE LET o == TakeOut(obj[TimerQueue])
          IN /\ Moves("commands", IF o.out.cmd = "call" THEN "call" ELSE "command", WakeOne(k, Tx(TimerQueue)))
             /\ Enter([Here EXCEPT !.message = o.out, !.after = "act", !.next = "commands", !.blocks = FALSE])
             /\ Put(TimerQueue, o)
SampleTime ==
  /\ pc[k.cur] = "command"
  /\ Moves("command", IF k.tick < T.last THEN "switch" ELSE "act", k)
  /\ Enter([Here EXCEPT !.now = k.tick])
  /\ Timed([Stopped(T, Here.message.timer) EXCEPT !.last = k.tick])
(* The command is carried out; an interrupt may have its tick from after the *)
(* time was sampled.                                                         *)
Act ==
  LET t == Here.message.timer
      v == Here.message.value
      expiry == (v + T.period[t]) % TickRange
      due == Overdue(T, t, expiry, Here.now, v)
      o1 == IF Here.message.cmd = "start" THEN Begun(T, t, v) ELSE [T EXCEPT !.active = @ \cup {t}]
      o2 == InsertTimer(o1, t, expiry, Here.now, v)
      o3 == Begun([T EXCEPT !.period[t] = v], t, Here.now)
  IN /\ pc[k.cur] = "act" /\ UNCHANGED frame
     /\ \/ /\ Here.message.cmd \in {"start", "again"}
           /\ SendsIf(due /\ T.reload[t], IF due THEN Fire(o2, t) ELSE o2,
                      Command("again", t, expiry), "commands")
        \/ /\ Here.message.cmd = "period"
           /\ SendsIf(FALSE, InsertTimer(o3, t, (Here.now + v) % TickRange, Here.now, Here.now),
                      Nothing, "commands")
        \/ /\ Here.message.cmd \in {"stop", "delete"}
           /\ SendsIf(FALSE, [T EXCEPT !.active = @ \ {t}], Nothing, "commands")
(* vEventGroupSetBitsCallback and vEventGroupClearBitsCallback.              *)
Call ==
  LET m == Here.message
      r == SetBits(SuspendAll(k), m.on, m.bits)
  IN /\ pc[k.cur] = "call" /\ UNCHANGED frame
     /\ IF m.set
          THEN Moves("call", "resume", r.kernel) /\ Put(m.on, [obj[m.on] EXCEPT !.bits = r.bits])
          ELSE Moves("call", "commands", k) /\ Put(m.on, [obj[m.on] EXCEPT !.bits = @ \ m.bits])

-----------------------------------------------------------------------------
(* xTimerGenericCommand.  osTimerStart sends a new period, osTimerStop       *)
(* nothing when the timer does not run; xTimerStart and xTimerReset send the *)
(* tick of the call.                                                         *)
osTimerStart(t, ticks) == [op |-> "command", cmd |-> "period", timer |-> t, value |-> ticks]
osTimerStop(t) == [op |-> "command", cmd |-> "stop", timer |-> t, value |-> 0]
osTimerDelete(t) == [op |-> "command", cmd |-> "delete", timer |-> t, value |-> 0]
xTimerReset(t) == [op |-> "command", cmd |-> "start", timer |-> t, value |-> 0]
(* xTimerIsTimerActive, osTimerIsRunning.                                    *)
xTimerIsTimerActive(t) == t \in T.active
Message(c) == Command(c.cmd, c.timer, IF c.cmd = "start" THEN k.tick ELSE c.value)
SendCommand ==
  \E c \in Calls("command") :
    /\ c.cmd = "stop" => xTimerIsTimerActive(c.timer)
    /\ Moves("user", "try", k) /\ Enter(Begin(Send(TimerQueue, Message(c), "back", 0))) /\ UNCHANGED obj
CommandFromISR == \E c \in Interrupt("command") : SendsFromISR(TimerQueue, Message(c), "back")
(* osEventFlagsSet and osEventFlagsClear in an interrupt:                    *)
(* xTimerPendFunctionCallFromISR.                                            *)
SetBitsFromISR(g, bits) == [op |-> "pendCall", on |-> g, bits |-> bits, set |-> TRUE]
ClearBitsFromISR(g, bits) == [op |-> "pendCall", on |-> g, bits |-> bits, set |-> FALSE]
Pended(c) == [cmd |-> "call", on |-> c.on, bits |-> c.bits, set |-> c.set]
PendCallFromISR == \E c \in Interrupt("pendCall") : SendsFromISR(TimerQueue, Pended(c), "back")
(* xTimerPendFunctionCall, by a task.                                        *)
PendCall ==
  \E c \in Calls("pendCall") :
    Moves("user", "try", k) /\ Enter(Begin(Send(TimerQueue, Pended(c), "back", c.ticks))) /\ UNCHANGED obj
(* vTimerSetReloadMode.                                                      *)
SetReloadMode ==
  \E c \in Calls("reload") :
    Moves("user", "user", k) /\ UNCHANGED frame /\ Timed([T EXCEPT !.reload[c.timer] = c.reload])

TimerSteps ==
  \/ TimerLook \/ SwitchOne \/ SwitchDone \/ Await \/ SleepUntil \/ Expire
  \/ NextCommand \/ SampleTime \/ Act \/ Call
  \/ SendCommand \/ CommandFromISR \/ PendCallFromISR \/ PendCall \/ SetReloadMode
-----------------------------------------------------------------------------
(* A timer's function is never called before its time: not for the first    *)
(* time before a period has passed, nor more often than the periods that     *)
(* have passed, however late the timer task is and wherever the tick wraps.  *)
Age(t) == Absolute(k.tick) - T.began[t]
NeverEarly == \A t \in Timers : T.fired[t] > 0 => T.fired[t] * T.period[t] <= Age(t)

(* And no expiry is lost: while the timer task sleeps, every timer that runs *)
(* has been called for each of its periods, and is in a list.                *)
DaemonAsleep ==
  Contains(k.events[Rx(TimerQueue)], TimerTask) /\ k.susp = 0 /\ Empty(obj[TimerQueue])
Runs(t) == xTimerIsTimerActive(t) /\ (T.reload[t] \/ T.fired[t] = 0)
NoneMissed ==
  DaemonAsleep =>
    \A t \in Timers :
      Runs(t) => /\ t \in ToSet(T.current \o T.overflow)
                 /\ Age(t) < (T.fired[t] + 1) * T.period[t]

(* Every call of a timer's function comes in its time.                       *)
TimersOnTime == NeverEarly /\ NoneMissed
=============================================================================
