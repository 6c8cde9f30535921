------------------------------ MODULE EventGroup ------------------------------
(***************************************************************************)
(* Event groups (event_groups.c and osEventFlags... in cmsis_os2.c): tasks   *)
(* that wait for any or all of some bits, tasks that set and clear them, and *)
(* tasks that meet.  The scheduler is suspended while the waiters are gone   *)
(* through; interrupts do not touch a group, so suspending it and what is    *)
(* done then are one step.                                                   *)
(***************************************************************************)
EXTENDS Objects

CONSTANTS
  Groups,
  EventFlags, \* the bits an application may use
  MaxRounds  \* the rounds of a meeting are counted modulo this, at least 4

Waiters(g) == g \o ".wait"

(* A waiting task's event item holds the bits it waits for and how, and,     *)
(* once it is released, the bits that released it.                           *)
ClearsOnExit == "clear"
WaitsForAll == "all"
Unblocked == "set"
ControlBits == {ClearsOnExit, WaitsForAll, Unblocked, "used"}

(* "rounds" is a reference: how often each task has met the others.          *)
NewGroup == [kind |-> "group", bits |-> {}, rounds |-> [t \in Task |-> 0]]

osEventFlagsSet(g, bits) == [op |-> "setBits", on |-> g, bits |-> bits]
osEventFlagsClear(g, bits) == [op |-> "clearBits", on |-> g, bits |-> bits]
osEventFlagsWait(g, bits, all, clear, ticks) ==
  [op |-> "waitBits", on |-> g, bits |-> bits, ticks |-> ticks,
   control |-> (IF all THEN {WaitsForAll} ELSE {}) \cup (IF clear THEN {ClearsOnExit} ELSE {})]
xEventGroupSync(g, set, bits, ticks) ==
  [op |-> "sync", on |-> g, set |-> set, bits |-> bits, ticks |-> ticks,
   control |-> {WaitsForAll, ClearsOnExit}]

(* prvTestWaitCondition.                                                     *)
Met(bits, want, control) ==
  IF WaitsForAll \in control THEN want \subseteq bits ELSE want \cap bits # {}
Want(kernel, t) == kernel.flags[t] \ ControlBits
Leaves(bits, want, control) == IF ClearsOnExit \in control THEN bits \ want ELSE bits

(* xEventGroupSetBits: every waiter is judged by the same bits, and what the *)
(* released ones clear is cleared after the last was judged.  Release goes   *)
(* through the waiters and wakes those that are met.                         *)
Release(r, t) ==
  IF t \in r.met THEN [r EXCEPT !.kernel = RemoveFromUnorderedEventList(@, t, r.flags)] ELSE r
Releases(kernel, list, met, flags) ==
  FoldLeft(Release, [kernel |-> kernel, met |-> met, flags |-> flags], list).kernel
Judged(kernel, list, bits) ==
  LET met == {t \in ToSet(list) : Met(bits, Want(kernel, t), kernel.flags[t])}
  IN [kernel |-> Releases(kernel, list, met, bits \cup {Unblocked}),
      bits |-> bits \ UNION {IF ClearsOnExit \in kernel.flags[t] THEN Want(kernel, t) ELSE {} : t \in met}]
(* Faulty variant: only the first waiter is looked at.                       *)
SetBitsFirst(kernel, g, set) ==
  LET list == kernel.events[Waiters(g)]
  IN Judged(kernel, IF list = <<>> THEN list ELSE <<Head(list)>>, obj[g].bits \cup set)
SetBits(kernel, g, set) == Judged(kernel, kernel.events[Waiters(g)], obj[g].bits \cup set)

OfGroup(op) == {c \in Calls(op) : obj[c.on].kind = "group"}
GroupFrame(c, next, blocks) == Joined(c, [next |-> next, blocks |-> blocks])
SetBitsStep ==
  \E c \in OfGroup("setBits") :
    LET r == SetBits(SuspendAll(k), c.on, c.bits)
    IN /\ Moves("user", "resume", r.kernel) /\ Enter(GroupFrame(c, "user", FALSE))
       /\ Put(c.on, [obj[c.on] EXCEPT !.bits = r.bits])
ClearBits ==
  \E c \in OfGroup("clearBits") :
    /\ Moves("user", "user", k) /\ UNCHANGED frame
    /\ Put(c.on, [obj[c.on] EXCEPT !.bits = @ \ c.bits])

(* xEventGroupWaitBits.                                                      *)
Blocked(kernel, c) == PlaceOnUnorderedEventList(kernel, Waiters(c.on), c.bits \cup c.control, c.ticks)
WaitBits ==
  \E c \in OfGroup("waitBits") :
    LET bits == obj[c.on].bits
        met == Met(bits, c.bits, c.control)
        blocks == ~met /\ c.ticks # 0
    IN /\ Moves("user", "resume", IF blocks THEN Blocked(SuspendAll(k), c) ELSE SuspendAll(k))
       /\ Enter(GroupFrame(c, IF blocks THEN "woken" ELSE "user", blocks))
       /\ Put(c.on, [obj[c.on] EXCEPT !.bits = IF met THEN Leaves(@, c.bits, c.control) ELSE @])

(* xEventGroupSync: sets its own bits, then waits for everybody's.           *)
Meets(o, t) == [o EXCEPT !.rounds[t] = (@ + 1) % MaxRounds]
Sync ==
  \E c \in OfGroup("sync") :
    LET r == SetBits(SuspendAll(k), c.on, c.set)
        met == c.bits \subseteq obj[c.on].bits \cup c.set
        blocks == ~met /\ c.ticks # 0
        o1 == [obj[c.on] EXCEPT !.bits = IF met THEN r.bits \ c.bits ELSE r.bits]
    IN /\ Moves("user", "resume", IF blocks THEN Blocked(r.kernel, c) ELSE r.kernel)
       /\ Enter(GroupFrame(c, IF blocks THEN "woken" ELSE "user", blocks))
       /\ Put(c.on, IF met THEN Meets(o1, k.cur) ELSE o1)

Released(t) == Unblocked \in k.flags[t]
(* Awake again: with the bits that released it, or, after the time-out, with *)
(* those there are now.                                                      *)
Woken ==
  LET released == Released(k.cur)
      met == released \/ Met(obj[Here.on].bits, Here.bits, Here.control)
      o1 == IF met /\ ~released
              THEN [obj[Here.on] EXCEPT !.bits = Leaves(@, Here.bits, Here.control)] ELSE obj[Here.on]
  IN /\ pc[k.cur] = "woken"
     /\ Returns("woken", ResetEventItemValue(k))
     /\ Put(Here.on, IF Here.op = "sync" /\ met THEN Meets(o1, k.cur) ELSE o1)

(* osEventFlagsNew (xEventGroupCreate), and osEventFlagsDelete               *)
(* (vEventGroupDelete), which releases whoever waits.  To delete the group   *)
(* under a task that has timed out and not yet looked at it is misuse.       *)
CreateGroup ==
  \E c \in Calls("newGroup") :
    /\ obj[c.on].kind = "none"
    /\ Moves("user", "user", k) /\ UNCHANGED frame /\ Put(c.on, NewGroup)
DeleteGroup ==
  \E c \in OfGroup("deleteGroup") :
    /\ \A t \in Task : frame[t] # NoCall /\ frame[t].on = c.on /\ frame[t].next = "woken" =>
         Contains(k.events[Waiters(c.on)], t) \/ Released(t)
    /\ Moves("user", "resume",
             Releases(SuspendAll(k), k.events[Waiters(c.on)], Task, {Unblocked}))
    /\ Enter(GroupFrame(c, "user", FALSE)) /\ Put(c.on, NoObject)

GroupSteps == SetBitsStep \/ ClearBits \/ WaitBits \/ Sync \/ Woken \/ CreateGroup \/ DeleteGroup
-----------------------------------------------------------------------------
(* Nobody waits for bits that are set: the waiters were all judged when the  *)
(* bits changed, also those whose bits another one cleared on its way out.   *)
NobodyWaitsInVain ==
  \A g \in Groups : \A t \in ToSet(k.events[Waiters(g)]) :
    ~Met(obj[g].bits, Want(k, t), k.flags[t])

(* Tasks that meet stay within a round of each other: nobody meets the       *)
(* others twice while one of them has still to come.                         *)
NobodyLaps ==
  LET meeting == {t \in Task : \E c \in program.calls[t] : c.op = "sync"}
  IN \A g \in Groups : obj[g].kind = "group" =>
       \A t, u \in meeting :
         (obj[g].rounds[t] - obj[g].rounds[u]) % MaxRounds \in {0, 1, MaxRounds - 1}

(* Whom the bits release goes on, and nobody goes on alone.                  *)
GroupsSound == NobodyWaitsInVain /\ NobodyLaps
=============================================================================
