----------------------------- MODULE Kernel_proofs -----------------------------
(***************************************************************************)
(* The scheduler as its tasks see it, for any tasks, priorities, programs    *)
(* and range of the tick: its lists stay sound, the most urgent ready task   *)
(* runs, no tick and no notification is lost, and a delay is exact.          *)
(***************************************************************************)
EXTENDS Kernel, TaskLists_proofs, TLAPS

-----------------------------------------------------------------------------
(* The inductive invariant.  First what each task is in the middle of, with  *)
(* the locals of its call.                                                   *)
IsWait(f) ==
  /\ DOMAIN f = {"op", "want", "all", "clear", "timeout", "tout", "t0", "got"}
  /\ f.tout \in 0 .. MaxDelay /\ f.t0 \in Ticks /\ f.got \subseteq Bits
InCall(t) ==
  /\ pc[t] \in Locations
  /\ pc[t] = "delay" => frame[t].ticks \in 1 .. MaxDelay
  /\ pc[t] \in {"until", "untilPlace"} =>
       frame[t].prev \in Ticks /\ frame[t].n \in 1 .. (TickRange \div 2) - 1
  /\ pc[t] \in {"wait", "take"} => IsWait(frame[t])
  /\ pc[t] = "query" => frame[t].thread \in Task
  /\ pc[t] = "clear" => frame[t].left \subseteq Bits

(* Who waits for a notification is alive and at the point of waiting; who    *)
(* has been given one, and is not suspended, is ready or pending.            *)
Notified(t) ==
  /\ k.nstate[t] \in {"no", "waiting", "received"} /\ k.nval[t] \subseteq Bits
  /\ k.nstate[t] = "waiting" => pc[t] \in {"take", "count", "asserted"} /\ Alive(t)
  /\ Pend(k, t) => Alive(t)
  /\ pc[t] \in {"take", "count"} /\ t \notin Suspendable =>
       k.nstate[t] = "waiting" \/ IsReady(k, t) \/ Pend(k, t)

(* The reference is what is left until the tick of waking, or, for a task    *)
(* that has not yet come to sleep till the tick it named, until that one.    *)
Since(t) == (k.tick - frame[t].prev) % TickRange
Remains(t) ==
  IF pc[t] \in {"until", "untilPlace"}
    THEN /\ ~Dozes(k, t)
         /\ left[t] = IF frame[t].n - Since(t) < -MaxLate THEN -MaxLate ELSE frame[t].n - Since(t)
         /\ Since(t) + k.pended <= frame[t].n + MaxLate + MaxPended
    ELSE IF Dozes(k, t) /\ ~Pend(k, t)
           THEN left[t] \in 1 .. MaxDelay /\ left[t] = (k.wake[t] - k.tick) % TickRange
           ELSE \/ left[t] = 0
                \/ pc[t] = "resume" /\ left[t] \in -MaxLate .. 0
                \/ pc[t] = "asserted" /\ left[t] \in -MaxLate .. MaxDelay
Task1(t) == InCall(t) /\ Notified(t) /\ Remains(t)

(* Whose turn it is.                                                         *)
GoneToSleep(t) == pc[t] = "suspended" /\ frame[t].thread = t
Turns ==
  /\ IsReady(k, IdleTask) /\ pc[IdleTask] \in {"user", "asserted"}
  /\ \A t \in Task : pc[t] \in {"delay", "untilPlace", "resume", "listed", "asserted"} => t = k.cur
  /\ pc[k.cur] \in {"delay", "untilPlace", "resume"} => k.susp = 1
  /\ pc[k.cur] = "resume" => k.cur \notin k.suspended
  /\ pc[k.cur] = "listed" => k.susp > 0
  /\ pc[k.cur] \in {"until", "wait", "take", "count"} => k.susp = 0
  /\ ~Pend(k, k.cur)
  /\ pc[k.cur] = "query" => k.susp = 0 \/ k.nstate[frame[k.cur].thread] # "waiting"
  /\ k.missed => k.susp > 0 \/ k.pendsv
  /\ ~k.pendsv /\ ~k.missed /\ pc[k.cur] \notin {"yield", "asserted"} =>
       \A u \in Task : IsReady(k, u) => k.prio[u] <= k.prio[k.cur]
  /\ \/ IsReady(k, k.cur) \/ pc[k.cur] \in {"resume", "asserted"}
     \/ k.susp = 0 /\ (k.pendsv \/ pc[k.cur] = "yield" \/ GoneToSleep(k.cur))

(* What the scheduler counts.                                                *)
Counts1 ==
  /\ k.pended \in 0 .. MaxPended /\ k.susp \in 0 .. MaxNesting
  /\ k.missed \in BOOLEAN /\ k.pendsv \in BOOLEAN
  /\ k.susp = 0 => k.pended = 0 /\ k.events["pending"] = <<>>
  /\ IsInjective(k.events["pending"])
  /\ systicks \in Ticks /\ (k.tick + k.pended) % TickRange = systicks
  /\ k.number = Cardinality({t \in Task : InAList(k, t)})

Typed ==
  /\ program \in Programs /\ Good(k)
  /\ DOMAIN k.nstate = Task /\ DOMAIN k.nval = Task
  /\ DOMAIN pc = Task /\ DOMAIN frame = Task /\ DOMAIN left = Task
IInv == Typed /\ Turns /\ Counts1 /\ \A t \in Task : Task1(t)

-----------------------------------------------------------------------------
(* What a step that does not move the tick and leaves most tasks alone keeps. *)
Others(T) ==
  /\ Good(k') /\ Concerns(k, k', T)
  /\ k'.tick = k.tick /\ k'.pended = k.pended /\ program' = program
  /\ DOMAIN k'.nstate = Task /\ DOMAIN k'.nval = Task
  /\ DOMAIN pc' = Task /\ DOMAIN frame' = Task /\ DOMAIN left' = Task
  /\ \A t \in Task \ T : /\ pc'[t] = pc[t] /\ frame'[t] = frame[t] /\ left'[t] = left[t]
                         /\ k'.nval[t] = k.nval[t]

(* A task that the step does not touch is in the same state as before.       *)
Untouched(t) ==
  /\ pc'[t] = pc[t] /\ frame'[t] = frame[t] /\ left'[t] = left[t]
  /\ AsWas(k, k', t) /\ k'.nval[t] = k.nval[t]
  /\ k'.tick = k.tick /\ k'.pended = k.pended /\ program' = program
LEMMA UntouchedTask ==
  ASSUME NEW t \in Task, Task1(t), Untouched(t)
  PROVE  Task1(t)'
<1>1. InCall(t)' BY DEF Task1, InCall, Untouched, IsWait
<1>2. /\ IsReady(k, t)' <=> IsReady(k, t)
      /\ Dozes(k, t)' <=> Dozes(k, t)
      /\ Pend(k, t)' <=> Pend(k, t)
      /\ (t \in k.suspended)' <=> t \in k.suspended
      /\ k'.nstate[t] = k.nstate[t] /\ k'.wake[t] = k.wake[t]
  BY DEF Untouched, AsWas, Stays
<1>3. Alive(t)' <=> Alive(t) BY <1>2 DEF Alive, Sleeping, Dozes
<1>4. Suspendable' = Suspendable BY DEF Suspendable, Untouched
<1>5. Notified(t)' BY <1>2, <1>3, <1>4 DEF Task1, Notified, Untouched
<1>6. Since(t)' = Since(t) BY DEF Since, Untouched
<1>7. Remains(t)' BY <1>2, <1>6 DEF Task1, Remains, Untouched
<1> QED BY <1>1, <1>5, <1>7 DEF Task1

LEMMA OthersKeep ==
  ASSUME IInv, NEW T, Others(T)
  PROVE  \A t \in Task \ T : Task1(t)'
<1> SUFFICES ASSUME NEW t \in Task \ T PROVE Task1(t)' OBVIOUS
<1>1. Task1(t) BY DEF IInv
<1>2. Untouched(t) BY DEF Others, Untouched, Concerns
<1> QED BY <1>1, <1>2, UntouchedTask

(* A step that does not change how many tasks there are.                     *)
Books ==
  /\ k'.susp \in 0 .. MaxNesting /\ k'.missed \in BOOLEAN /\ k'.pendsv \in BOOLEAN
  /\ k'.susp = 0 => k'.pended = 0 /\ k'.events["pending"] = <<>>
  /\ IsInjective(k'.events["pending"])
LEMMA Carried ==
  ASSUME IInv, NEW T, Others(T), UNCHANGED systicks, Turns', Books,
         \A t \in Task \cap T : Task1(t)' /\ (InAList(k', t) <=> InAList(k, t)),
         k'.number = k.number
  PROVE  IInv'
<1>1. \A t \in Task : Task1(t)' BY OthersKeep
<1>2. \A t \in Task : InAList(k', t) <=> InAList(k, t)
  <2>1. \A t \in Task \ T : AsWas(k, k', t) BY DEF Others, Concerns
  <2>2. \A t \in Task \ T : InAList(k', t) <=> InAList(k, t)
    BY <2>1 DEF AsWas, Stays, InAList, Elsewhere, Dozes
  <2> QED BY <2>2
<1>3. {t \in Task : InAList(k', t)} = {t \in Task : InAList(k, t)} BY <1>2
<1>4. Counts1' BY <1>3 DEF IInv, Counts1, Books, Others
<1>5. Typed' BY DEF IInv, Typed, Others
<1> QED BY <1>1, <1>4, <1>5 DEF IInv

-----------------------------------------------------------------------------
(* The running task goes from one point of its code to another.              *)
GoesOn(from, to) ==
  /\ ~k.pendsv /\ pc[k.cur] = from /\ from # "asserted" /\ DOMAIN pc' = Task
  /\ pc'[k.cur] = to /\ \A t \in Task \ {k.cur} : pc'[t] = pc[t] \/ pc'[t] = "user"
(* What it owes the others: a switch if one of them is now more urgent.      *)
Fair(from, to) ==
  /\ k'.cur = k.cur /\ ~Pend(k', k.cur)
  /\ IsReady(k', IdleTask) /\ (k.cur = IdleTask => to = "user")
  /\ k'.prio \in [Task -> Levels]
  /\ from = "yield" => k'.pendsv
  /\ k.missed => k'.missed
  /\ k'.missed => k'.susp > 0 \/ k'.pendsv
  /\ \A u \in Task : IsReady(k', u) =>
       \/ k'.pendsv \/ to = "yield" \/ k'.prio[u] <= k'.prio[k.cur]
       \/ /\ IsReady(k, u) /\ k.prio[k.cur] <= k'.prio[k.cur]
          /\ k'.prio[u] = k.prio[u] \/ k'.prio[u] < k.prio[u]
  /\ to \in {"delay", "untilPlace", "resume"} => k'.susp = 1
  /\ to = "resume" => k.cur \notin k'.suspended
  /\ to = "listed" => k'.susp > 0
  /\ to \in {"until", "wait", "take", "count"} => k'.susp = 0
  /\ to = "query" => k'.nstate[frame'[k.cur].thread] # "waiting"
  /\ \/ IsReady(k', k.cur) \/ to \in {"resume", "asserted"}
     \/ k'.susp = 0 /\ (k'.pendsv \/ to = "yield" \/ (to = "suspended" /\ frame'[k.cur].thread = k.cur))

LEMMA CurrentTask ==
  ASSUME IInv
  PROVE  /\ k.cur \in Task /\ Task1(k.cur) /\ DOMAIN k = Fields /\ Good(k)
         /\ k.prio \in [Task -> Levels] /\ k.base \in [Task -> Levels] /\ k.tick \in Ticks
         /\ k.susp \in Nat /\ k.pended \in Nat /\ k.missed \in BOOLEAN /\ k.pendsv \in BOOLEAN
         /\ IdleTask \in Task
<1>1. Good(k) BY DEF IInv, Typed
<1>2. k.cur \in Task /\ DOMAIN k = Fields /\ k.prio \in [Task -> Levels] /\ k.base \in [Task -> Levels]
  BY <1>1 DEF Good, Sound, Shape
<1>3. k.tick \in Ticks BY <1>1 DEF Good, OnTime, TimedFrom
<1> QED BY <1>1, <1>2, <1>3, KernelAssumption DEF IInv, Counts1

LEMMA TurnsKept ==
  ASSUME IInv, NEW from, NEW to, GoesOn(from, to), Fair(from, to)
  PROVE  Turns'
<1>1. k.cur \in Task /\ k'.cur = k.cur /\ pc'[k'.cur] = to /\ ~Pend(k', k'.cur)
  BY CurrentTask DEF GoesOn, Fair
<1>2. IsReady(k', IdleTask) /\ pc'[IdleTask] \in {"user", "asserted"}
  BY KernelAssumption DEF GoesOn, Fair, IInv, Turns
<1>3. \A t \in Task : pc'[t] \in {"delay", "untilPlace", "resume", "listed", "asserted"} => t = k'.cur
  BY <1>1 DEF GoesOn, IInv, Turns
<1>4. ASSUME ~k'.pendsv, ~k'.missed, to # "yield", NEW u \in Task, IsReady(k', u)
      PROVE  k'.prio[u] <= k'.prio[k'.cur]
  <2>1. CASE /\ IsReady(k, u) /\ k.prio[k.cur] <= k'.prio[k.cur]
             /\ k'.prio[u] = k.prio[u] \/ k'.prio[u] < k.prio[u]
    <3>1. ~k.missed /\ pc[k.cur] \notin {"yield", "asserted"} BY <1>4 DEF Fair, GoesOn
    <3>2. k.prio[u] <= k.prio[k.cur] BY <2>1, <3>1 DEF IInv, Turns, GoesOn
    <3>3. k.prio[u] \in Int /\ k.prio[k.cur] \in Int /\ k'.prio[k.cur] \in Int /\ k'.prio[u] \in Int
      <4>1. k.prio[u] \in Levels /\ k.prio[k.cur] \in Levels /\ k'.prio[k.cur] \in Levels /\ k'.prio[u] \in Levels
        BY <1>1, CurrentTask DEF Fair
      <4> QED BY <4>1 DEF Levels
    <3> QED BY <2>1, <3>2, <3>3, <1>1
  <2>2. CASE k'.prio[u] <= k'.prio[k.cur] BY <2>2, <1>1
  <2> QED BY <1>4, <2>1, <2>2 DEF Fair
<1>5. /\ to \in {"delay", "untilPlace", "resume"} => k'.susp = 1
      /\ to = "resume" => k.cur \notin k'.suspended
      /\ to = "listed" => k'.susp > 0
      /\ to \in {"until", "wait", "take", "count"} => k'.susp = 0
      /\ to = "query" => k'.nstate[frame'[k.cur].thread] # "waiting"
      /\ k'.missed => k'.susp > 0 \/ k'.pendsv
  BY DEF Fair
<1>6. \/ IsReady(k', k'.cur) \/ pc'[k'.cur] \in {"resume", "asserted"}
      \/ k'.susp = 0 /\ (k'.pendsv \/ pc'[k'.cur] = "yield" \/ GoneToSleep(k.cur)')
  BY <1>1 DEF Fair, GoneToSleep
<1> QED BY <1>1, <1>2, <1>3, <1>4, <1>5, <1>6 DEF Turns, GoneToSleep

LEMMA Going ==
  ASSUME IInv, NEW from, NEW to, ~k.pendsv, pc[k.cur] = from, from # "asserted",
         pc' = [pc EXCEPT ![k.cur] = to]
  PROVE  GoesOn(from, to) /\ \A t \in Task \ {k.cur} : pc'[t] = pc[t]
BY CurrentTask DEF GoesOn, IInv, Typed

(* Only who is in its own code, or waits, or goes to sleep is not ready.     *)
LEMMA RunningReady ==
  ASSUME IInv, ~k.pendsv, pc[k.cur] \notin {"resume", "asserted", "yield", "suspended"}
  PROVE  IsReady(k, k.cur) /\ ~Elsewhere(k, k.cur) /\ ~Dozes(k, k.cur) /\ ~Pend(k, k.cur)
<1>1. IsReady(k, k.cur) BY DEF IInv, Turns, GoneToSleep
<1>2. ~Elsewhere(k, k.cur) /\ ~Dozes(k, k.cur) /\ k.cur \notin k.suspended
  BY <1>1, CurrentTask DEF Good, Single, Elsewhere, Dozes
<1>3. ~Pend(k, k.cur) BY DEF IInv, Turns
<1> QED BY <1>1, <1>2, <1>3

(* Nobody asks the idle task for anything.                                   *)
LEMMA Programmed ==
  ASSUME IInv, NEW op, NEW c \in Calls(op)
  PROVE  /\ k.cur # IdleTask /\ c.op = op /\ (op \in Blockable => k.susp = 0)
         /\ Sensible(program) /\ c \in UNION {program.calls[t] : t \in Task}
<1>1. Sensible(program) BY KernelAssumption DEF IInv, Typed
<1>2. c \in program.calls[k.cur] /\ c.op = op /\ (k.susp = 0 \/ op \notin Blockable)
  <2>1. ~(k.pendsv \/ pc[k.cur] # "user") BY DEF Calls
  <2> QED BY <2>1 DEF Calls
<1>3. k.cur # IdleTask BY <1>1, <1>2 DEF Sensible
<1> QED BY <1>1, <1>2, <1>3, CurrentTask

-----------------------------------------------------------------------------
(* The steps that move no task between lists.                                *)
Flat(T) ==
  /\ Others(T) /\ k.cur \in T /\ \A t \in Task \cap T : Stays(k, k', t)
  /\ k'.cur = k.cur /\ k'.prio = k.prio /\ k'.number = k.number
  /\ k'.events["pending"] = k.events["pending"] /\ k'.missed = k.missed /\ k'.pendsv \in BOOLEAN
  /\ k'.susp \in 0 .. MaxNesting /\ (k'.susp = 0 => k.susp = 0)
Allowed(from, to) ==
  /\ GoesOn(from, to) /\ (k.cur = IdleTask => to = "user") /\ (from = "yield" => k'.pendsv)
  /\ to \in {"delay", "untilPlace", "resume"} => k'.susp = 1
  /\ to = "resume" => k.cur \notin k.suspended
  /\ to = "listed" => k'.susp > 0
  /\ to \in {"until", "wait", "take", "count"} => k'.susp = 0
  /\ to = "query" => k'.nstate[frame'[k.cur].thread] # "waiting"
  /\ \/ from \notin {"resume", "asserted", "yield", "suspended"} \/ to \in {"resume", "asserted"}
     \/ IsReady(k, k.cur)
     \/ k'.susp = 0 /\ (k'.pendsv \/ to = "yield" \/ (to = "suspended" /\ frame'[k.cur].thread = k.cur))
LEMMA FlatStep ==
  ASSUME IInv, NEW T, NEW from, NEW to, Flat(T), Allowed(from, to), UNCHANGED systicks,
         \A t \in Task \cap T : Task1(t)'
  PROVE  IInv'
<1>1. /\ k.cur \in Task /\ k.prio \in [Task -> Levels] /\ k.susp \in Nat /\ k'.susp \in Nat
      /\ ~k.pendsv /\ pc[k.cur] = from
  BY CurrentTask, KernelAssumption DEF Flat, Allowed, GoesOn
<1>2. \A u \in Task : IsReady(k', u) <=> IsReady(k, u)
  <2>1. \A u \in Task \ T : AsWas(k, k', u) BY DEF Flat, Others, Concerns
  <2> QED BY <2>1 DEF Flat, AsWas, Stays
<1>3. IsReady(k', IdleTask) BY <1>2, KernelAssumption DEF IInv, Turns
<1>4. k'.missed => k'.susp > 0 \/ k'.pendsv
  <2>1. k'.missed => k.susp > 0 BY <1>1 DEF Flat, IInv, Turns
  <2>2. k.susp > 0 => k'.susp > 0 BY <1>1 DEF Flat
  <2> QED BY <2>1, <2>2
<1>5. \A u \in Task : IsReady(k', u) =>
        IsReady(k, u) /\ k'.prio[u] = k.prio[u] /\ k.prio[k.cur] <= k'.prio[k.cur]
  <2>1. k.prio[k.cur] \in Int BY <1>1 DEF Levels
  <2> QED BY <1>2, <2>1 DEF Flat
<1>6. from \notin {"resume", "asserted", "yield", "suspended"} => IsReady(k, k.cur)
  BY <1>1, RunningReady
<1>7. ~Pend(k', k.cur) BY DEF Pend, Flat, IInv, Turns
<1>12. to = "resume" => k.cur \notin k'.suspended BY <1>1 DEF Allowed, Flat, Stays
<1>11. Fair(from, to) BY <1>1, <1>2, <1>3, <1>4, <1>5, <1>6, <1>7, <1>12 DEF Fair, Flat, Allowed
<1>8. Turns' BY <1>11, TurnsKept DEF Allowed
<1>9. Books
  <2>1. k'.susp = 0 => k'.pended = 0 BY DEF Flat, Others, IInv, Counts1
  <2> QED BY <2>1 DEF Books, Flat, IInv, Counts1
<1>10. \A t \in Task \cap T : InAList(k', t) <=> InAList(k, t)
  BY DEF Flat, Stays, InAList, Elsewhere, Dozes
<1> QED BY <1>8, <1>9, <1>10, Carried DEF Flat

(* What such a step can do to the kernel: change only what is counted, or    *)
(* the state of a task's notifications.                                      *)
LEMMA OnlyCounted ==
  ASSUME IInv, NEW T, k.cur \in T, ListsAs(k, k'), k'.number = k.number, k'.pended = k.pended,
         k'.missed = k.missed,
         DOMAIN k'.nstate = Task, DOMAIN k'.nval = Task, program' = program,
         DOMAIN pc' = Task, DOMAIN frame' = Task, DOMAIN left' = Task,
         \A t \in Task \ T : /\ pc'[t] = pc[t] /\ frame'[t] = frame[t] /\ left'[t] = left[t]
                             /\ k'.nval[t] = k.nval[t] /\ k'.nstate[t] = k.nstate[t],
         k'.pendsv \in BOOLEAN, k'.susp \in 0 .. MaxNesting, k'.susp = 0 => k.susp = 0
  PROVE  Flat(T) /\ \A t \in Task : Stays(k, k', t) /\ k'.wake[t] = k.wake[t]
<1>1. Good(k) BY CurrentTask
<1>2. Good(k') /\ \A t : /\ IsReady(k', t) <=> IsReady(k, t)
                         /\ Dozes(k', t) <=> Dozes(k, t)
  BY <1>1, GoodAs
<1>3. Concerns(k, k', T) BY <1>1, ConcernsAs
<1>4. \A t \in Task : Stays(k, k', t) /\ k'.wake[t] = k.wake[t]
  BY <1>2 DEF Stays, ListsAs, SameLists, Pend
<1> QED BY <1>2, <1>3, <1>4 DEF Flat, Others, ListsAs

-----------------------------------------------------------------------------
(* The steps of the running task that concern nobody else.                   *)
OwnBut(from, to) ==
  /\ ~k.pendsv /\ pc[k.cur] = from /\ from # "asserted"
  /\ pc' = [pc EXCEPT ![k.cur] = to] /\ program' = program
  /\ ListsAs(k, k') /\ k'.number = k.number /\ k'.pended = k.pended /\ k'.missed = k.missed
  /\ DOMAIN frame' = Task /\ DOMAIN left' = Task
  /\ \A t \in Task \ {k.cur} : frame'[t] = frame[t] /\ left'[t] = left[t]
  /\ k'.pendsv \in BOOLEAN /\ k'.susp \in 0 .. MaxNesting /\ (k'.susp = 0 => k.susp = 0)
  /\ k.cur = IdleTask => to = "user"
  /\ from = "yield" => k'.pendsv
  /\ to \in {"delay", "untilPlace", "resume"} => k'.susp = 1
  /\ to = "resume" => k.cur \notin k.suspended
  /\ to = "listed" => k'.susp > 0
  /\ to \in {"until", "wait", "take", "count"} => k'.susp = 0
  /\ to = "query" => k'.nstate[frame'[k.cur].thread] # "waiting"
  /\ \/ from \notin {"resume", "asserted", "yield", "suspended"} \/ to = "asserted"
     \/ k'.susp = 0 /\ (k'.pendsv \/ to = "yield")
     \/ IsReady(k, k.cur)
Own(from, to) ==
  /\ OwnBut(from, to) /\ DOMAIN k'.nstate = Task /\ DOMAIN k'.nval = Task
  /\ \A t \in Task \ {k.cur} : k'.nval[t] = k.nval[t] /\ k'.nstate[t] = k.nstate[t]
LEMMA OwnStep ==
  ASSUME IInv, NEW from, NEW to, Own(from, to), UNCHANGED systicks, NEW c, c = k.cur,
         ASSUME \A t \in Task : Stays(k, k', t) /\ k'.wake[t] = k.wake[t], Good(k')
         PROVE  Task1(c)'
  PROVE  IInv'
<1>1. k.cur \in Task BY CurrentTask
<1>2. DOMAIN pc' = Task /\ \A t \in Task \ {k.cur} : pc'[t] = pc[t]
  BY <1>1 DEF Own, OwnBut, IInv, Typed
<1>3. Flat({k.cur}) /\ \A t \in Task : Stays(k, k', t) /\ k'.wake[t] = k.wake[t]
  BY <1>2, OnlyCounted DEF Own, OwnBut
<1>4. Good(k') BY <1>3 DEF Flat, Others
<1>5. Task1(c)' BY <1>3, <1>4
<1>6. GoesOn(from, to) BY Going DEF Own, OwnBut
<1>7. Allowed(from, to) BY <1>6 DEF Allowed, Own, OwnBut
<1>8. \A t \in Task \cap {k.cur} : Task1(t)' BY <1>5
<1> QED BY <1>3, <1>7, <1>8, FlatStep

(* The running task is ready, and nothing is left of an earlier sleep.       *)
LEMMA Settled ==
  ASSUME NEW t \in Task, Good(k'), IsReady(k', t), InCall(t)', k'.nval[t] \subseteq Bits,
         k'.nstate[t] \in {"no", "received"}, pc'[t] \notin {"until", "untilPlace"}, left'[t] = 0
  PROVE  Task1(t)'
<1>1. ~Dozes(k', t) BY DEF Good, Single, Elsewhere, Dozes
<1>2. Notified(t)' BY DEF Notified, Alive
<1>3. Remains(t)' BY <1>1 DEF Remains
<1> QED BY <1>2, <1>3 DEF Task1

(* What holds of the running task in its own code.                           *)
LEMMA AtHome ==
  ASSUME IInv, ~k.pendsv,
         pc[k.cur] \in {"user", "delay", "wait", "query", "clear", "listed"}
  PROVE  /\ IsReady(k, k.cur) /\ ~Pend(k, k.cur)
         /\ left[k.cur] = 0 /\ k.nstate[k.cur] \in {"no", "received"}
         /\ k.nval[k.cur] \subseteq Bits
<1>1. k.cur \in Task /\ Task1(k.cur) BY CurrentTask
<1>2. IsReady(k, k.cur) /\ ~Dozes(k, k.cur) BY RunningReady
<1>3. left[k.cur] = 0 BY <1>1, <1>2 DEF Task1, Remains
<1>4. k.nstate[k.cur] \in {"no", "received"} /\ k.nval[k.cur] \subseteq Bits
  BY <1>1 DEF Task1, Notified
<1>5. ~Pend(k, k.cur) BY RunningReady
<1> QED BY <1>2, <1>3, <1>4, <1>5

(* A step of the running task that ends with it ready.                       *)
LEMMA OwnSettled ==
  ASSUME IInv, NEW from, NEW to, Own(from, to), UNCHANGED systicks, IsReady(k, k.cur),
         NEW c, c = k.cur, InCall(c)', to \notin {"until", "untilPlace"}, left'[k.cur] = 0,
         k'.nval[k.cur] \subseteq Bits, k'.nstate[k.cur] \in {"no", "received"}
  PROVE  IInv'
<1>1. ASSUME \A t \in Task : Stays(k, k', t) /\ k'.wake[t] = k.wake[t], Good(k')
      PROVE  Task1(c)'
  <2>0. k.cur \in Task BY CurrentTask
  <2>1. IsReady(k', k.cur) BY <1>1, <2>0 DEF Stays
  <2>2. pc'[k.cur] = to BY <2>0 DEF Own, OwnBut, IInv, Typed
  <2>3. \A t \in Task : InCall(t)' /\ IsReady(k', t) /\ k'.nval[t] \subseteq Bits
             /\ k'.nstate[t] \in {"no", "received"} /\ pc'[t] \notin {"until", "untilPlace"}
             /\ left'[t] = 0 /\ Good(k') => Task1(t)'
    BY Settled
  <2> QED BY <1>1, <2>0, <2>1, <2>2, <2>3
<1> QED BY <1>1, OwnStep

(* What the scheduler counts may differ; the tasks are as they were.         *)
Undisturbed(j) ==
  /\ ListsAs(k, j) /\ Routine(k, j) /\ j.pended = k.pended /\ j.missed = k.missed
  /\ j.pendsv \in BOOLEAN
LEMMA Calmly ==
  ASSUME IInv
  PROVE  /\ Undisturbed(k)
         /\ Undisturbed(SuspendAll(k)) /\ SuspendAll(k).susp = k.susp + 1 /\ SuspendAll(k).pendsv = k.pendsv
         /\ Undisturbed(Yield(k)) /\ Yield(k).susp = k.susp /\ Yield(k).pendsv
<1>1. DOMAIN k = Fields /\ k.pendsv \in BOOLEAN BY CurrentTask
<1>2. Undisturbed(k) BY <1>1 DEF Undisturbed, ListsAs, SameLists, Routine
<1>3. Undisturbed(SuspendAll(k)) /\ SuspendAll(k).susp = k.susp + 1 /\ SuspendAll(k).pendsv = k.pendsv
  BY <1>1, SuspFields DEF Undisturbed, SuspendAll
<1>4. Undisturbed(Yield(k)) /\ Yield(k).susp = k.susp /\ Yield(k).pendsv
  BY <1>1, PendsvFields DEF Undisturbed, Yield
<1> QED BY <1>2, <1>3, <1>4

(* A step of the running task that ends with it ready and as it was.         *)
LEMMA OwnCalm ==
  ASSUME IInv, NEW from, NEW to, OwnBut(from, to), Undisturbed(k'), UNCHANGED systicks, IsReady(k, k.cur),
         NEW c, c = k.cur, InCall(c)', to \notin {"until", "untilPlace"}, left' = left,
         from \in {"user", "delay", "wait", "query", "clear", "listed"}
  PROVE  IInv'
<1>1. left[c] = 0 /\ k.nval[c] \subseteq Bits /\ k.nstate[c] \in {"no", "received"}
  BY AtHome DEF OwnBut
<1>2. k'.nval = k.nval /\ k'.nstate = k.nstate BY DEF Undisturbed, Routine
<1>3. Own(from, to) BY <1>2 DEF Own, IInv, Typed
<1> QED BY <1>1, <1>2, <1>3, OwnSettled

LEMMA DelayKeeps ==
  ASSUME IInv, Delay, UNCHANGED systicks
  PROVE  IInv'
<1>0. PICK c \in Calls("osDelay") :
        Moves("user", "delay", SuspendAll(k)) /\ Enter(c) /\ UNCHANGED left
  BY DEF Delay
<1>1. k.cur # IdleTask /\ k.susp = 0 /\ c.ticks \in 1 .. MaxDelay
  BY <1>0, Programmed DEF Sensible, Blockable
<1>2. Undisturbed(k') /\ k'.susp = 1 /\ k'.pendsv = k.pendsv BY <1>0, <1>1, Calmly DEF Moves
<1>3. k.cur \in Task /\ IsReady(k, k.cur) BY <1>0, CurrentTask, AtHome DEF Moves
<1>4. frame'[k.cur] = c /\ pc'[k.cur] = "delay" BY <1>0, <1>3 DEF Moves, Enter, IInv, Typed
<1>5. OwnBut("user", "delay")
  BY <1>0, <1>1, <1>2, <1>3, KernelAssumption, CurrentTask DEF OwnBut, Moves, Enter, IInv, Typed, Undisturbed, Routine
<1>6. \A t \in Task : t = k.cur => InCall(t)' BY <1>1, <1>4 DEF InCall, Locations
<1> QED BY <1>0, <1>2, <1>3, <1>5, <1>6, OwnCalm

LEMMA UntilKeeps ==
  ASSUME IInv, Until, UNCHANGED systicks
  PROVE  IInv'
<1>0. Moves("until", "untilPlace", SuspendAll(k)) /\ Same BY DEF Until
<1>1. k.cur # IdleTask /\ k.susp = 0 BY <1>0 DEF IInv, Turns, Moves
<1>2. Undisturbed(k') /\ k'.susp = 1 /\ k'.pendsv = k.pendsv BY <1>0, <1>1, Calmly DEF Moves
<1>3. k.cur \in Task /\ Task1(k.cur) BY CurrentTask
<1>4. frame' = frame /\ left' = left /\ pc'[k.cur] = "untilPlace" /\ pc[k.cur] = "until"
  BY <1>0, <1>3 DEF Moves, Same, IInv, Typed
<1>5. OwnBut("until", "untilPlace")
  BY <1>0, <1>1, <1>2, <1>3, KernelAssumption, CurrentTask DEF OwnBut, Moves, Same, IInv, Typed, Undisturbed, Routine
<1>6. Own("until", "untilPlace") BY <1>2, <1>5 DEF Own, Undisturbed, Routine, IInv, Typed
<1>7. ASSUME NEW c, c = k.cur, \A t \in Task : Stays(k, k', t) /\ k'.wake[t] = k.wake[t], Good(k')
      PROVE  Task1(c)'
  <2>1. c \in Task /\ Task1(c) /\ pc[c] = "until" /\ pc'[c] = "untilPlace" BY <1>3, <1>4, <1>7
  <2>2. InCall(c)' BY <2>1, <1>4 DEF Task1, InCall, Locations
  <2>3. k'.nstate = k.nstate /\ k'.nval = k.nval /\ k'.tick = k.tick /\ k'.pended = k.pended
    BY <1>2 DEF Undisturbed, Routine, ListsAs
  <2>4. /\ Dozes(k', c) <=> Dozes(k, c)
        /\ IsReady(k', c) <=> IsReady(k, c)
        /\ Pend(k', c) <=> Pend(k, c)
        /\ (c \in k'.suspended) <=> c \in k.suspended
    BY <2>1, <1>7 DEF Stays
  <2>5. Alive(c)' <=> Alive(c) BY <2>4 DEF Alive, Sleeping, Dozes
  <2>6. Notified(c)' BY <2>1, <2>3, <2>4, <2>5 DEF Task1, Notified
  <2>7. Remains(c)' BY <2>1, <2>3, <2>4, <1>4 DEF Task1, Remains, Since
  <2> QED BY <2>2, <2>6, <2>7 DEF Task1
<1> QED BY <1>6, <1>7, OwnStep

(* A task between two points where it neither waits nor is on its way to     *)
(* sleep: what holds of it stays.                                            *)
Passing == {"user", "delay", "yield", "query", "wait", "suspended", "listed", "clear"}
LEMMA PassedOn ==
  ASSUME NEW c \in Task, Task1(c), pc[c] \in Passing, pc'[c] \in Passing, InCall(c)',
         Stays(k, k', c), k'.wake[c] = k.wake[c], k'.tick = k.tick,
         k'.nstate[c] = k.nstate[c], k'.nval[c] = k.nval[c], left'[c] = left[c]
  PROVE  Task1(c)'
<1>1. /\ Dozes(k', c) <=> Dozes(k, c)
      /\ IsReady(k', c) <=> IsReady(k, c)
      /\ Pend(k', c) <=> Pend(k, c)
      /\ (c \in k'.suspended) <=> c \in k.suspended
  BY DEF Stays
<1>2. Alive(c)' <=> Alive(c) BY <1>1 DEF Alive, Sleeping, Dozes
<1>3. Notified(c)' BY <1>1, <1>2 DEF Task1, Notified, Passing
<1>4. Remains(c)' BY <1>1 DEF Task1, Remains, Passing
<1> QED BY <1>3, <1>4 DEF Task1

LEMMA OwnPassing ==
  ASSUME IInv, NEW from, NEW to, OwnBut(from, to), Undisturbed(k'), UNCHANGED systicks,
         NEW c, c = k.cur, InCall(c)', from \in Passing, to \in Passing, left'[c] = left[c]
  PROVE  IInv'
<1>1. c \in Task /\ Task1(c) BY CurrentTask
<1>2. k'.nval = k.nval /\ k'.nstate = k.nstate /\ k'.tick = k.tick BY DEF Undisturbed, Routine, ListsAs
<1>3. Own(from, to) BY <1>2 DEF Own, IInv, Typed
<1>4. pc[c] = from /\ pc'[c] = to BY <1>1 DEF OwnBut, IInv, Typed
<1>5. ASSUME \A t \in Task : Stays(k, k', t) /\ k'.wake[t] = k.wake[t], Good(k')
      PROVE  Task1(c)'
  <2>1. Stays(k, k', c) /\ k'.wake[c] = k.wake[c] BY <1>1, <1>5
  <2> QED BY <1>1, <1>2, <1>4, <2>1, PassedOn
<1> QED BY <1>3, <1>5, OwnStep

(* Calls that only ask the scheduler for something.                          *)
LEMMA UserCalm ==
  ASSUME IInv, NEW j, Undisturbed(j), Moves("user", "user", j), UNCHANGED <<frame, systicks>>,
         DOMAIN left' = Task, \A t \in Task : left'[t] = left[t],
         j.susp \in 0 .. MaxNesting, j.susp = 0 => k.susp = 0
  PROVE  IInv'
<1>1. k.cur \in Task BY CurrentTask
<1>2. OwnBut("user", "user") BY <1>1 DEF OwnBut, Moves, Undisturbed, Routine, IInv, Typed
<1>3. \A t \in Task : t = k.cur => InCall(t)' BY <1>1 DEF Moves, InCall, Locations, IInv, Typed
<1> QED BY <1>1, <1>2, <1>3, OwnPassing DEF Moves, Passing

LEMMA ThreadYieldKeeps ==
  ASSUME IInv, ThreadYield, UNCHANGED systicks
  PROVE  IInv'
BY UserCalm, Calmly DEF ThreadYield, Same, IInv, Typed, Counts1
LEMMA IdleYieldsKeeps ==
  ASSUME IInv, IdleYields, UNCHANGED systicks
  PROVE  IInv'
BY UserCalm, Calmly DEF IdleYields, Same, IInv, Typed, Counts1
LEMMA KernelLockKeeps ==
  ASSUME IInv, KernelLock, UNCHANGED systicks
  PROVE  IInv'
<1>1. k.susp = 0 BY DEF KernelLock, SchedulerState
<1>2. SuspendAll(k).susp \in 0 .. MaxNesting /\ SuspendAll(k).susp # 0
  BY <1>1, Calmly, KernelAssumption
<1> QED BY <1>2, UserCalm, Calmly DEF KernelLock, Same, IInv, Typed
LEMMA LockKeeps ==
  ASSUME IInv, Moves("user", "user", SuspendAll(k)), k.susp < MaxNesting,
         UNCHANGED <<frame, systicks>>, DOMAIN left' = Task, \A t \in Task : left'[t] = left[t]
  PROVE  IInv'
<1>1. SuspendAll(k).susp \in 0 .. MaxNesting /\ SuspendAll(k).susp # 0
  BY Calmly, CurrentTask, KernelAssumption
<1> QED BY <1>1, UserCalm, Calmly
LEMMA YieldKeeps ==
  ASSUME IInv, YieldWithinAPI, UNCHANGED systicks
  PROVE  IInv'
<1>1. k.cur \in Task /\ k.susp \in 0 .. MaxNesting BY CurrentTask DEF IInv, Counts1
<1>2. Undisturbed(k') /\ k'.susp = k.susp /\ k'.pendsv BY Calmly DEF YieldWithinAPI, Moves
<1>3. IsReady(k, k.cur) \/ k.susp = 0 BY DEF YieldWithinAPI, Moves, IInv, Turns
<1>4. OwnBut("yield", "user")
  BY <1>1, <1>2, <1>3 DEF OwnBut, YieldWithinAPI, Moves, Leave, Undisturbed, Routine, IInv, Typed
<1>5. \A t \in Task : t = k.cur => InCall(t)'
  BY <1>1 DEF YieldWithinAPI, Moves, InCall, Locations, IInv, Typed
<1> QED BY <1>1, <1>2, <1>4, <1>5, OwnPassing DEF YieldWithinAPI, Passing

LEMMA Spent ==
  ASSUME NEW a \in Int
  PROVE  a % TickRange \in Ticks /\ (a - a) % TickRange = 0
<1>1. TickRange \in Nat \ {0} BY TaskListsAssumption
<1>2. a % TickRange \in 0 .. TickRange - 1 BY <1>1, Division
<1>3. 0 % TickRange = 0 BY <1>1, Residue
<1> QED BY <1>2, <1>3 DEF Ticks

LEMMA DelayUntilKeeps ==
  ASSUME IInv, DelayUntil, UNCHANGED systicks
  PROVE  IInv'
<1>0. PICK c \in Calls("osDelayUntil") :
        LET n == (c.until - k.tick) % TickRange
        IN /\ 0 < n /\ n < TickRange \div 2
           /\ Moves("user", "until", k)
           /\ Enter([op |-> "osDelayUntil", prev |-> k.tick, n |-> n]) /\ Due(k.cur, n)
  BY DEF DelayUntil
<1> DEFINE n == (c.until - k.tick) % TickRange
           f == [op |-> "osDelayUntil", prev |-> k.tick, n |-> n]
<1>1. k.cur # IdleTask /\ k.susp = 0 /\ c.until \in Ticks
  BY <1>0, Programmed DEF Sensible, Blockable
<1>2. k.tick \in Ticks /\ n \in Ticks
  BY <1>1, CurrentTask, Spent, TaskListsAssumption DEF Ticks
<1>3. n \in 1 .. (TickRange \div 2) - 1 BY <1>0, <1>2, TaskListsAssumption DEF Ticks
<1>4. 0 < n /\ n < TickRange \div 2 /\ Moves("user", "until", k) /\ Enter(f) /\ Due(k.cur, n) BY <1>0
<1> HIDE DEF n
<1>5. f.prev = k.tick /\ f.n = n OBVIOUS
<1> HIDE DEF f
<1>6. k' = k /\ k.cur \in Task /\ frame'[k.cur] = f /\ left'[k.cur] = n /\ pc'[k.cur] = "until"
  BY <1>4, CurrentTask DEF Moves, Enter, Due, IInv, Typed
<1>7. Own("user", "until")
  BY <1>1, <1>4, <1>6, Calmly DEF Own, OwnBut, Moves, Enter, Due, IInv, Typed, Counts1, Undisturbed, Routine
<1>8. ASSUME NEW t, t = k.cur, \A u \in Task : Stays(k, k', u) /\ k'.wake[u] = k.wake[u], Good(k')
      PROVE  Task1(t)'
  <2>1. /\ t \in Task /\ k'.nstate[t] \in {"no", "received"} /\ k'.nval[t] \subseteq Bits
        /\ IsReady(k', t) /\ ~Pend(k', t)
    BY <1>4, <1>6, <1>8, AtHome DEF Moves
  <2>2. ~Dozes(k', t) BY <2>1, <1>8 DEF Good, Single, Elsewhere, Dozes
  <2>3. InCall(t)' BY <1>2, <1>3, <1>5, <1>6, <1>8 DEF InCall, Locations
  <2>4. Notified(t)' BY <2>1 DEF Notified, Alive
  <2>5. Since(t)' = 0 BY <1>2, <1>5, <1>6, <1>8, Spent, TaskListsAssumption DEF Since, Ticks
  <2>6. k'.pended \in 0 .. MaxPended BY <1>6 DEF IInv, Counts1
  <2>7. /\ left'[t] = IF frame'[t].n - Since(t)' < -MaxLate THEN -MaxLate ELSE frame'[t].n - Since(t)'
        /\ Since(t)' + k'.pended <= frame'[t].n + MaxLate + MaxPended
    <3> DEFINE s == Since(t)'
    <3>1. s = 0 /\ left'[t] = n /\ frame'[t].n = n BY <2>5, <1>5, <1>6, <1>8
    <3> HIDE DEF s
    <3>2. TickRange \div 2 \in Int BY TaskListsAssumption
    <3>3. s + k'.pended <= n + MaxLate + MaxPended BY <3>1, <2>6, <1>3, <3>2, KernelAssumption
    <3>4. n = IF n - s < -MaxLate THEN -MaxLate ELSE n - s
      BY <3>1, <1>3, <3>2, KernelAssumption
    <3>5. left'[t] = IF frame'[t].n - s < -MaxLate THEN -MaxLate ELSE frame'[t].n - s
      BY <3>1, <3>4
    <3>6. s + k'.pended <= frame'[t].n + MaxLate + MaxPended BY <3>1, <3>3
    <3> QED BY <3>5, <3>6 DEF s
  <2>8. pc'[t] = "until" BY <1>6, <1>8
  <2>9. Remains(t)' BY <2>2, <2>7, <2>8 DEF Remains
  <2> QED BY <2>3, <2>4, <2>9 DEF Task1
<1> QED BY <1>7, <1>8, OwnStep

-----------------------------------------------------------------------------
(* The running task goes to sleep.                                           *)
FallsAsleep(from, to) ==
  /\ ~k.pendsv /\ pc[k.cur] = from /\ pc' = [pc EXCEPT ![k.cur] = to] /\ program' = program
  /\ from \notin {"resume", "asserted", "yield", "suspended"} /\ k.cur # IdleTask
  /\ Good(k') /\ k'.cur = k.cur /\ k'.number = k.number /\ k'.prio = k.prio
  /\ k'.tick = k.tick /\ k'.pended = k.pended /\ k'.susp = k.susp /\ k'.missed = k.missed
  /\ k'.events = k.events /\ k'.nval = k.nval /\ DOMAIN k'.nstate = Task
  /\ Moved(k, k', k.cur) /\ ~IsReady(k', k.cur)
  /\ k.cur \in k'.suspended \/ Dozes(k', k.cur)
  /\ \A t \in Task \ {k.cur} : k'.nstate[t] = k.nstate[t] /\ k'.wake[t] = k.wake[t]
  /\ DOMAIN frame' = Task /\ DOMAIN left' = Task
  /\ \A t \in Task \ {k.cur} : frame'[t] = frame[t] /\ left'[t] = left[t]
  /\ \/ to \in {"take", "count"} /\ k'.susp = 0 /\ k'.pendsv = TRUE
     \/ /\ to = "resume" /\ k'.susp = 1 /\ k'.pendsv = k.pendsv
        /\ k.cur \notin k'.suspended
LEMMA SleepStep ==
  ASSUME IInv, NEW from, NEW to, FallsAsleep(from, to), UNCHANGED systicks,
         NEW c, c = k.cur, Task1(c)'
  PROVE  IInv'
<1>1. c \in Task /\ k.prio \in [Task -> Levels] /\ k.pendsv \in BOOLEAN /\ k.missed \in BOOLEAN
  BY CurrentTask
<1>2. DOMAIN pc' = Task /\ pc'[c] = to /\ \A t \in Task \ {c} : pc'[t] = pc[t]
  BY <1>1 DEF FallsAsleep, IInv, Typed
<1>3. IsReady(k, c) BY RunningReady DEF FallsAsleep
<1>4. \A t \in Task \ {c} : AsWas(k, k', t)
  <2>1. \A t : Pend(k', t) <=> Pend(k, t) BY DEF FallsAsleep, Pend
  <2> QED BY <2>1 DEF AsWas, Stays, FallsAsleep, Moved, Dozes
<1>5. Others({c}) BY <1>2, <1>4 DEF Others, Concerns, FallsAsleep, IInv, Typed
<1>6. IsReady(k', IdleTask) /\ c # IdleTask
  BY <1>4, KernelAssumption DEF FallsAsleep, IInv, Turns, AsWas, Stays
<1>7. \A u \in Task : IsReady(k', u) =>
        IsReady(k, u) /\ k'.prio[u] = k.prio[u] /\ k.prio[k.cur] <= k'.prio[k.cur]
  <2>1. k.prio[c] \in Int BY <1>1 DEF Levels
  <2> QED BY <1>3, <1>4, <2>1 DEF FallsAsleep, AsWas, Stays
<1>8. GoesOn(from, to) BY Going DEF FallsAsleep
<1>9. k'.missed => k'.susp > 0 \/ k'.pendsv BY DEF FallsAsleep, IInv, Turns
<1>16. ~Pend(k', k.cur) BY DEF Pend, FallsAsleep, IInv, Turns
<1>10. Fair(from, to) BY <1>1, <1>6, <1>7, <1>9, <1>16 DEF Fair, FallsAsleep
<1>11. Turns' BY <1>8, <1>10, TurnsKept
<1>12. Books BY <1>1 DEF Books, FallsAsleep, IInv, Counts1
<1>13. InAList(k', c) /\ InAList(k, c) BY <1>3 DEF InAList, Elsewhere, FallsAsleep, Dozes
<1>14. \A t \in Task \cap {c} : Task1(t)' /\ (InAList(k', t) <=> InAList(k, t)) BY <1>13
<1>15. k'.number = k.number BY DEF FallsAsleep
<1> QED BY <1>5, <1>11, <1>12, <1>14, <1>15, Carried

(* The ticks are those till the tick of waking.                              *)
LEMMA TicksTill ==
  ASSUME NEW now \in Ticks, NEW n \in 1 .. MaxDelay
  PROVE  (((now + n) % TickRange) - now) % TickRange = n
<1>0. TickRange \in Nat \ {0, 1} BY TaskListsAssumption
<1>1. (((now + n) % TickRange) + (-now)) % TickRange = (now + n + (-now)) % TickRange
  <2>1. \A a, b \in Int : ((a % TickRange) + b) % TickRange = (a + b) % TickRange BY <1>0, ModAdd
  <2>2. now + n \in Int /\ -now \in Int BY <1>0 DEF Ticks, MaxDelay
  <2> QED BY <2>1, <2>2
<1>2. n % TickRange = n BY <1>0, Residue DEF MaxDelay
<1>3. now + n + (-now) = n BY DEF Ticks, MaxDelay
<1>4. (now + n) % TickRange \in Int BY <1>0, Division DEF Ticks, MaxDelay
<1>5. ((now + n) % TickRange) + (-now) = ((now + n) % TickRange) - now BY <1>4 DEF Ticks
<1> QED BY <1>1, <1>2, <1>3, <1>5

LEMMA DelayPlaceKeeps ==
  ASSUME IInv, DelayPlace, UNCHANGED systicks
  PROVE  IInv'
<1> DEFINE n == Here.ticks
<1>1. /\ k.cur \in Task /\ Task1(k.cur) /\ pc[k.cur] = "delay" /\ ~k.pendsv
      /\ k' = AddCurrentToDelayed(k, n, FALSE) /\ frame' = frame /\ Due(k.cur, n)
      /\ pc' = [pc EXCEPT ![k.cur] = "resume"] /\ program' = program /\ k.tick \in Ticks
  BY CurrentTask DEF DelayPlace, Moves
<1>2. n \in 1 .. MaxDelay BY <1>1 DEF Task1, InCall, Here
<1> HIDE DEF n
<1>3. PutToSleep(k, k', n, FALSE) BY <1>1, <1>2, CurrentTask, CurrentSleeps
<1>4. k.cur # IdleTask /\ k.susp = 1 BY <1>1 DEF IInv, Turns
<1>5. IsReady(k, k.cur) /\ ~Pend(k, k.cur) /\ k.nstate[k.cur] \in {"no", "received"} /\ k.nval[k.cur] \subseteq Bits
  BY <1>1, AtHome
<1>6. k.cur \notin k'.suspended /\ Dozes(k', k.cur) /\ k'.wake[k.cur] = WakeAt(k, n)
  BY <1>3 DEF PutToSleep, ForEver
<1>7. FallsAsleep("delay", "resume")
  BY <1>1, <1>3, <1>4, <1>6 DEF FallsAsleep, PutToSleep, Routine, SwitchesAs, Due, IInv, Typed
<1>8. \A t \in Task : t = k.cur => Task1(t)'
  <2>1. \A t \in Task : t = k.cur => InCall(t)' /\ pc'[t] = "resume" /\ left'[t] = n
    BY <1>1 DEF InCall, Locations, Due, IInv, Typed
  <2>2. k'.nstate = k.nstate /\ k'.nval = k.nval /\ ~Pend(k', k.cur) /\ k'.tick = k.tick
    BY <1>3, <1>5 DEF PutToSleep, Routine, Pend
  <2>3. \A t \in Task : t = k.cur => Notified(t)' BY <1>5, <2>1, <2>2 DEF Notified
  <2>4. n = (k'.wake[k.cur] - k'.tick) % TickRange BY <1>1, <1>2, <1>6, <2>2, TicksTill DEF WakeAt
  <2>5. \A t \in Task : t = k.cur => Remains(t)' BY <1>2, <1>6, <2>1, <2>2, <2>4 DEF Remains
  <2> QED BY <2>1, <2>3, <2>5 DEF Task1
<1> QED BY <1>1, <1>7, <1>8, SleepStep

(* osDelayUntil: s ticks after the call began, n ticks after which it is to  *)
(* be woken; xTaskDelayUntil sees rightly, across the wrap, whether that     *)
(* tick is still to come, and how far it is.                                 *)
LEMMA WakeComes ==
  ASSUME NEW now \in Ticks, NEW prev \in Ticks, NEW n \in 1 .. (TickRange \div 2) - 1
  PROVE  LET s == (now - prev) % TickRange
             wake == (prev + n) % TickRange
         IN /\ s \in Ticks
            /\ (IF now < prev THEN wake < prev /\ wake > now ELSE wake < prev \/ wake > now) <=> s < n
            /\ s < n => (wake - now) % TickRange = n - s
<1> DEFINE s == (now - prev) % TickRange
           wake == (prev + n) % TickRange
<1>0. TickRange \in Nat \ {0, 1} /\ now \in 0 .. TickRange - 1 /\ prev \in 0 .. TickRange - 1
      /\ n \in 1 .. TickRange - 1
  BY TaskListsAssumption DEF Ticks
<1>1. s = IF now < prev THEN now - prev + TickRange ELSE now - prev
  <2>1. CASE now < prev
    <3>1. now - prev = (-1) * TickRange + (now - prev + TickRange) BY <1>0
    <3>2. now - prev + TickRange \in 0 .. TickRange - 1 /\ now - prev \in Int /\ -1 \in Int BY <1>0, <2>1
    <3>3. s = now - prev + TickRange BY <3>1, <3>2, <1>0, Residue
    <3> QED BY <3>3, <2>1
  <2>2. CASE ~(now < prev)
    <3>1. now - prev = 0 * TickRange + (now - prev) BY <1>0
    <3>2. now - prev \in 0 .. TickRange - 1 BY <1>0, <2>2
    <3>3. s = now - prev BY <3>1, <3>2, <1>0, Residue
    <3> QED BY <3>3, <2>2
  <2> QED BY <2>1, <2>2
<1>2. wake = IF prev + n < TickRange THEN prev + n ELSE prev + n - TickRange
  <2>1. CASE prev + n < TickRange
    <3>1. prev + n = 0 * TickRange + (prev + n) BY <1>0
    <3>2. prev + n \in 0 .. TickRange - 1 BY <1>0, <2>1
    <3>3. wake = prev + n BY <3>1, <3>2, <1>0, Residue
    <3> QED BY <3>3, <2>1
  <2>2. CASE ~(prev + n < TickRange)
    <3>1. prev + n = 1 * TickRange + (prev + n - TickRange) BY <1>0
    <3>2. prev + n - TickRange \in 0 .. TickRange - 1 /\ prev + n \in Int BY <1>0, <2>2
    <3>3. wake = prev + n - TickRange BY <3>1, <3>2, <1>0, Residue
    <3> QED BY <3>3, <2>2
  <2> QED BY <2>1, <2>2
<1>3. s \in Ticks BY <1>0, <1>1 DEF Ticks
<1> HIDE DEF s, wake
<1>4. (IF now < prev THEN wake < prev /\ wake > now ELSE wake < prev \/ wake > now) <=> s < n
  <2>1. CASE now < prev
    <3>1. s = now - prev + TickRange BY <1>1, <2>1
    <3>2. CASE prev + n < TickRange
      <4>1. wake = prev + n BY <1>2, <3>2
      <4> QED BY <1>0, <2>1, <3>1, <3>2, <4>1
    <3>3. CASE ~(prev + n < TickRange)
      <4>1. wake = prev + n - TickRange BY <1>2, <3>3
      <4> QED BY <1>0, <2>1, <3>1, <3>3, <4>1
    <3> QED BY <3>2, <3>3
  <2>2. CASE ~(now < prev)
    <3>1. s = now - prev BY <1>1, <2>2
    <3>2. CASE prev + n < TickRange
      <4>1. wake = prev + n BY <1>2, <3>2
      <4> QED BY <1>0, <2>2, <3>1, <3>2, <4>1
    <3>3. CASE ~(prev + n < TickRange)
      <4>1. wake = prev + n - TickRange BY <1>2, <3>3
      <4> QED BY <1>0, <2>2, <3>1, <3>3, <4>1
    <3> QED BY <3>2, <3>3
  <2> QED BY <2>1, <2>2
<1>5. ASSUME s < n PROVE (wake - now) % TickRange = n - s
  <2>1. n - s \in 0 .. TickRange - 1 BY <1>0, <1>3, <1>5 DEF Ticks
  <2>2. \E q \in {-1, 0} : wake - now = q * TickRange + (n - s)
    <3>1. wake - now = n - s \/ wake - now = n - s - TickRange
      <4>1. CASE now < prev
        <5>1. s = now - prev + TickRange BY <1>1, <4>1
        <5>2. CASE prev + n < TickRange
          <6>1. wake = prev + n BY <1>2, <5>2
          <6> QED BY <1>0, <1>5, <4>1, <5>1, <5>2, <6>1
        <5>3. CASE ~(prev + n < TickRange)
          <6>1. wake = prev + n - TickRange BY <1>2, <5>3
          <6> QED BY <1>0, <4>1, <5>1, <5>3, <6>1
        <5> QED BY <5>2, <5>3
      <4>2. CASE ~(now < prev)
        <5>1. s = now - prev BY <1>1, <4>2
        <5>2. CASE prev + n < TickRange
          <6>1. wake = prev + n BY <1>2, <5>2
          <6> QED BY <1>0, <4>2, <5>1, <5>2, <6>1
        <5>3. CASE ~(prev + n < TickRange)
          <6>1. wake = prev + n - TickRange BY <1>2, <5>3
          <6> QED BY <1>0, <4>2, <5>1, <5>3, <6>1
        <5> QED BY <5>2, <5>3
      <4> QED BY <4>1, <4>2
    <3>2. CASE wake - now = n - s
      <4>1. wake - now = 0 * TickRange + (n - s) BY <1>0, <2>1, <3>2
      <4> QED BY <4>1
    <3>3. CASE wake - now = n - s - TickRange
      <4>1. wake - now = (-1) * TickRange + (n - s) BY <1>0, <2>1, <3>3
      <4> QED BY <4>1
    <3> QED BY <3>1, <3>2, <3>3
  <2>3. wake \in Int /\ wake - now \in Int BY <1>0, <1>2
  <2> QED BY <1>0, <2>1, <2>2, <2>3, Residue
<1>6. /\ s \in Ticks
      /\ (IF now < prev THEN wake < prev /\ wake > now ELSE wake < prev \/ wake > now) <=> s < n
      /\ s < n => (wake - now) % TickRange = n - s
  BY <1>3, <1>4, <1>5
<1> QED BY <1>6 DEF s, wake

LEMMA UntilPlaceKeeps ==
  ASSUME IInv, UntilPlace, UNCHANGED systicks
  PROVE  IInv'
<1> DEFINE prev == Here.prev
           n == Here.n
           s == (k.tick - prev) % TickRange
           wake == (prev + n) % TickRange
           d == (wake - k.tick) % TickRange
<1>1. /\ k.cur \in Task /\ Task1(k.cur) /\ pc[k.cur] = "untilPlace" /\ ~k.pendsv
      /\ k' = IF ShouldDelay(prev, wake) THEN AddCurrentToDelayed(k, d, FALSE) ELSE k
      /\ frame' = frame /\ left' = left
      /\ pc' = [pc EXCEPT ![k.cur] = "resume"] /\ program' = program /\ k.tick \in Ticks
  BY CurrentTask DEF UntilPlace, Moves, Same
<1>2. prev \in Ticks /\ n \in 1 .. (TickRange \div 2) - 1 BY <1>1 DEF Task1, InCall, Here
<1>3. /\ s \in Ticks /\ (ShouldDelay(prev, wake) <=> s < n) /\ (s < n => d = n - s)
  BY <1>1, <1>2, WakeComes DEF ShouldDelay
<1>4. /\ ~Dozes(k, k.cur) /\ left[k.cur] = IF n - s < -MaxLate THEN -MaxLate ELSE n - s
  BY <1>1 DEF Task1, Remains, Since, Here
<1> HIDE DEF prev, n, s, wake, d
<1>5. k.cur # IdleTask /\ k.susp = 1 BY <1>1 DEF IInv, Turns
<1>6. IsReady(k, k.cur) /\ ~Pend(k, k.cur) BY <1>1, RunningReady
<1>7. k.nstate[k.cur] \in {"no", "received"} /\ k.nval[k.cur] \subseteq Bits
  BY <1>1 DEF Task1, Notified
<1>8. \A t \in Task : t = k.cur => InCall(t)' /\ pc'[t] = "resume"
  BY <1>1 DEF InCall, Locations, IInv, Typed
<1>9. CASE s < n
  <2>1. d = n - s /\ k' = AddCurrentToDelayed(k, d, FALSE) BY <1>1, <1>3, <1>9
  <2>2. d \in 1 .. MaxDelay /\ left[k.cur] = d
    <3>1. TickRange \div 2 \in Int /\ TickRange \div 2 <= TickRange /\ TickRange \in Int
      BY TaskListsAssumption
    <3>2. n - s \in 1 .. MaxDelay BY <1>2, <1>3, <1>9, <3>1 DEF Ticks, MaxDelay
    <3>3. left[k.cur] = n - s BY <1>4, <3>2, KernelAssumption
    <3> QED BY <2>1, <3>2, <3>3
  <2>3. PutToSleep(k, k', d, FALSE) BY <2>1, <2>2, CurrentTask, CurrentSleeps
  <2>4. k.cur \notin k'.suspended /\ Dozes(k', k.cur) /\ k'.wake[k.cur] = WakeAt(k, d)
    BY <2>3 DEF PutToSleep, ForEver
  <2>5. FallsAsleep("untilPlace", "resume")
    BY <1>1, <1>5, <2>3, <2>4 DEF FallsAsleep, PutToSleep, Routine, SwitchesAs, IInv, Typed
  <2>6. \A t \in Task : t = k.cur => Task1(t)'
    <3>2. k'.nstate = k.nstate /\ k'.nval = k.nval /\ ~Pend(k', k.cur) /\ k'.tick = k.tick
      BY <2>3, <1>6 DEF PutToSleep, Routine, Pend
    <3>3. \A t \in Task : t = k.cur => Notified(t)' BY <1>7, <1>8, <3>2 DEF Notified
    <3>4. d = (k'.wake[k.cur] - k'.tick) % TickRange BY <1>1, <2>2, <2>4, <3>2, TicksTill DEF WakeAt
    <3>5. \A t \in Task : t = k.cur => Remains(t)'
      BY <1>1, <1>8, <2>2, <2>4, <3>2, <3>4 DEF Remains
    <3> QED BY <1>8, <3>3, <3>5 DEF Task1
  <2> QED BY <1>1, <2>5, <2>6, SleepStep
<1>10. CASE ~(s < n)
  <2>1. k' = k BY <1>1, <1>3, <1>10
  <2>2. left[k.cur] \in -MaxLate .. 0
    <3>1. TickRange \div 2 \in Int /\ TickRange \in Int BY TaskListsAssumption
    <3>2. n - s \in Int /\ n - s <= 0 BY <1>2, <1>3, <1>10, <3>1 DEF Ticks
    <3> QED BY <1>4, <3>2, KernelAssumption
  <2>5. k.cur \notin k.suspended BY <1>1, RunningReady DEF Elsewhere
  <2>3. Own("untilPlace", "resume")
    BY <1>1, <1>5, <2>1, <2>5, Calmly DEF Own, OwnBut, IInv, Typed, Counts1, Undisturbed, Routine
  <2>4. \A t \in Task : t = k.cur => Task1(t)'
    <3>1. \A t \in Task : t = k.cur => Notified(t)' BY <1>6, <1>7, <1>8, <2>1 DEF Notified, Alive
    <3>2. \A t \in Task : t = k.cur => Remains(t)' BY <1>1, <1>4, <1>8, <2>1, <2>2 DEF Remains
    <3> QED BY <1>8, <3>1, <3>2 DEF Task1
  <2> QED BY <1>1, <2>3, <2>4, OwnStep
<1> QED BY <1>9, <1>10

-----------------------------------------------------------------------------
(* Notifications.                                                            *)
Note(i, u, a, b) == [i EXCEPT !.nstate[u] = a, !.nval[u] = b]
IsNoted(i, j, u, a, b) ==
  /\ ListsAs(i, j) /\ SwitchesAs(i, j) /\ j.missed = i.missed /\ j.number = i.number
  /\ j.nstate = [i.nstate EXCEPT ![u] = a] /\ j.nval = [i.nval EXCEPT ![u] = b]
LEMMA NoteFields ==
  ASSUME NEW i, DOMAIN i = Fields, NEW u, NEW a, NEW b
  PROVE  IsNoted(i, Note(i, u, a, b), u, a, b)
BY DEF Note, IsNoted, ListsAs, SameLists, SwitchesAs, Fields
LEMMA StateFields ==
  ASSUME NEW i, DOMAIN i = Fields, NEW u, NEW a
  PROVE  LET j == [i EXCEPT !.nstate[u] = a]
         IN /\ ListsAs(i, j) /\ SwitchesAs(i, j) /\ j.missed = i.missed /\ j.number = i.number
            /\ j.nstate = [i.nstate EXCEPT ![u] = a] /\ j.nval = i.nval
BY DEF ListsAs, SameLists, SwitchesAs, Fields
LEMMA ValueFields ==
  ASSUME NEW i, DOMAIN i = Fields, NEW u, NEW b
  PROVE  LET j == [i EXCEPT !.nval[u] = b]
         IN /\ ListsAs(i, j) /\ SwitchesAs(i, j) /\ j.missed = i.missed /\ j.number = i.number
            /\ j.nstate = i.nstate /\ j.nval = [i.nval EXCEPT ![u] = b]
BY DEF ListsAs, SameLists, SwitchesAs, Fields

(* The value stays a set of bits.                                            *)
LEMMA NewValueBits ==
  ASSUME NEW u, k.nval[u] \subseteq Bits, NEW action \in Actions, NEW v, v \subseteq Bits
  PROVE  NewValue(u, action, v) \subseteq Bits
<1>1. Increment(k.nval[u]) \subseteq Bits
  <2> DEFINE clear == Bits \ k.nval[u]
  <2>1. CASE clear = {} BY <2>1 DEF Increment
  <2>2. CASE clear # {}
    <3>1. clear \in SUBSET Nat BY KernelAssumption
    <3>2. Min(clear) \in clear BY <2>2, <3>1, MinIsLeast
    <3> QED BY <2>2, <3>2 DEF Increment
  <2> QED BY <2>1, <2>2
<1> QED BY <1>1 DEF NewValue, Actions

(* A task whose notification has come, or is taken, while it does not wait.  *)
LEMMA TaskNoted ==
  ASSUME NEW t \in Task, Task1(t), Stays(k, k', t), k'.wake[t] = k.wake[t],
         k'.tick = k.tick, k'.pended = k.pended, program' = program, left'[t] = left[t],
         (pc'[t] = pc[t] /\ frame'[t] = frame[t]) \/ (pc[t] \in Passing /\ pc'[t] \in Passing /\ InCall(t)'),
         k'.nval[t] \subseteq Bits,
         k'.nstate[t] = k.nstate[t] \/ (k.nstate[t] # "waiting" /\ k'.nstate[t] \in {"no", "received"})
  PROVE  Task1(t)'
<1>1. /\ Dozes(k', t) <=> Dozes(k, t)
      /\ IsReady(k', t) <=> IsReady(k, t)
      /\ Pend(k', t) <=> Pend(k, t)
      /\ (t \in k'.suspended) <=> t \in k.suspended
  BY DEF Stays
<1>2. Alive(t)' <=> Alive(t) BY <1>1 DEF Alive, Sleeping, Dozes
<1>3. InCall(t)' BY DEF Task1, InCall, IsWait
<1>4. Suspendable' = Suspendable BY DEF Suspendable
<1>5. Notified(t)' BY <1>1, <1>2, <1>4 DEF Task1, Notified, Passing
<1>6. Remains(t)' BY <1>1 DEF Task1, Remains, Passing, Since
<1> QED BY <1>3, <1>5, <1>6 DEF Task1

LEMMA NotedStep ==
  ASSUME IInv, NEW from \in Passing, NEW to \in Passing, OwnBut(from, to), UNCHANGED <<left, systicks>>,
         \A t \in Task : t = k.cur => InCall(t)', NEW u \in Task,
         DOMAIN k'.nstate = Task, DOMAIN k'.nval = Task,
         \A t \in Task \ {u} : k'.nstate[t] = k.nstate[t] /\ k'.nval[t] = k.nval[t],
         k'.nval[u] \subseteq Bits,
         k'.nstate[u] = k.nstate[u] \/ (k.nstate[u] # "waiting" /\ k'.nstate[u] \in {"no", "received"})
  PROVE  IInv'
<1> DEFINE T == {k.cur, u}
<1>1. k.cur \in Task BY CurrentTask
<1>2. DOMAIN pc' = Task /\ pc'[k.cur] = to /\ pc[k.cur] = from /\ \A t \in Task \ T : pc'[t] = pc[t]
  BY <1>1 DEF OwnBut, IInv, Typed
<1>3. Flat(T) /\ \A t \in Task : Stays(k, k', t) /\ k'.wake[t] = k.wake[t]
  BY <1>2, OnlyCounted DEF OwnBut
<1>4. k'.tick = k.tick /\ k'.pended = k.pended /\ program' = program BY DEF OwnBut, ListsAs
<1>5. ASSUME NEW t \in Task \cap T PROVE Task1(t)'
  <2>1. Task1(t) /\ Stays(k, k', t) /\ k'.wake[t] = k.wake[t] BY <1>3 DEF IInv
  <2>2. k'.nval[t] \subseteq Bits BY <2>1 DEF Task1, Notified
  <2>3. k'.nstate[t] = k.nstate[t] \/ (k.nstate[t] # "waiting" /\ k'.nstate[t] \in {"no", "received"})
    <3>1. CASE t = u BY <3>1
    <3>2. CASE t # u BY <3>2
    <3> QED BY <3>1, <3>2
  <2>4. \/ pc'[t] = pc[t] /\ frame'[t] = frame[t]
        \/ pc[t] \in Passing /\ pc'[t] \in Passing /\ InCall(t)'
    <3>1. CASE t = k.cur BY <3>1, <1>2
    <3>2. CASE t # k.cur BY <3>2, <1>1 DEF OwnBut, IInv, Typed
    <3> QED BY <3>1, <3>2
  <2> QED BY <1>4, <2>1, <2>2, <2>3, <2>4, TaskNoted
<1>6. GoesOn(from, to) BY Going DEF OwnBut
<1>7. Allowed(from, to) BY <1>6 DEF Allowed, OwnBut
<1> QED BY <1>3, <1>5, <1>7, FlatStep

LEMMA NoteStateClearKeeps ==
  ASSUME IInv, NotifyStateClear, UNCHANGED systicks
  PROVE  IInv'
<1>0. PICK c \in Calls("xTaskNotifyStateClear") :
        /\ k.nstate[c.thread] = "received"
        /\ Moves("user", "user", [k EXCEPT !.nstate[c.thread] = "no"]) /\ Same
  BY DEF NotifyStateClear
<1>1. c.thread \in Task BY Programmed DEF Sensible
<1>2. k.cur \in Task /\ DOMAIN k = Fields /\ k.pendsv \in BOOLEAN BY CurrentTask
<1>3. /\ ListsAs(k, k') /\ SwitchesAs(k, k') /\ k'.missed = k.missed /\ k'.number = k.number
      /\ k'.nstate = [k.nstate EXCEPT ![c.thread] = "no"] /\ k'.nval = k.nval
  BY <1>0, <1>2, StateFields DEF Moves
<1>4. OwnBut("user", "user")
  BY <1>0, <1>2, <1>3 DEF OwnBut, Moves, Same, SwitchesAs, IInv, Typed, Counts1
<1>5. \A t \in Task : t = k.cur => InCall(t)' BY <1>0 DEF Moves, InCall, Locations, IInv, Typed
<1>6. k'.nval[c.thread] \subseteq Bits BY <1>1, <1>3 DEF IInv, Task1, Notified
<1>7. DOMAIN k'.nstate = Task /\ DOMAIN k'.nval = Task /\ k'.nstate[c.thread] = "no"
      /\ \A t \in Task \ {c.thread} : k'.nstate[t] = k.nstate[t] /\ k'.nval[t] = k.nval[t]
  BY <1>1, <1>3 DEF IInv, Typed
<1>8. "user" \in Passing BY DEF Passing
<1> QED BY <1>0, <1>1, <1>4, <1>5, <1>6, <1>7, <1>8, NotedStep DEF Same
LEMMA NoteValueClearKeeps ==
  ASSUME IInv, NotifyValueClear, UNCHANGED systicks
  PROVE  IInv'
<1>0. PICK c \in Calls("ulTaskNotifyValueClear") :
        Moves("user", "user", [k EXCEPT !.nval[c.thread] = @ \ c.flags]) /\ Same
  BY DEF NotifyValueClear
<1>1. c.thread \in Task BY Programmed DEF Sensible
<1>2. k.cur \in Task /\ DOMAIN k = Fields /\ k.pendsv \in BOOLEAN BY CurrentTask
<1>3. /\ ListsAs(k, k') /\ SwitchesAs(k, k') /\ k'.missed = k.missed /\ k'.number = k.number
      /\ k'.nstate = k.nstate /\ k'.nval = [k.nval EXCEPT ![c.thread] = k.nval[c.thread] \ c.flags]
  <2> DEFINE b == k.nval[c.thread] \ c.flags
             u == c.thread
  <2>1. k' = [k EXCEPT !.nval[u] = b] BY <1>0 DEF Moves
  <2> HIDE DEF b, u
  <2>2. /\ ListsAs(k, k') /\ SwitchesAs(k, k') /\ k'.missed = k.missed /\ k'.number = k.number
        /\ k'.nstate = k.nstate /\ k'.nval = [k.nval EXCEPT ![u] = b]
    BY <1>2, <2>1, ValueFields
  <2> QED BY <2>2 DEF b, u
<1>4. OwnBut("user", "user")
  BY <1>0, <1>2, <1>3 DEF OwnBut, Moves, Same, SwitchesAs, IInv, Typed, Counts1
<1>5. \A t \in Task : t = k.cur => InCall(t)' BY <1>0 DEF Moves, InCall, Locations, IInv, Typed
<1>6. k.nval[c.thread] \subseteq Bits BY <1>1 DEF IInv, Task1, Notified
<1>7. DOMAIN k'.nstate = Task /\ DOMAIN k'.nval = Task /\ k'.nval[c.thread] \subseteq Bits
      /\ k'.nstate[c.thread] = k.nstate[c.thread]
      /\ \A t \in Task \ {c.thread} : k'.nstate[t] = k.nstate[t] /\ k'.nval[t] = k.nval[t]
  BY <1>1, <1>3, <1>6 DEF IInv, Typed
<1>8. "user" \in Passing BY DEF Passing
<1> QED BY <1>0, <1>1, <1>4, <1>5, <1>6, <1>7, <1>8, NotedStep DEF Same

(* GenericNotify of a task that does not wait only writes its notification.  *)
LEMMA NotifyFields ==
  ASSUME IInv, NEW u \in Task, NEW action \in Actions, NEW v, v \subseteq Bits,
         k.nstate[u] # "waiting"
  PROVE  LET j == GenericNotify(u, action, v)
         IN /\ ListsAs(k, j) /\ SwitchesAs(k, j) /\ j.missed = k.missed /\ j.number = k.number
            /\ DOMAIN j.nstate = Task /\ DOMAIN j.nval = Task
            /\ j.nstate[u] = "received" /\ j.nval[u] \subseteq Bits
            /\ \A t \in Task \ {u} : j.nstate[t] = k.nstate[t] /\ j.nval[t] = k.nval[t]
            /\ GenericNotifyFromISR(u, action, v) = j
<1> DEFINE b == NewValue(u, action, v)
           j == Received(u, action, v)
<1>1. GenericNotify(u, action, v) = j /\ GenericNotifyFromISR(u, action, v) = j
  BY DEF GenericNotify, GenericNotifyFromISR, Urgent
<1>2. b \subseteq Bits BY NewValueBits DEF IInv, Task1, Notified
<1>3. j = Note(k, u, "received", b) BY DEF Received, Note
<1> HIDE DEF b, j
<1>4. /\ ListsAs(k, j) /\ SwitchesAs(k, j) /\ j.missed = k.missed /\ j.number = k.number
      /\ j.nstate = [k.nstate EXCEPT ![u] = "received"] /\ j.nval = [k.nval EXCEPT ![u] = b]
  <2>1. DOMAIN k = Fields BY CurrentTask
  <2>2. IsNoted(k, Note(k, u, "received", b), u, "received", b) BY <2>1, NoteFields
  <2> QED BY <2>2, <1>3 DEF IsNoted
<1>5. DOMAIN k.nstate = Task /\ DOMAIN k.nval = Task BY DEF IInv, Typed
<1> QED BY <1>1, <1>2, <1>4, <1>5

LEMMA NoteStep ==
  ASSUME IInv, NEW from \in Passing, NEW to \in Passing, NEW u \in Task, NEW action \in Actions,
         NEW v, v \subseteq Bits, k.nstate[u] # "waiting",
         Moves(from, to, GenericNotify(u, action, v)), UNCHANGED <<left, systicks>>,
         DOMAIN frame' = Task, \A t \in Task \ {k.cur} : frame'[t] = frame[t],
         k.cur = IdleTask => to = "user", from \notin {"yield", "suspended"},
         to \notin {"delay", "listed", "wait"}, to = "query" => frame'[k.cur].thread = u,
         \A t \in Task : t = k.cur => InCall(t)'
  PROVE  IInv'
<1>1. k.cur \in Task /\ DOMAIN k = Fields /\ k.pendsv \in BOOLEAN BY CurrentTask
<1>2. /\ ListsAs(k, k') /\ SwitchesAs(k, k') /\ k'.missed = k.missed /\ k'.number = k.number
      /\ DOMAIN k'.nstate = Task /\ DOMAIN k'.nval = Task
      /\ k'.nstate[u] = "received" /\ k'.nval[u] \subseteq Bits
      /\ \A t \in Task \ {u} : k'.nstate[t] = k.nstate[t] /\ k'.nval[t] = k.nval[t]
  BY NotifyFields DEF Moves
<1>3. OwnBut(from, to)
  BY <1>1, <1>2 DEF OwnBut, Moves, SwitchesAs, IInv, Typed, Counts1, Passing
<1> QED BY <1>2, <1>3, NotedStep

LEMMA FlagsGetKeeps ==
  ASSUME IInv, FlagsGet, UNCHANGED systicks
  PROVE  IInv'
<1>1. k.cur \in Task BY CurrentTask
<1>2. Moves("user", "user", GenericNotify(k.cur, "eNoAction", {})) /\ Same BY DEF FlagsGet
<1>3. k.nstate[k.cur] # "waiting" BY <1>2, AtHome DEF Moves
<1>4. \A t \in Task : t = k.cur => InCall(t)' BY <1>2 DEF Moves, InCall, Locations, IInv, Typed
<1>5. "eNoAction" \in Actions /\ "user" \in Passing /\ {} \subseteq Bits BY DEF Actions, Passing
<1> QED BY <1>1, <1>2, <1>3, <1>4, <1>5, NoteStep DEF Same, IInv, Typed
LEMMA FlagsClearKeeps ==
  ASSUME IInv, FlagsClear, UNCHANGED systicks
  PROVE  IInv'
<1>1. k.cur \in Task BY CurrentTask
<1>0. PICK c \in Calls("osThreadFlagsClear") :
        /\ Moves("user", "clear", GenericNotify(k.cur, "eNoAction", {}))
        /\ Enter([op |-> "osThreadFlagsClear", left |-> k.nval[k.cur] \ c.flags]) /\ UNCHANGED left
  BY DEF FlagsClear
<1>2. k.cur # IdleTask BY Programmed
<1>3. k.nstate[k.cur] # "waiting" /\ k.nval[k.cur] \subseteq Bits BY <1>0, AtHome DEF Moves
<1>4. DOMAIN frame' = Task /\ \A t \in Task \ {k.cur} : frame'[t] = frame[t]
  BY <1>0, <1>1 DEF Enter, IInv, Typed
<1>5. \A t \in Task : t = k.cur => InCall(t)'
  <2>1. frame'[k.cur].left \subseteq Bits BY <1>0, <1>1, <1>3 DEF Enter, IInv, Typed
  <2>2. pc'[k.cur] = "clear" BY <1>0, <1>1 DEF Moves, IInv, Typed
  <2> QED BY <2>1, <2>2 DEF InCall, Locations
<1>6. "eNoAction" \in Actions /\ "user" \in Passing /\ "clear" \in Passing /\ {} \subseteq Bits
  BY DEF Actions, Passing
<1> QED BY <1>0, <1>1, <1>2, <1>3, <1>4, <1>5, <1>6, NoteStep
LEMMA FlagsWriteBackKeeps ==
  ASSUME IInv, FlagsWriteBack, UNCHANGED systicks
  PROVE  IInv'
<1>1. k.cur \in Task /\ Task1(k.cur) BY CurrentTask
<1>2. Moves("clear", "user", GenericNotify(k.cur, "eSetValueWithOverwrite", Here.left)) /\ Leave
      /\ left' = left
  BY DEF FlagsWriteBack
<1>3. k.nstate[k.cur] # "waiting" BY <1>2, AtHome DEF Moves
<1>4. \A t \in Task : t = k.cur => InCall(t)' BY <1>2 DEF Moves, InCall, Locations, IInv, Typed
<1>5. "eSetValueWithOverwrite" \in Actions /\ "user" \in Passing /\ "clear" \in Passing
  BY DEF Actions, Passing
<1>6. Here.left \subseteq Bits BY <1>1, <1>2 DEF Task1, InCall, Moves, Here
<1>7. DOMAIN frame' = Task /\ \A t \in Task \ {k.cur} : frame'[t] = frame[t]
  BY <1>2, <1>1 DEF Leave, IInv, Typed
<1> QED BY <1>1, <1>2, <1>3, <1>4, <1>5, <1>6, <1>7, NoteStep

LEMMA FlagsWaitKeeps ==
  ASSUME IInv, FlagsWait, UNCHANGED systicks
  PROVE  IInv'
<1>0. PICK c \in Calls("osThreadFlagsWait") :
        Moves("user", "wait", k) /\ UNCHANGED left
          /\ Enter([op |-> "osThreadFlagsWait", want |-> c.flags, all |-> c.all, clear |-> c.clear,
                    timeout |-> c.timeout, tout |-> c.timeout, t0 |-> k.tick, got |-> {}])
  BY DEF FlagsWait
<1> DEFINE f == [op |-> "osThreadFlagsWait", want |-> c.flags, all |-> c.all, clear |-> c.clear,
                 timeout |-> c.timeout, tout |-> c.timeout, t0 |-> k.tick, got |-> {}]
<1>1. k.cur # IdleTask /\ k.susp = 0 /\ c.timeout \in 0 .. MaxDelay
  BY <1>0, Programmed DEF Sensible, Blockable
<1>2. IsWait(f) BY <1>1, CurrentTask DEF IsWait
<1>3. Enter(f) /\ Moves("user", "wait", k) /\ left' = left BY <1>0
<1> HIDE DEF f
<1>4. k.cur \in Task /\ IsReady(k, k.cur) BY <1>3, CurrentTask, AtHome DEF Moves
<1>5. frame'[k.cur] = f /\ pc'[k.cur] = "wait" BY <1>3, <1>4 DEF Moves, Enter, IInv, Typed
<1>6. k' = k /\ Undisturbed(k') BY <1>3, Calmly DEF Moves
<1>7. OwnBut("user", "wait")
  BY <1>1, <1>3, <1>4, <1>6 DEF OwnBut, Moves, Enter, IInv, Typed, Counts1, Undisturbed, Routine
<1>8. \A t \in Task : t = k.cur => InCall(t)' BY <1>2, <1>5 DEF InCall, Locations
<1> QED BY <1>3, <1>4, <1>6, <1>7, <1>8, OwnCalm

(* xTaskNotifyWait and ulTaskNotifyTake: the wait, if there is one.          *)
WaitPoint(from, to) == (from = "wait" /\ to = "take") \/ (from = "user" /\ to = "count")
LEMMA WaitsKeeps ==
  ASSUME IInv, NEW from, NEW to, WaitPoint(from, to), NEW blocked \in BOOLEAN, NEW n \in 0 .. MaxDelay,
         Waits(from, to, blocked, n), UNCHANGED systicks, k.susp = 0, k.cur # IdleTask,
         DOMAIN frame' = Task, \A t \in Task \ {k.cur} : frame'[t] = frame[t],
         \A t \in Task : t = k.cur => InCall(t)'
  PROVE  IInv'
<1>0. TickRange \in Nat \ {0, 1} BY TaskListsAssumption
<1>1. /\ k.cur \in Task /\ Task1(k.cur) /\ DOMAIN k = Fields /\ k.pendsv = FALSE /\ k.tick \in Ticks
      /\ Good(k)
  BY CurrentTask DEF Waits, Moves
<1>2. IsReady(k, k.cur) /\ ~Pend(k, k.cur) /\ left[k.cur] = 0 /\ k.nstate[k.cur] \in {"no", "received"}
      /\ k.nval[k.cur] \subseteq Bits
  BY AtHome DEF Waits, Moves, WaitPoint
<1>3. /\ ~k.pendsv /\ pc[k.cur] = from /\ pc' = [pc EXCEPT ![k.cur] = to] /\ program' = program
      /\ k' = IF blocked THEN Block(n) ELSE k
      /\ left' = [left EXCEPT ![k.cur] = IF blocked /\ n # MaxDelay THEN n ELSE 0]
      /\ pc'[k.cur] = to /\ from \in {"wait", "user"} /\ to \in {"take", "count"}
      /\ DOMAIN left' = Task /\ \A t \in Task \ {k.cur} : left'[t] = left[t]
  BY <1>1 DEF Waits, Moves, Due, IInv, Typed, WaitPoint
<1>4. left'[k.cur] = IF blocked /\ n # MaxDelay THEN n ELSE 0 BY <1>1, <1>3 DEF IInv, Typed
<1>5. CASE ~blocked \/ n = 0
  <2>1. ListsAs(k, k') /\ SwitchesAs(k, k') /\ k'.missed = k.missed /\ k'.number = k.number
        /\ k'.nval = k.nval /\ k'.nstate[k.cur] \in {"no", "received", "waiting"}
        /\ DOMAIN k'.nstate = Task /\ \A t \in Task \ {k.cur} : k'.nstate[t] = k.nstate[t]
    <3>1. CASE blocked
      <4>1. k' = [k EXCEPT !.nstate[k.cur] = "waiting"] BY <1>3, <1>5, <3>1 DEF Block
      <4>2. /\ ListsAs(k, k') /\ SwitchesAs(k, k') /\ k'.missed = k.missed /\ k'.number = k.number
            /\ k'.nstate = [k.nstate EXCEPT ![k.cur] = "waiting"] /\ k'.nval = k.nval
        BY <1>1, <4>1, StateFields
      <4> QED BY <1>1, <4>2 DEF IInv, Typed
    <3>2. CASE ~blocked
      <4>1. k' = k BY <1>3, <3>2
      <4> QED BY <4>1, <1>1, <1>2 DEF ListsAs, SameLists, SwitchesAs, IInv, Typed
    <3> QED BY <3>1, <3>2
  <2>2. left'[k.cur] = 0 BY <1>4, <1>5
  <2>3. Own(from, to) BY <1>1, <1>3, <2>1 DEF Own, OwnBut, SwitchesAs, IInv, Typed, Counts1
  <2>4. ASSUME NEW c, c = k.cur, \A t \in Task : Stays(k, k', t) /\ k'.wake[t] = k.wake[t], Good(k')
        PROVE  Task1(c)'
    <3>1. IsReady(k', c) /\ ~Pend(k', c) BY <1>1, <1>2, <2>4 DEF Stays
    <3>2. ~Dozes(k', c) BY <1>1, <2>4, <3>1 DEF Good, Single, Elsewhere, Dozes
    <3>3. pc'[c] \in {"take", "count"} /\ left'[c] = 0 /\ k'.nval[c] \subseteq Bits
          /\ k'.nstate[c] \in {"no", "received", "waiting"} /\ c \in Task /\ InCall(c)'
      BY <1>1, <1>2, <1>3, <2>1, <2>2, <2>4
    <3>4. Notified(c)' BY <3>1, <3>3 DEF Notified, Alive
    <3>5. Remains(c)' BY <3>2, <3>3 DEF Remains
    <3> QED BY <3>3, <3>4, <3>5 DEF Task1
  <2> QED BY <2>3, <2>4, OwnStep
<1>6. CASE blocked /\ n > 0
  <2> DEFINE i == [k EXCEPT !.nstate[k.cur] = "waiting"]
             j == AddCurrentToDelayed(i, n, TRUE)
  <2>1. k' = Yield(j) BY <1>3, <1>6 DEF Block
  <2>2. /\ ListsAs(k, i) /\ SwitchesAs(k, i) /\ i.missed = k.missed /\ i.number = k.number
        /\ i.nstate = [k.nstate EXCEPT ![k.cur] = "waiting"] /\ i.nval = k.nval
    BY <1>1, StateFields
  <2> HIDE DEF i
  <2>3. Good(i) /\ (\A u : IsReady(i, u) <=> IsReady(k, u)) BY <1>1, <2>2, GoodAs
  <2>4. n \in 1 .. MaxDelay BY <1>0, <1>6 DEF MaxDelay
  <2>5. PutToSleep(i, j, n, TRUE) BY <2>3, <2>4, CurrentSleeps
  <2> HIDE DEF j
  <2>6. Good(j) /\ DOMAIN j = Fields BY <2>5 DEF PutToSleep, Good, Sound, Shape
  <2>7. /\ ListsAs(j, k') /\ Routine(j, k') /\ k'.susp = j.susp /\ k'.pended = j.pended
        /\ k'.missed = j.missed /\ k'.pendsv = TRUE
    BY <2>1, <2>6, PendsvFields DEF Yield
  <2>8. /\ Good(k') /\ \A u : IsReady(k', u) <=> IsReady(j, u)
        /\ \A u : Dozes(k', u) <=> Dozes(j, u)
    BY <2>6, <2>7, GoodAs
  <2>9. /\ j.cur = k.cur /\ j.number = k.number /\ j.prio = k.prio /\ j.tick = k.tick
        /\ j.pended = k.pended /\ j.susp = k.susp /\ j.missed = k.missed /\ j.events = k.events
        /\ j.nval = k.nval /\ j.nstate = [k.nstate EXCEPT ![k.cur] = "waiting"] /\ i.cur = k.cur
        /\ i.tick = k.tick /\ \A u \in Task \ {k.cur} : j.wake[u] = k.wake[u]
    BY <2>2, <2>5 DEF PutToSleep, Routine, SwitchesAs, ListsAs
  <2>10. /\ k'.cur = k.cur /\ k'.number = k.number /\ k'.prio = k.prio /\ k'.tick = k.tick
         /\ k'.pended = k.pended /\ k'.susp = k.susp /\ k'.missed = k.missed /\ k'.events = k.events
         /\ k'.nval = k.nval /\ k'.nstate = [k.nstate EXCEPT ![k.cur] = "waiting"]
         /\ k'.wake = j.wake
    BY <2>7, <2>9 DEF ListsAs, Routine
  <2>11. Moved(k, k', k.cur) /\ ~IsReady(k', k.cur)
    <3>1. Moved(i, j, k.cur) /\ ~IsReady(j, k.cur) BY <2>5, <2>9 DEF PutToSleep
    <3>2. Moved(k, i, k.cur) BY <2>2, <2>3 DEF Moved, ListsAs, SameLists
    <3>3. Moved(j, k', k.cur) BY <2>7, <2>8 DEF Moved, ListsAs, SameLists
    <3> QED BY <3>1, <3>2, <3>3, <2>8 DEF Moved
  <2>12. IF n = MaxDelay THEN k.cur \in k'.suspended /\ ~Dozes(k', k.cur)
         ELSE Dozes(k', k.cur) /\ k'.wake[k.cur] = WakeAt(k, n)
    BY <2>5, <2>7, <2>8, <2>9, <2>10 DEF PutToSleep, ForEver, ListsAs, SameLists, WakeAt
  <2>13. k.cur \in k'.suspended \/ Dozes(k', k.cur) BY <2>12
  <2>14. DOMAIN k'.nstate = Task /\ k'.nstate[k.cur] = "waiting"
         /\ \A t \in Task \ {k.cur} : k'.nstate[t] = k.nstate[t] /\ k'.wake[t] = k.wake[t]
    BY <1>1, <2>9, <2>10 DEF IInv, Typed
  <2>15. FallsAsleep(from, to)
    BY <1>3, <2>7, <2>8, <2>10, <2>11, <2>13, <2>14 DEF FallsAsleep
  <2>16. ASSUME NEW c, c = k.cur PROVE Task1(c)'
    <3>1. ~Pend(k', c) BY <1>2, <2>10, <2>16 DEF Pend
    <3>2. c \in Task /\ pc'[c] \in {"take", "count"} /\ k'.nval[c] \subseteq Bits
          /\ k'.nstate[c] = "waiting" /\ InCall(c)'
      BY <1>1, <1>2, <1>3, <2>10, <2>14, <2>16
    <3>3. Alive(c)' BY <2>13, <2>16 DEF Alive, Sleeping, Dozes
    <3>4. Notified(c)' BY <3>1, <3>2, <3>3 DEF Notified
    <3>5. CASE n = MaxDelay
      <4>1. left'[c] = 0 /\ ~Dozes(k', c) BY <1>4, <2>12, <2>16, <3>5
      <4>2. Remains(c)' BY <3>2, <4>1 DEF Remains
      <4> QED BY <3>2, <3>4, <4>2 DEF Task1
    <3>6. CASE n # MaxDelay
      <4>1. left'[c] = n /\ Dozes(k', c) /\ k'.wake[c] = WakeAt(k, n)
        BY <1>4, <1>6, <2>12, <2>16, <3>6
      <4>2. n = (k'.wake[c] - k'.tick) % TickRange
        BY <1>1, <2>4, <2>10, <4>1, TicksTill DEF WakeAt
      <4>3. Remains(c)' BY <2>4, <3>1, <3>2, <4>1, <4>2 DEF Remains
      <4> QED BY <3>2, <3>4, <4>3 DEF Task1
    <3> QED BY <3>5, <3>6
  <2> QED BY <2>15, <2>16, SleepStep
<1> QED BY <1>0, <1>5, <1>6 DEF MaxDelay

LEMMA NotifyWaitKeeps ==
  ASSUME IInv, NotifyWait, UNCHANGED systicks
  PROVE  IInv'
<1> DEFINE b == k.nstate[k.cur] # "received"
           n == Here.tout
<1>1. Waits("wait", "take", b, n) /\ frame' = frame BY DEF NotifyWait
<1>2. k.cur \in Task /\ Task1(k.cur) /\ pc[k.cur] = "wait" BY <1>1, CurrentTask DEF Waits, Moves
<1>3. IsWait(frame[k.cur]) /\ k.susp = 0 /\ k.cur # IdleTask BY <1>2 DEF Task1, InCall, IInv, Turns
<1>4. n \in 0 .. MaxDelay /\ b \in BOOLEAN BY <1>3 DEF IsWait, Here
<1>5. \A t \in Task : t = k.cur => InCall(t)'
  <2>1. pc'[k.cur] = "take" BY <1>1, <1>2 DEF Waits, Moves, IInv, Typed
  <2> QED BY <1>1, <1>3, <2>1 DEF InCall, Locations, IsWait
<1>6. DOMAIN frame' = Task /\ WaitPoint("wait", "take") BY <1>1 DEF IInv, Typed, WaitPoint
<1> HIDE DEF b, n
<1> QED BY <1>1, <1>3, <1>4, <1>5, <1>6, WaitsKeeps
LEMMA NotifyTakeKeeps ==
  ASSUME IInv, NotifyTake, UNCHANGED systicks
  PROVE  IInv'
<1>0. PICK c \in Calls("ulTaskNotifyTake") :
        Waits("user", "count", k.nval[k.cur] = {}, c.timeout) /\ Enter(c)
  BY DEF NotifyTake
<1> DEFINE b == k.nval[k.cur] = {}
           n == c.timeout
<1>1. k.cur # IdleTask /\ k.susp = 0 /\ n \in 0 .. MaxDelay
  BY <1>0, Programmed DEF Sensible, Blockable
<1>2. Waits("user", "count", b, n) /\ b \in BOOLEAN /\ WaitPoint("user", "count") /\ k.cur \in Task
  BY <1>0, CurrentTask DEF WaitPoint
<1>3. \A t \in Task : t = k.cur => InCall(t)' BY <1>0 DEF Waits, Moves, InCall, Locations, IInv, Typed
<1>4. DOMAIN frame' = Task /\ \A t \in Task \ {k.cur} : frame'[t] = frame[t]
  BY <1>0, <1>2 DEF Enter, IInv, Typed
<1> HIDE DEF b, n
<1> QED BY <1>1, <1>2, <1>3, <1>4, WaitsKeeps

(* After the wait.                                                           *)
Took(j) ==
  /\ ListsAs(k, j) /\ SwitchesAs(k, j) /\ j.missed = k.missed /\ j.number = k.number
  /\ DOMAIN j.nstate = Task /\ DOMAIN j.nval = Task
  /\ j.nstate[k.cur] = "no" /\ j.nval[k.cur] \subseteq Bits
  /\ \A t \in Task \ {k.cur} : j.nstate[t] = k.nstate[t] /\ j.nval[t] = k.nval[t]
LEMMA TookValue ==
  ASSUME IInv, NEW v, v \subseteq Bits
  PROVE  Took(Note(k, k.cur, "no", v))
<1>1. k.cur \in Task /\ DOMAIN k = Fields BY CurrentTask
<1>2. IsNoted(k, Note(k, k.cur, "no", v), k.cur, "no", v) BY <1>1, NoteFields
<1> QED BY <1>1, <1>2 DEF Took, IsNoted, IInv, Typed
LEMMA TookNone ==
  ASSUME IInv
  PROVE  Took([k EXCEPT !.nstate[k.cur] = "no"])
<1>1. k.cur \in Task /\ DOMAIN k = Fields /\ Task1(k.cur) BY CurrentTask
<1> DEFINE j == [k EXCEPT !.nstate[k.cur] = "no"]
<1>2. /\ ListsAs(k, j) /\ SwitchesAs(k, j) /\ j.missed = k.missed /\ j.number = k.number
      /\ j.nstate = [k.nstate EXCEPT ![k.cur] = "no"] /\ j.nval = k.nval
  BY <1>1, StateFields
<1> HIDE DEF j
<1>3. Took(j) BY <1>1, <1>2 DEF Took, IInv, Typed, Task1, Notified
<1> QED BY <1>3 DEF j
LEMMA AfterWait ==
  ASSUME IInv, NEW from \in {"take", "count"}, NEW to \in {"user", "wait"}, NEW j, Took(j),
         Moves(from, to, j),
         UNCHANGED <<left, systicks>>, to = "wait" => from = "take",
         DOMAIN frame' = Task, \A t \in Task \ {k.cur} : frame'[t] = frame[t],
         \A t \in Task : t = k.cur => InCall(t)'
  PROVE  IInv'
<1>1. k.cur \in Task /\ Task1(k.cur) /\ DOMAIN k = Fields /\ k.pendsv \in BOOLEAN BY CurrentTask
<1>2. IsReady(k, k.cur) /\ ~Dozes(k, k.cur) BY RunningReady DEF Moves
<1>3. left[k.cur] = 0 BY <1>1, <1>2 DEF Task1, Remains, Moves
<1>4. Took(k') BY DEF Moves
<1>5. k.cur # IdleTask /\ (to = "wait" => k.susp = 0) BY DEF Moves, IInv, Turns
<1>6. Own(from, to)
  BY <1>1, <1>4, <1>5 DEF Own, OwnBut, Moves, Took, SwitchesAs, IInv, Typed, Counts1
<1>7. k'.nstate[k.cur] = "no" /\ k'.nval[k.cur] \subseteq Bits BY <1>4 DEF Took
<1> QED BY <1>1, <1>2, <1>3, <1>6, <1>7, OwnSettled

LEMMA FlagsWaitDoneKeeps ==
  ASSUME IInv, FlagsWaitDone, UNCHANGED systicks
  PROVE  IInv'
<1>1. k.cur \in Task /\ Task1(k.cur) /\ DOMAIN k = Fields BY CurrentTask
<1> DEFINE received == k.nstate[k.cur] = "received"
           v == IF Here.clear THEN k.nval[k.cur] \ Here.want ELSE k.nval[k.cur]
           j == IF received THEN Taken ELSE [k EXCEPT !.nstate[k.cur] = "no"]
<1>2. Moves("take", "user", j) /\ Leave /\ left' = left BY DEF FlagsWaitDone
<1>3. v \subseteq Bits BY <1>1 DEF Task1, Notified
<1>4. Taken = Note(k, k.cur, "no", v) BY DEF Taken, Note
<1>5. Took(j) BY <1>3, <1>4, TookValue, TookNone
<1> HIDE DEF j
<1>6. \A t \in Task : t = k.cur => InCall(t)' BY <1>2 DEF Moves, InCall, Locations, IInv, Typed
<1>7. DOMAIN frame' = Task /\ \A t \in Task \ {k.cur} : frame'[t] = frame[t]
  BY <1>2, <1>1 DEF Leave, IInv, Typed
<1> QED BY <1>2, <1>5, <1>6, <1>7, AfterWait

LEMMA FlagsWaitAgainKeeps ==
  ASSUME IInv, FlagsWaitAgain, UNCHANGED systicks
  PROVE  IInv'
<1>1. k.cur \in Task /\ Task1(k.cur) /\ DOMAIN k = Fields /\ k.tick \in Ticks BY CurrentTask
<1> DEFINE spent == (k.tick - Here.t0) % TickRange
           rest == IF spent > Here.tout THEN 0 ELSE Here.tout - spent
           f == [Here EXCEPT !.got = Gathered, !.tout = rest]
           v == IF Here.clear THEN k.nval[k.cur] \ Here.want ELSE k.nval[k.cur]
<1>2. Moves("take", "wait", Taken) /\ Enter(f) /\ left' = left BY DEF FlagsWaitAgain
<1>3. v \subseteq Bits /\ k.nval[k.cur] \subseteq Bits BY <1>1 DEF Task1, Notified
<1>4. Taken = Note(k, k.cur, "no", v) BY DEF Taken, Note
<1>5. Took(Taken) BY <1>3, <1>4, TookValue
<1>6. IsWait(Here) BY <1>1, <1>2 DEF Moves, Task1, InCall, Here
<1>7. rest \in 0 .. MaxDelay
  <2>1. spent \in Nat
    <3>1. k.tick - Here.t0 \in Int /\ TickRange \in Nat \ {0} BY <1>1, <1>6, TaskListsAssumption DEF IsWait, Ticks
    <3>2. spent \in 0 .. TickRange - 1 BY <3>1, Division
    <3> QED BY <3>2, TaskListsAssumption
  <2>2. Here.tout \in 0 .. MaxDelay BY <1>6 DEF IsWait
  <2> HIDE DEF spent
  <2> QED BY <2>1, <2>2, TaskListsAssumption DEF MaxDelay
<1>8. Gathered \subseteq Bits BY <1>3, <1>6 DEF Gathered, IsWait
<1> HIDE DEF rest
<1>9. IsWait(f) BY <1>6, <1>7, <1>8 DEF IsWait
<1> HIDE DEF f, v
<1>10. frame'[k.cur] = f /\ pc'[k.cur] = "wait" BY <1>1, <1>2 DEF Enter, Moves, IInv, Typed
<1>11. \A t \in Task : t = k.cur => InCall(t)' BY <1>9, <1>10 DEF InCall, Locations
<1>12. DOMAIN frame' = Task /\ \A t \in Task \ {k.cur} : frame'[t] = frame[t]
  BY <1>2, <1>1 DEF Enter, IInv, Typed
<1> QED BY <1>2, <1>5, <1>11, <1>12, AfterWait

LEMMA NotifyTakeDoneKeeps ==
  ASSUME IInv, NotifyTakeDone, UNCHANGED systicks
  PROVE  IInv'
<1>1. k.cur \in Task /\ Task1(k.cur) BY CurrentTask
<1> DEFINE w == k.nval[k.cur]
           v == IF w = {} \/ Here.clear THEN {} ELSE Decrement(w)
<1>2. Moves("count", "user", Note(k, k.cur, "no", v)) /\ Leave /\ left' = left
  BY DEF NotifyTakeDone, Note
<1>3. v \subseteq Bits BY <1>1 DEF Task1, Notified, Decrement
<1> HIDE DEF v
<1>4. Took(Note(k, k.cur, "no", v)) BY <1>3, TookValue
<1>6. \A t \in Task : t = k.cur => InCall(t)' BY <1>2 DEF Moves, InCall, Locations, IInv, Typed
<1>7. DOMAIN frame' = Task /\ \A t \in Task \ {k.cur} : frame'[t] = frame[t]
  BY <1>2, <1>1 DEF Leave, IInv, Typed
<1> QED BY <1>2, <1>4, <1>6, <1>7, AfterWait

-----------------------------------------------------------------------------
(* An interrupt readies tasks, and asks for a switch where one is due.       *)
Disturbs ==
  /\ k'.cur = k.cur /\ k'.prio = k.prio /\ k'.susp = k.susp /\ pc' = pc /\ frame' = frame
  /\ ~Pend(k', k.cur) /\ (k.cur \in k'.suspended => k.cur \in k.suspended)
  /\ k.missed => k'.missed \/ k'.pendsv
  /\ k.pendsv => k'.pendsv
  /\ k'.missed => k.missed \/ k'.pendsv \/ k'.susp > 0
  /\ \A t \in Task : IsReady(k, t) => IsReady(k', t)
  /\ \A t \in Task : k'.nstate[t] = "waiting" => k.nstate[t] = "waiting"
  /\ \A u \in Task : IsReady(k', u) => IsReady(k, u) \/ k'.pendsv \/ k.prio[u] <= k.prio[k.cur]
LEMMA DisturbsKeeps ==
  ASSUME IInv, Disturbs
  PROVE  Turns'
<1>1. k.cur \in Task /\ k'.cur = k.cur /\ IdleTask \in Task BY CurrentTask DEF Disturbs
<1>2. IsReady(k', IdleTask) /\ pc'[IdleTask] \in {"user", "asserted"} BY <1>1 DEF Disturbs, IInv, Turns
<1>3. /\ \A t \in Task : pc'[t] \in {"delay", "untilPlace", "resume", "listed", "asserted"} => t = k'.cur
      /\ pc'[k'.cur] \in {"delay", "untilPlace", "resume"} => k'.susp = 1
      /\ pc'[k'.cur] = "listed" => k'.susp > 0
      /\ pc'[k'.cur] \in {"until", "wait", "take", "count"} => k'.susp = 0
      /\ pc'[k'.cur] = "resume" => k'.cur \notin k'.suspended
      /\ ~Pend(k', k'.cur)
  BY <1>1 DEF Disturbs, IInv, Turns
<1>4. pc'[k'.cur] = "query" => k'.susp = 0 \/ k'.nstate[frame'[k'.cur].thread] # "waiting"
  <2>1. ASSUME pc[k.cur] = "query" PROVE frame[k.cur].thread \in Task
    BY <1>1, <2>1, CurrentTask DEF Task1, InCall
  <2> QED BY <1>1, <2>1 DEF Disturbs, IInv, Turns
<1>5. k'.missed => k'.susp > 0 \/ k'.pendsv BY DEF Disturbs, IInv, Turns
<1>6. ~k'.pendsv /\ ~k'.missed /\ pc'[k'.cur] \notin {"yield", "asserted"} =>
        \A u \in Task : IsReady(k', u) => k'.prio[u] <= k'.prio[k'.cur]
  BY <1>1 DEF Disturbs, IInv, Turns
<1>7. \/ IsReady(k', k'.cur) \/ pc'[k'.cur] \in {"resume", "asserted"}
      \/ k'.susp = 0 /\ (k'.pendsv \/ pc'[k'.cur] = "yield" \/ GoneToSleep(k.cur)')
  BY <1>1 DEF Disturbs, IInv, Turns, GoneToSleep
<1> QED BY <1>1, <1>2, <1>3, <1>4, <1>5, <1>6, <1>7 DEF Turns, GoneToSleep

(* The task that waited has been notified: it is ready, or will be when the  *)
(* scheduler resumes.                                                        *)
LEMMA BeenNotified ==
  ASSUME NEW u \in Task, Task1(u), k.nstate[u] = "waiting", Good(k'),
         k'.nstate[u] = "received", k'.nval[u] \subseteq Bits,
         pc'[u] = pc[u], frame'[u] = frame[u], left'[u] = 0,
         IsReady(k', u) \/ (SameLists(k, k') /\ Pend(k', u))
  PROVE  Task1(u)'
<1>1. pc[u] \in {"take", "count", "asserted"} /\ Alive(u) BY DEF Task1, Notified
<1>2. InCall(u)' BY <1>1 DEF Task1, InCall, IsWait, Locations
<1>3. CASE IsReady(k', u)
  <2>1. ~Dozes(k', u) BY <1>3 DEF Good, Single, Elsewhere, Dozes
  <2>2. Notified(u)' BY <1>3 DEF Notified, Alive
  <2>3. Remains(u)' BY <1>1, <2>1 DEF Remains
  <2> QED BY <1>2, <2>2, <2>3 DEF Task1
<1>4. CASE SameLists(k, k') /\ Pend(k', u)
  <2>1. Alive(u)' BY <1>1, <1>4, SameListsFacts DEF Alive, Sleeping, SameLists
  <2>2. Notified(u)' BY <1>4, <2>1 DEF Notified
  <2>3. Remains(u)' BY <1>1, <1>4 DEF Remains
  <2> QED BY <1>2, <2>2, <2>3 DEF Task1
<1> QED BY <1>3, <1>4

WokeAs(j, u) ==
  /\ Good(j) /\ j.cur = k.cur /\ j.number = k.number /\ j.prio = k.prio
  /\ j.tick = k.tick /\ j.pended = k.pended /\ j.susp = k.susp
  /\ DOMAIN j.nstate = Task /\ DOMAIN j.nval = Task
  /\ j.nstate[u] = "received" /\ j.nval[u] \subseteq Bits
  /\ \A t \in Task \ {u} : j.nstate[t] = k.nstate[t] /\ j.nval[t] = k.nval[t]
  /\ Concerns(k, j, {u}) /\ InAList(j, u)
  /\ j.missed \in BOOLEAN /\ (k.missed => j.missed) /\ (j.missed => k.missed \/ j.pendsv)
  /\ j.pendsv \in BOOLEAN /\ (k.pendsv => j.pendsv) /\ (Urgent(u) => j.pendsv)
  /\ \/ IsReady(j, u) /\ j.events = k.events
     \/ /\ k.susp # 0 /\ SameLists(k, j) /\ Pend(j, u)
        /\ IsInjective(k.events["pending"]) => IsInjective(j.events["pending"])
LEMMA WokeByTask ==
  ASSUME IInv, NEW u \in Task, NEW action \in Actions, NEW v, v \subseteq Bits,
         k.nstate[u] = "waiting"
  PROVE  LET j == GenericNotify(u, action, v)
         IN WokeAs(j, u) /\ j.missed = k.missed /\ j.events = k.events /\ IsReady(j, u)
<1> DEFINE b == NewValue(u, action, v)
           i == Note(k, u, "received", b)
           m == Ready(i, u)
           j == GenericNotify(u, action, v)
<1>1. b \subseteq Bits BY NewValueBits DEF IInv, Task1, Notified
<1>2. DOMAIN k = Fields /\ Good(k) /\ k.pendsv \in BOOLEAN /\ k.missed \in BOOLEAN BY CurrentTask
<1>3. j = IF Urgent(u) THEN Yield(m) ELSE m BY DEF GenericNotify, Received, Note
<1> HIDE DEF b, j
<1>4. IsNoted(k, i, u, "received", b) BY <1>2, NoteFields
<1> HIDE DEF i
<1>5. Good(i) BY <1>2, <1>4, GoodAs DEF IsNoted
<1>6. /\ Good(m) /\ Kept(i, m) /\ m.events = i.events
      /\ IsReady(m, u) /\ Concerns(i, m, {u})
  BY <1>5, SoundAnyway, ReadyAgain DEF Good
<1> HIDE DEF m
<1>7. \A t \in Task \ {u} : i.nstate[t] = k.nstate[t] BY <1>4 DEF IsNoted, IInv, Typed
<1>8. Concerns(k, i, {u}) BY <1>2, <1>4, <1>7, ConcernsAs DEF IsNoted
<1>9. Concerns(k, m, {u}) BY <1>6, <1>8, ConcernsMore
<1>10. DOMAIN m = Fields BY <1>6 DEF Good, Sound, Shape
<1>11. /\ ListsAs(m, j) /\ Routine(m, j) /\ j.susp = m.susp /\ j.pended = m.pended
       /\ j.missed = m.missed /\ j.pendsv = (m.pendsv \/ Urgent(u))
  <2>1. CASE Urgent(u) BY <1>3, <1>10, <2>1, PendsvFields DEF Yield
  <2>2. CASE ~Urgent(u)
    <3>1. j = m BY <1>3, <2>2
    <3>2. m.pendsv \in BOOLEAN BY <1>2, <1>4, <1>6 DEF Kept, IsNoted, SwitchesAs
    <3> QED BY <1>10, <2>2, <3>1, <3>2 DEF ListsAs, SameLists, Routine
  <2> QED BY <2>1, <2>2
<1>12. Good(j) /\ IsReady(j, u) BY <1>6, <1>11, GoodAs
<1>13. Concerns(k, j, {u})
  <2>1. j.nstate = m.nstate BY <1>11 DEF Routine
  <2>2. Concerns(m, j, {u}) BY <1>6, <1>11, <2>1, ConcernsAs
  <2> QED BY <1>9, <2>2, ConcernsMore
<1>14. /\ j.cur = k.cur /\ j.number = k.number /\ j.prio = k.prio
       /\ j.tick = k.tick /\ j.pended = k.pended /\ j.susp = k.susp
       /\ j.nstate = [k.nstate EXCEPT ![u] = "received"] /\ j.nval = [k.nval EXCEPT ![u] = b]
       /\ j.missed = k.missed /\ j.pendsv = (k.pendsv \/ Urgent(u)) /\ j.events = k.events
  BY <1>4, <1>6, <1>11 DEF IsNoted, Kept, ListsAs, Routine, SwitchesAs
<1>15. /\ DOMAIN j.nstate = Task /\ DOMAIN j.nval = Task
       /\ j.nstate[u] = "received" /\ j.nval[u] \subseteq Bits
       /\ \A t \in Task \ {u} : j.nstate[t] = k.nstate[t] /\ j.nval[t] = k.nval[t]
  BY <1>1, <1>14 DEF IInv, Typed
<1>16. Urgent(u) \in BOOLEAN /\ InAList(j, u) BY <1>12 DEF Urgent, InAList
<1>17. WokeAs(j, u) BY <1>2, <1>12, <1>13, <1>14, <1>15, <1>16 DEF WokeAs
<1> QED BY <1>12, <1>14, <1>17 DEF j

LEMMA WakingStep ==
  ASSUME IInv, NEW from \in Passing, NEW to \in Passing, NEW u \in Task,
         k.nstate[u] = "waiting", ~Pend(k, u), WokeAs(k', u),
         k'.missed = k.missed, k'.events = k.events, IsReady(k', u),
         ~k.pendsv, pc[k.cur] = from, pc' = [pc EXCEPT ![k.cur] = to], program' = program,
         Due(u, 0), UNCHANGED systicks,
         DOMAIN frame' = Task, \A t \in Task \ {k.cur} : frame'[t] = frame[t],
         k.cur = IdleTask => to = "user", from \notin {"yield", "suspended"},
         to \notin {"delay", "listed", "wait"}, to = "query" => frame'[k.cur].thread = u,
         \A t \in Task : t = k.cur => InCall(t)'
  PROVE  IInv'
<1>1. /\ k.cur \in Task /\ Task1(k.cur) /\ Task1(u) /\ k.prio \in [Task -> Levels] /\ IdleTask \in Task
      /\ k.susp \in Nat
  BY CurrentTask DEF IInv
<1>2. u # k.cur BY <1>1 DEF Task1, Notified, Passing
<1> DEFINE T == {k.cur, u}
<1>3. /\ Good(k') /\ k'.cur = k.cur /\ k'.number = k.number /\ k'.prio = k.prio
      /\ k'.tick = k.tick /\ k'.pended = k.pended /\ k'.susp = k.susp
      /\ DOMAIN k'.nstate = Task /\ DOMAIN k'.nval = Task
      /\ k'.nstate[u] = "received" /\ k'.nval[u] \subseteq Bits
      /\ \A t \in Task \ {u} : k'.nstate[t] = k.nstate[t] /\ k'.nval[t] = k.nval[t]
      /\ Concerns(k, k', {u}) /\ InAList(k', u)
      /\ k'.pendsv \in BOOLEAN /\ (Urgent(u) => k'.pendsv)
  BY DEF WokeAs
<1>4. /\ DOMAIN pc' = Task /\ pc'[k.cur] = to /\ \A t \in Task \ {k.cur} : pc'[t] = pc[t]
      /\ DOMAIN left' = Task /\ left'[u] = 0 /\ \A t \in Task \ {u} : left'[t] = left[t]
  BY <1>1 DEF IInv, Typed, Due
<1>5. Concerns(k, k', T) BY <1>3 DEF Concerns
<1>6. Others(T) BY <1>3, <1>4, <1>5 DEF Others
<1>7. AsWas(k, k', k.cur) BY <1>1, <1>2, <1>3 DEF Concerns
<1>8. ASSUME NEW t \in Task \cap T PROVE Task1(t)'
  <2>1. CASE t = u BY <1>1, <1>2, <1>3, <1>4, <2>1, BeenNotified
  <2>2. CASE t = k.cur
    <3>1. k'.nval[t] \subseteq Bits BY <1>1, <1>2, <1>3, <2>2 DEF Task1, Notified
    <3>2. Task1(t) /\ Stays(k, k', t) /\ k'.wake[t] = k.wake[t] /\ k'.nstate[t] = k.nstate[t]
      BY <1>1, <1>7, <2>2 DEF AsWas
    <3>3. pc[t] \in Passing /\ pc'[t] \in Passing /\ InCall(t)' BY <1>4, <2>2
    <3>4. left'[t] = left[t] BY <1>2, <1>4, <2>2
    <3> QED BY <1>3, <3>1, <3>2, <3>3, <3>4, TaskNoted
  <2> QED BY <2>1, <2>2
<1>9. InAList(k', k.cur) <=> InAList(k, k.cur)
  BY <1>7 DEF AsWas, Stays, InAList, Elsewhere, Dozes
<1>10. InAList(k, u) BY <1>1 DEF Task1, Notified, Alive, Sleeping, InAList, Elsewhere
<1>11. \A t \in Task \cap T : Task1(t)' /\ (InAList(k', t) <=> InAList(k, t)) BY <1>3, <1>8, <1>9, <1>10
<1>12. GoesOn(from, to) BY Going DEF Passing
<1>13. IsReady(k, k.cur) BY RunningReady DEF Passing
<1>14. Fair(from, to)
  <2>1. IsReady(k', k.cur) BY <1>7, <1>13 DEF AsWas, Stays
  <2>2. IsReady(k', IdleTask)
    <3>1. IsReady(k, IdleTask) BY DEF IInv, Turns
    <3>2. IdleTask # u => IsReady(k', IdleTask) BY <1>1, <1>3, <3>1 DEF Concerns, AsWas, Stays
    <3> QED BY <3>2
  <2>3. ~Pend(k', k.cur) BY DEF Pend, IInv, Turns
  <2>4. k'.missed => k'.susp > 0 \/ k'.pendsv BY <1>3 DEF IInv, Turns
  <2>5. ASSUME NEW t \in Task, IsReady(k', t)
        PROVE  \/ k'.pendsv \/ to = "yield" \/ k'.prio[t] <= k'.prio[k.cur]
               \/ IsReady(k, t) /\ k'.prio[t] = k.prio[t] /\ k.prio[k.cur] <= k'.prio[k.cur]
    <3>0. k.prio[k.cur] \in Int /\ k.prio[t] \in Int BY <1>1 DEF Levels
    <3>1. CASE t = u BY <1>3, <3>0, <3>1 DEF Urgent
    <3>2. CASE t # u BY <1>3, <2>5, <3>0, <3>2 DEF Concerns, AsWas, Stays
    <3> QED BY <3>1, <3>2
  <2>6. to = "query" => k'.nstate[frame'[k.cur].thread] # "waiting" BY <1>3
  <2>7. to \notin {"delay", "untilPlace", "resume"} /\ to # "listed" /\ to # "resume"
        /\ to \notin {"until", "wait", "take", "count"} /\ from # "yield"
    BY DEF Passing
  <2>8. \A t \in Task : IsReady(k', t) =>
          \/ k'.pendsv \/ to = "yield" \/ k'.prio[t] <= k'.prio[k.cur]
          \/ IsReady(k, t) /\ k'.prio[t] = k.prio[t] /\ k.prio[k.cur] <= k'.prio[k.cur]
    BY <2>5
  <2>9. k'.cur = k.cur /\ k'.prio \in [Task -> Levels] /\ (k.missed => k'.missed) BY <1>1, <1>3
  <2> QED BY <2>1, <2>2, <2>3, <2>4, <2>6, <2>7, <2>8, <2>9, Zenon DEF Fair
<1>15. Turns' BY <1>12, <1>14, TurnsKept
<1>16. Books BY <1>3 DEF Books, IInv, Counts1
<1> QED BY <1>3, <1>6, <1>11, <1>15, <1>16, Carried

(* xTaskGenericNotify by the running task.                                   *)
LEMMA NoteAnyStep ==
  ASSUME IInv, NEW from \in Passing, NEW to \in Passing, NEW u \in Task, NEW action \in Actions,
         NEW v, v \subseteq Bits, k.nstate[u] = "waiting" => ~Pend(k, u),
         Moves(from, to, GenericNotify(u, action, v)), NotDue(u), UNCHANGED systicks,
         DOMAIN frame' = Task, \A t \in Task \ {k.cur} : frame'[t] = frame[t],
         k.cur = IdleTask => to = "user", from \notin {"yield", "suspended"},
         to \notin {"delay", "listed", "wait"}, to = "query" => frame'[k.cur].thread = u,
         \A t \in Task : t = k.cur => InCall(t)'
  PROVE  IInv'
<1>1. CASE k.nstate[u] = "waiting"
  <2>1. Due(u, 0) BY <1>1 DEF NotDue
  <2>2. /\ ~k.pendsv /\ pc[k.cur] = from /\ pc' = [pc EXCEPT ![k.cur] = to] /\ program' = program
        /\ k' = GenericNotify(u, action, v)
    BY DEF Moves
  <2>3. WokeAs(k', u) /\ k'.missed = k.missed /\ k'.events = k.events /\ IsReady(k', u)
    BY <1>1, <2>2, WokeByTask
  <2> QED BY <1>1, <2>1, <2>2, <2>3, WakingStep
<1>2. CASE k.nstate[u] # "waiting"
  <2>1. left' = left BY <1>2 DEF NotDue
  <2> QED BY <1>2, <2>1, NoteStep
<1> QED BY <1>1, <1>2

LEMMA FlagsSetKeeps ==
  ASSUME IInv, FlagsSet, UNCHANGED systicks
  PROVE  IInv'
<1>0. PICK c \in Calls("osThreadFlagsSet") :
        /\ ~Misplaced(c.thread) /\ Moves("user", "query", GenericNotify(c.thread, "eSetBits", c.flags))
        /\ Enter(c) /\ NotDue(c.thread)
  BY DEF FlagsSet
<1>1. k.cur \in Task /\ Good(k) BY CurrentTask
<1>2. c.thread \in Task /\ c.flags \subseteq Bits /\ k.cur # IdleTask BY Programmed DEF Sensible
<1>3. k.nstate[c.thread] = "waiting" => ~Pend(k, c.thread)
  BY <1>0, <1>1 DEF Misplaced, OnEventList, Pend, Good, Sound, Shape
<1>4. "eSetBits" \in Actions /\ "user" \in Passing /\ "query" \in Passing BY DEF Actions, Passing
<1>5. DOMAIN frame' = Task /\ frame'[k.cur] = c /\ \A t \in Task \ {k.cur} : frame'[t] = frame[t]
  BY <1>0, <1>1 DEF Enter, IInv, Typed
<1>6. pc'[k.cur] = "query" BY <1>0, <1>1 DEF Moves, IInv, Typed
<1>7. \A t \in Task : t = k.cur => InCall(t)' BY <1>2, <1>5, <1>6 DEF InCall, Locations
<1> QED BY <1>0, <1>2, <1>3, <1>4, <1>5, <1>7, NoteAnyStep
LEMMA FlagsQueryKeeps ==
  ASSUME IInv, FlagsQuery, UNCHANGED systicks
  PROVE  IInv'
<1>0. /\ Moves("query", "user", GenericNotify(Here.thread, "eNoAction", {})) /\ Leave
      /\ NotDue(Here.thread)
  BY DEF FlagsQuery
<1>1. k.cur \in Task /\ Task1(k.cur) /\ k.susp \in Nat BY CurrentTask
<1>2. Here.thread \in Task BY <1>0, <1>1 DEF Moves, Task1, InCall, Here
<1>3. k.nstate[Here.thread] = "waiting" => ~Pend(k, Here.thread)
  <2>1. k.susp = 0 \/ k.nstate[Here.thread] # "waiting" BY <1>0 DEF Moves, IInv, Turns, Here
  <2>2. k.susp = 0 => ~Pend(k, Here.thread) BY DEF IInv, Counts1, Pend, Contains
  <2> QED BY <2>1, <2>2
<1>4. "eNoAction" \in Actions /\ "user" \in Passing /\ "query" \in Passing /\ {} \subseteq Bits
  BY DEF Actions, Passing
<1>5. DOMAIN frame' = Task /\ \A t \in Task \ {k.cur} : frame'[t] = frame[t]
  BY <1>0, <1>1 DEF Leave, IInv, Typed
<1>7. \A t \in Task : t = k.cur => InCall(t)' BY <1>0 DEF Moves, InCall, Locations, IInv, Typed
<1> QED BY <1>0, <1>2, <1>3, <1>4, <1>5, <1>7, NoteAnyStep
LEMMA NotifyKeeps ==
  ASSUME IInv, Notify, UNCHANGED systicks
  PROVE  IInv'
<1>0. PICK c \in Calls("xTaskNotify") :
        /\ ~Misplaced(c.thread) /\ Moves("user", "user", GenericNotify(c.thread, c.action, c.flags))
        /\ NotDue(c.thread) /\ UNCHANGED frame
  BY DEF Notify
<1>1. k.cur \in Task /\ Good(k) BY CurrentTask
<1>2. c.thread \in Task /\ c.flags \subseteq Bits /\ c.action \in Actions BY Programmed DEF Sensible
<1>3. k.nstate[c.thread] = "waiting" => ~Pend(k, c.thread)
  BY <1>0, <1>1 DEF Misplaced, OnEventList, Pend, Good, Sound, Shape
<1>4. "user" \in Passing BY DEF Passing
<1>5. DOMAIN frame' = Task /\ \A t \in Task \ {k.cur} : frame'[t] = frame[t]
  BY <1>0 DEF IInv, Typed
<1>7. \A t \in Task : t = k.cur => InCall(t)' BY <1>0 DEF Moves, InCall, Locations, IInv, Typed
<1> QED BY <1>0, <1>2, <1>3, <1>4, <1>5, <1>7, NoteAnyStep

-----------------------------------------------------------------------------
(* The interrupts.                                                           *)
LEMMA InterruptStep ==
  ASSUME IInv, NEW u \in Task, Concerns(k, k', {u}), Good(k'), Disturbs, Books,
         k'.tick = k.tick, k'.pended = k.pended, k'.number = k.number, program' = program,
         DOMAIN k'.nstate = Task, DOMAIN k'.nval = Task, DOMAIN left' = Task,
         \A t \in Task \ {u} : left'[t] = left[t] /\ k'.nval[t] = k.nval[t],
         UNCHANGED systicks, Task1(u)', InAList(k', u) <=> InAList(k, u)
  PROVE  IInv'
<1>1. Others({u}) BY DEF Others, Disturbs, IInv, Typed
<1>2. Turns' BY DisturbsKeeps
<1>3. \A t \in Task \cap {u} : Task1(t)' /\ (InAList(k', t) <=> InAList(k, t)) OBVIOUS
<1> QED BY <1>1, <1>2, <1>3, Carried

LEMMA WokeByISR ==
  ASSUME IInv, NEW u \in Task, NEW action \in Actions, NEW v, v \subseteq Bits,
         k.nstate[u] = "waiting", ~Pend(k, u)
  PROVE  WokeAs(GenericNotifyFromISR(u, action, v), u)
<1> DEFINE b == NewValue(u, action, v)
           i == Note(k, u, "received", b)
           m == ReadyOrPend(i, u)
           n == [m EXCEPT !.missed = TRUE]
           j == GenericNotifyFromISR(u, action, v)
<1>1. b \subseteq Bits BY NewValueBits DEF IInv, Task1, Notified
<1>2. DOMAIN k = Fields /\ Good(k) /\ k.pendsv \in BOOLEAN /\ k.missed \in BOOLEAN BY CurrentTask
<1>3. j = IF Urgent(u) THEN Yield(n) ELSE m BY DEF GenericNotifyFromISR, Received, Note
<1> HIDE DEF b, j
<1>4. IsNoted(k, i, u, "received", b) BY <1>2, NoteFields
<1> HIDE DEF i
<1>5. Good(i) BY <1>2, <1>4, GoodAs DEF IsNoted
<1>6. ~Pend(i, u) /\ i.susp = k.susp /\ i.events = k.events
  BY <1>4 DEF IsNoted, ListsAs, SwitchesAs, Pend
<1>7. /\ Good(m) /\ Kept(i, m) /\ Concerns(i, m, {u})
      /\ k.susp = 0 => IsReady(m, u) /\ m.events = k.events
      /\ k.susp # 0 => /\ SameLists(i, m) /\ Pend(m, u)
                       /\ IsInjective(k.events["pending"]) => IsInjective(m.events["pending"])
  <2>1. i.susp # 0 => ~Pend(i, u) BY <1>6
  <2>2. /\ Good(m) /\ Kept(i, m) /\ Concerns(i, m, {u})
        /\ i.susp = 0 => IsReady(m, u) /\ ~Elsewhere(m, u) /\ m.events = i.events
        /\ i.susp # 0 => /\ SameLists(i, m) /\ m.wake = i.wake /\ Pend(m, u)
                         /\ IsInjective(i.events["pending"]) => IsInjective(m.events["pending"])
    BY <1>5, <2>1, ReadyOrPended
  <2> QED BY <1>6, <2>2
<1> HIDE DEF m
<1>8. \A t \in Task \ {u} : i.nstate[t] = k.nstate[t] BY <1>4 DEF IsNoted, IInv, Typed
<1>9. Concerns(k, m, {u})
  <2>1. Concerns(k, i, {u}) BY <1>2, <1>4, <1>8, ConcernsAs DEF IsNoted
  <2> QED BY <1>7, <2>1, ConcernsMore
<1>10. DOMAIN m = Fields /\ m.missed = k.missed /\ m.pendsv = k.pendsv
  BY <1>4, <1>7 DEF Good, Sound, Shape, Kept, IsNoted, SwitchesAs
<1>11. /\ ListsAs(m, j) /\ Routine(m, j) /\ j.susp = m.susp /\ j.pended = m.pended
       /\ j.missed = (k.missed \/ Urgent(u)) /\ j.pendsv = (k.pendsv \/ Urgent(u))
  <2>1. CASE Urgent(u)
    <3>1. /\ ListsAs(m, n) /\ Routine(m, n) /\ n.susp = m.susp /\ n.pended = m.pended
          /\ n.missed = TRUE /\ n.pendsv = m.pendsv
      BY <1>10, JustMissedFields
    <3> HIDE DEF n
    <3>2. DOMAIN n = Fields BY <3>1 DEF ListsAs
    <3>3. /\ ListsAs(n, j) /\ Routine(n, j) /\ j.susp = n.susp /\ j.pended = n.pended
          /\ j.missed = n.missed /\ j.pendsv = TRUE
      BY <1>3, <2>1, <3>2, PendsvFields DEF Yield
    <3> QED BY <2>1, <3>1, <3>3 DEF ListsAs, SameLists, Routine
  <2>2. CASE ~Urgent(u)
    <3>1. j = m BY <1>3, <2>2
    <3> QED BY <1>2, <1>10, <2>2, <3>1 DEF ListsAs, SameLists, Routine
  <2> QED BY <2>1, <2>2
<1>12. Good(j) /\ (IsReady(m, u) => IsReady(j, u)) BY <1>7, <1>11, GoodAs
<1>13. Concerns(k, j, {u})
  <2>1. j.nstate = m.nstate BY <1>11 DEF Routine
  <2>2. Concerns(m, j, {u}) BY <1>7, <1>11, <2>1, ConcernsAs
  <2> QED BY <1>9, <2>2, ConcernsMore
<1>14. /\ j.cur = k.cur /\ j.number = k.number /\ j.prio = k.prio
       /\ j.tick = k.tick /\ j.pended = k.pended /\ j.susp = k.susp
       /\ j.nstate = [k.nstate EXCEPT ![u] = "received"] /\ j.nval = [k.nval EXCEPT ![u] = b]
  BY <1>4, <1>7, <1>11 DEF IsNoted, Kept, ListsAs, Routine, SwitchesAs
<1>15. /\ DOMAIN j.nstate = Task /\ DOMAIN j.nval = Task
       /\ j.nstate[u] = "received" /\ j.nval[u] \subseteq Bits
       /\ \A t \in Task \ {u} : j.nstate[t] = k.nstate[t] /\ j.nval[t] = k.nval[t]
  BY <1>1, <1>14 DEF IInv, Typed
<1>16. \/ IsReady(j, u) /\ j.events = k.events
       \/ /\ k.susp # 0 /\ SameLists(k, j) /\ Pend(j, u)
          /\ IsInjective(k.events["pending"]) => IsInjective(j.events["pending"])
  <2>1. CASE k.susp = 0 BY <1>7, <1>11, <1>12, <2>1 DEF ListsAs
  <2>2. CASE k.susp # 0
    <3>1. SameLists(k, j) BY <1>4, <1>7, <1>11, <2>2 DEF SameLists, ListsAs, IsNoted
    <3> QED BY <1>7, <1>11, <2>2, <3>1 DEF ListsAs, Pend
  <2> QED BY <2>1, <2>2
<1>17. InAList(j, u)
  <2>1. InAList(k, u) BY DEF IInv, Task1, Notified, Alive, Sleeping, InAList, Elsewhere
  <2>2. SameLists(k, j) => InAList(j, u) BY <2>1, SameListsFacts DEF InAList
  <2> QED BY <1>16, <2>2 DEF InAList
<1>18. j.missed \in BOOLEAN /\ j.pendsv \in BOOLEAN /\ (k.missed => j.missed) /\ (k.pendsv => j.pendsv)
       /\ (j.missed => k.missed \/ j.pendsv) /\ (Urgent(u) => j.pendsv)
  BY <1>2, <1>11 DEF Urgent
<1> QED BY <1>12, <1>13, <1>14, <1>15, <1>16, <1>17, <1>18 DEF WokeAs, j

LEMMA FromISRKeeps ==
  ASSUME IInv, NEW u \in Task, NEW action \in Actions, NEW v, v \subseteq Bits,
         FromISR(u, GenericNotifyFromISR(u, action, v)), UNCHANGED systicks
  PROVE  IInv'
<1>1. /\ k.cur \in Task /\ Task1(u) /\ Good(k) /\ DOMAIN k = Fields /\ k.prio \in [Task -> Levels]
      /\ k.missed \in BOOLEAN /\ k.pendsv \in BOOLEAN
  BY CurrentTask DEF IInv
<1>2. /\ ~Halted /\ k' = GenericNotifyFromISR(u, action, v) /\ NotDue(u)
      /\ pc' = pc /\ frame' = frame /\ program' = program
      /\ (k.nstate[u] = "waiting" => ~Pend(k, u))
  BY <1>1 DEF FromISR, Misplaced, OnEventList, Pend, Good, Sound, Shape
<1>3. CASE k.nstate[u] = "waiting"
  <2>1. WokeAs(k', u) BY <1>2, <1>3, WokeByISR
  <2>2. DOMAIN left' = Task /\ left'[u] = 0 /\ \A t \in Task \ {u} : left'[t] = left[t]
    BY <1>2, <1>3 DEF NotDue, Due, IInv, Typed
  <2>3. k'.nstate[u] = "received" /\ k'.nval[u] \subseteq Bits /\ Good(k') BY <2>1 DEF WokeAs
  <2>4. IsReady(k', u) \/ (SameLists(k, k') /\ Pend(k', u)) BY <2>1 DEF WokeAs
  <2>5. Task1(u)' BY <1>1, <1>2, <1>3, <2>2, <2>3, <2>4, BeenNotified
  <2>6. InAList(k, u) BY <1>1, <1>3 DEF Task1, Notified, Alive, Sleeping, InAList, Elsewhere
  <2>7. InAList(k', u) <=> InAList(k, u) BY <2>1, <2>6 DEF WokeAs
  <2>8. Concerns(k, k', {u}) BY <2>1 DEF WokeAs
  <2>9. \A t \in Task : IsReady(k, t) => IsReady(k', t)
    <3>1. IsReady(k', u) \/ (IsReady(k', u) <=> IsReady(k, u))
      BY <2>4, SameListsFacts
    <3>2. \A t \in Task \ {u} : IsReady(k', t) <=> IsReady(k, t) BY <2>8 DEF Concerns, AsWas, Stays
    <3> QED BY <3>1, <3>2
  <2>10. ~Pend(k', k.cur)
    <3>0. ~Pend(k, k.cur) BY DEF IInv, Turns
    <3>1. CASE u # k.cur BY <1>1, <2>8, <3>0, <3>1 DEF Concerns, AsWas, Stays
    <3>2. CASE u = k.cur
      <4>1. pc[u] \in {"take", "count"} BY <1>1, <1>2, <1>3, <3>2 DEF Task1, Notified, Halted
      <4>2. k.susp = 0 BY <3>2, <4>1 DEF IInv, Turns
      <4>3. k'.events = k.events BY <2>1, <4>2 DEF WokeAs
      <4> QED BY <3>0, <4>3 DEF Pend
    <3> QED BY <3>1, <3>2
  <2>11. \A t \in Task : IsReady(k', t) => IsReady(k, t) \/ k'.pendsv \/ k.prio[t] <= k.prio[k.cur]
    <3>1. k.prio[k.cur] \in Int /\ k.prio[u] \in Int BY <1>1 DEF Levels
    <3>2. k'.pendsv \/ k.prio[u] <= k.prio[k.cur] BY <1>3, <2>1, <3>1 DEF WokeAs, Urgent
    <3> QED BY <2>8, <3>2 DEF Concerns, AsWas, Stays
  <2>12. \A t \in Task : k'.nstate[t] = "waiting" => k.nstate[t] = "waiting"
    <3>1. \A t \in Task : t = u \/ k'.nstate[t] = k.nstate[t] BY <2>1 DEF WokeAs
    <3> QED BY <1>3, <3>1
  <2>16. k.cur \in k'.suspended => k.cur \in k.suspended
    <3>1. CASE u # k.cur BY <1>1, <2>8, <3>1 DEF Concerns, AsWas, Stays
    <3>2. CASE u = k.cur
      <4>1. IsReady(k', u) => u \notin k'.suspended BY <2>3 DEF Good, Single, Elsewhere
      <4>2. SameLists(k, k') => k'.suspended = k.suspended BY DEF SameLists
      <4> QED BY <2>4, <3>2, <4>1, <4>2
    <3> QED BY <3>1, <3>2
  <2>13. Disturbs BY <1>2, <2>1, <2>9, <2>10, <2>11, <2>12, <2>16 DEF Disturbs, WokeAs
  <2>14. Books
    <3>1. k'.susp = 0 => k'.events = k.events BY <2>1 DEF WokeAs
    <3>2. IsInjective(k'.events["pending"]) BY <2>1 DEF WokeAs, IInv, Counts1
    <3> QED BY <2>1, <3>1, <3>2 DEF WokeAs, Books, IInv, Counts1
  <2>15. /\ k'.tick = k.tick /\ k'.pended = k.pended /\ k'.number = k.number
         /\ DOMAIN k'.nstate = Task /\ DOMAIN k'.nval = Task
         /\ \A t \in Task \ {u} : k'.nval[t] = k.nval[t]
    BY <2>1 DEF WokeAs
  <2> QED BY <1>2, <2>2, <2>3, <2>5, <2>7, <2>8, <2>13, <2>14, <2>15, InterruptStep
<1>4. CASE k.nstate[u] # "waiting"
  <2>1. /\ ListsAs(k, k') /\ SwitchesAs(k, k') /\ k'.missed = k.missed /\ k'.number = k.number
        /\ DOMAIN k'.nstate = Task /\ DOMAIN k'.nval = Task
        /\ k'.nstate[u] = "received" /\ k'.nval[u] \subseteq Bits
        /\ \A t \in Task \ {u} : k'.nstate[t] = k.nstate[t] /\ k'.nval[t] = k.nval[t]
    BY <1>2, <1>4, NotifyFields
  <2>2. left' = left BY <1>2, <1>4 DEF NotDue
  <2>3. /\ Good(k') /\ \A t : /\ IsReady(k', t) <=> IsReady(k, t)
                              /\ Dozes(k', t) <=> Dozes(k, t)
                              /\ Elsewhere(k', t) <=> Elsewhere(k, t)
    BY <1>1, <2>1, GoodAs
  <2>4. Concerns(k, k', {u}) BY <1>1, <2>1, ConcernsAs
  <2>5. Stays(k, k', u) /\ k'.wake[u] = k.wake[u]
    BY <2>1, <2>3 DEF Stays, ListsAs, SameLists, Pend
  <2>6. k'.tick = k.tick /\ k'.pended = k.pended BY <2>1 DEF ListsAs, SwitchesAs
  <2>7. Task1(u)' BY <1>1, <1>2, <1>4, <2>1, <2>2, <2>5, <2>6, TaskNoted
  <2>8. InAList(k', u) <=> InAList(k, u) BY <2>3 DEF InAList
  <2>9. ~Pend(k', k.cur) BY <2>1 DEF ListsAs, Pend, IInv, Turns
  <2>10. k'.missed => k.missed \/ k'.pendsv \/ k'.susp > 0 BY <2>1
  <2>11. \A t \in Task : k'.nstate[t] = "waiting" => k.nstate[t] = "waiting"
    <3>1. \A t \in Task : t = u \/ k'.nstate[t] = k.nstate[t] BY <2>1
    <3> QED BY <2>1, <3>1
  <2>12. Disturbs BY <1>2, <2>1, <2>3, <2>9, <2>10, <2>11 DEF Disturbs, ListsAs, SwitchesAs, SameLists
  <2>13. Books BY <1>1, <2>1 DEF Books, ListsAs, SwitchesAs, IInv, Counts1
  <2>14. DOMAIN left' = Task /\ \A t \in Task \ {u} : left'[t] = left[t] /\ k'.nval[t] = k.nval[t]
    BY <2>1, <2>2 DEF IInv, Typed
  <2> QED BY <1>2, <2>1, <2>3, <2>4, <2>6, <2>7, <2>8, <2>12, <2>13, <2>14, InterruptStep
<1> QED BY <1>3, <1>4

LEMMA Interrupted ==
  ASSUME IInv, NEW op, NEW c \in Interrupt(op)
  PROVE  c.op = op /\ Sensible(program) /\ c \in program.isr
BY KernelAssumption DEF Interrupt, IInv, Typed
LEMMA FlagsSetFromISRKeeps ==
  ASSUME IInv, FlagsSetFromISR, UNCHANGED systicks
  PROVE  IInv'
<1>0. PICK c \in Interrupt("osThreadFlagsSet") :
        FromISR(c.thread, GenericNotifyFromISR(c.thread, "eSetBits", c.flags))
  BY DEF FlagsSetFromISR
<1>1. c.thread \in Task /\ c.flags \subseteq Bits BY Interrupted DEF Sensible
<1>2. "eSetBits" \in Actions BY DEF Actions
<1> QED BY <1>0, <1>1, <1>2, FromISRKeeps
LEMMA NotifyGiveFromISRKeeps ==
  ASSUME IInv, NotifyGiveFromISR, UNCHANGED systicks
  PROVE  IInv'
<1>0. PICK c \in Interrupt("vTaskNotifyGiveFromISR") :
        FromISR(c.thread, GenericNotifyFromISR(c.thread, "eIncrement", {}))
  BY DEF NotifyGiveFromISR
<1>1. c.thread \in Task /\ {} \subseteq Bits BY Interrupted DEF Sensible
<1>2. "eIncrement" \in Actions BY DEF Actions
<1> QED BY <1>0, <1>1, <1>2, FromISRKeeps


-----------------------------------------------------------------------------
(* The lists are looked through: every task is as it was.                    *)
LEMMA QuietStep ==
  ASSUME IInv, NEW from \in Passing, NEW to \in {"user", "yield", "listed"},
         Good(k'), Titles(k, k'), k'.cur = k.cur, k'.tick = k.tick, k'.pended = k.pended,
         k'.missed = k.missed, k'.events = k.events, k'.pendsv = k.pendsv, Concerns(k, k', {}),
         k'.susp \in 0 .. MaxNesting, k'.susp = 0 => k.susp = 0, to = "listed" => k'.susp > 0,
         ~k.pendsv, pc[k.cur] = from, from # "yield", pc' = [pc EXCEPT ![k.cur] = to],
         k.cur = IdleTask => to = "user",
         IsReady(k, k.cur) \/ (k'.susp = 0 /\ to = "yield"),
         program' = program, UNCHANGED <<frame, left, systicks>>
  PROVE  IInv'
<1>1. k.cur \in Task /\ k.pendsv \in BOOLEAN BY CurrentTask
<1>2. GoesOn(from, to) /\ \A t \in Task \ {k.cur} : pc'[t] = pc[t]
  BY Going DEF Passing
<1>3. \A t \in Task : AsWas(k, k', t) BY DEF Concerns
<1>4. Others({k.cur})
  <2>1. DOMAIN k'.nstate = Task /\ DOMAIN k'.nval = Task /\ k'.nval = k.nval
    BY DEF Titles, IInv, Typed
  <2>2. DOMAIN pc' = Task /\ DOMAIN frame' = Task /\ DOMAIN left' = Task
    BY DEF IInv, Typed
  <2> QED BY <1>2, <1>3, <2>1, <2>2 DEF Others, Concerns
<1>5. Flat({k.cur}) BY <1>1, <1>3, <1>4 DEF Flat, AsWas, Titles
<1>6. Allowed(from, to) BY <1>2 DEF Allowed
<1>7. ASSUME NEW c \in Task, c = k.cur PROVE Task1(c)'
  <2>1. Task1(c) BY DEF IInv
  <2>2. InCall(c)' BY <1>2, <1>7 DEF InCall, Locations, GoesOn
  <2>3. pc'[c] \in Passing BY <1>2, <1>7 DEF Passing, GoesOn
  <2>4. Stays(k, k', c) /\ k'.wake[c] = k.wake[c] /\ k'.nstate[c] = k.nstate[c]
    BY <1>3 DEF AsWas
  <2>5. k'.nval[c] = k.nval[c] BY DEF Titles
  <2> QED BY <1>7, <2>1, <2>2, <2>3, <2>4, <2>5, PassedOn
<1> QED BY <1>5, <1>6, <1>7, FlatStep
LEMMA SuspendResetKeeps ==
  ASSUME IInv, SuspendReset, UNCHANGED systicks
  PROVE  IInv'
<1> DEFINE to == IF Here.thread = k.cur THEN "yield" ELSE "user"
<1>1. Good(k) /\ k.cur \in Task BY CurrentTask
<1>2. /\ ~k.pendsv /\ pc[k.cur] = "suspended" /\ pc' = [pc EXCEPT ![k.cur] = to]
      /\ k' = ResetUnblock(k) /\ program' = program /\ frame' = frame /\ left' = left
  BY DEF SuspendReset, Moves, Same
<1>3. /\ Good(k') /\ Titles(k, k') /\ Clock(k, k') /\ SwitchesAs(k, k') /\ k'.missed = k.missed
      /\ k'.events = k.events /\ Concerns(k, k', {})
  BY <1>1, <1>2, AlarmSet
<1>4. IsReady(k, k.cur) \/ (k.susp = 0 /\ to = "yield")
  BY <1>2 DEF IInv, Turns, GoneToSleep, Here
<1>5. k.cur # IdleTask BY <1>2 DEF IInv, Turns
<1>6. to \in {"user", "yield"} OBVIOUS
<1>7. k.susp \in 0 .. MaxNesting BY DEF IInv, Counts1
<1>8. "suspended" \in Passing BY DEF Passing
<1> HIDE DEF to
<1> QED BY <1>2, <1>3, <1>4, <1>5, <1>6, <1>7, <1>8, QuietStep DEF Clock, SwitchesAs
LEMMA EnumerateKeeps ==
  ASSUME IInv, Enumerate, UNCHANGED systicks
  PROVE  IInv'
<1> DEFINE i == SuspendAll(k)
<1>1. Good(k) /\ k.cur \in Task /\ k.susp \in Nat BY CurrentTask
<1>2. /\ ~k.pendsv /\ pc[k.cur] = "user" /\ pc' = [pc EXCEPT ![k.cur] = "listed"]
      /\ k' = AfterEnumeration(i) /\ program' = program /\ frame' = frame /\ left' = left
      /\ k.susp < MaxNesting /\ k.cur # IdleTask
  <2>1. PICK c : c \in Calls("osThreadEnumerate") BY DEF Enumerate
  <2>2. k.cur # IdleTask BY <2>1, Programmed
  <2> QED BY <2>2 DEF Enumerate, Moves, Same
<1>3. Undisturbed(i) /\ i.susp = k.susp + 1 /\ i.pendsv = k.pendsv BY Calmly
<1> HIDE DEF i
<1>4. Good(i) /\ Concerns(k, i, {}) BY <1>1, <1>3, GoodAs, ConcernsAs DEF Undisturbed, Routine
<1>5. /\ Good(k') /\ Titles(i, k') /\ Clock(i, k') /\ SwitchesAs(i, k') /\ k'.missed = i.missed
      /\ k'.events = i.events /\ Concerns(i, k', {})
  BY <1>2, <1>4, RingsTurned
<1>6. Concerns(k, k', {}) BY <1>4, <1>5, ConcernsMore
<1>7. /\ Titles(k, k') /\ k'.cur = k.cur /\ k'.tick = k.tick /\ k'.pended = k.pended
      /\ k'.missed = k.missed /\ k'.events = k.events /\ k'.pendsv = k.pendsv
      /\ k'.susp = k.susp + 1
  BY <1>3, <1>5 DEF Titles, Clock, SwitchesAs, Undisturbed, ListsAs, Routine
<1>8. k'.susp \in 0 .. MaxNesting /\ k'.susp > 0 BY <1>1, <1>2, <1>7, KernelAssumption
<1>9. IsReady(k, k.cur) BY <1>2, RunningReady
<1>10. "user" \in Passing BY DEF Passing
<1> QED BY <1>2, <1>5, <1>6, <1>7, <1>8, <1>9, <1>10, QuietStep

(* Nothing happens any more.                                                 *)
LEMMA Stutter ==
  ASSUME IInv, UNCHANGED vars
  PROVE  IInv'
<1>1. k' = k /\ pc' = pc /\ frame' = frame /\ program' = program /\ left' = left /\ systicks' = systicks
  BY DEF vars
<1>2. Typed' BY <1>1 DEF IInv, Typed
<1>3. Turns' BY <1>1 DEF IInv, Turns, GoneToSleep
<1>4. Counts1' BY <1>1 DEF IInv, Counts1
<1>5. ASSUME NEW t \in Task PROVE Task1(t)'
  <2>1. Task1(t) BY DEF IInv
  <2>2. Untouched(t) BY <1>1 DEF Untouched, AsWas, Stays
  <2> QED BY <2>1, <2>2, UntouchedTask
<1> QED BY <1>2, <1>3, <1>4, <1>5 DEF IInv
LEMMA AssertFailedKeeps ==
  ASSUME IInv, AssertFailed, UNCHANGED <<left, systicks>>
  PROVE  IInv'
BY Stutter DEF AssertFailed, schedVars, vars

(* A failed assertion stops the running task where it is.                    *)
LEMMA NotifyAssertsKeeps ==
  ASSUME IInv, NotifyAsserts, UNCHANGED systicks
  PROVE  IInv'
<1>1. k.cur \in Task /\ Good(k) /\ k.prio \in [Task -> Levels] BY CurrentTask
<1>2. /\ pc' = [pc EXCEPT ![k.cur] = "asserted"] /\ k' = k /\ frame' = frame
      /\ program' = program /\ left' = left /\ ~Halted
  BY DEF NotifyAsserts, Halted
<1>3. pc'[k.cur] = "asserted" /\ DOMAIN pc' = Task /\ \A t \in Task \ {k.cur} : pc'[t] = pc[t]
  BY <1>1, <1>2 DEF IInv, Typed
<1>4. \A t : AsWas(k, k', t) BY <1>2 DEF AsWas, Stays
<1>5. Others({k.cur}) BY <1>1, <1>2, <1>3, <1>4 DEF Others, Concerns, IInv, Typed
<1>6. Turns' BY <1>1, <1>2, <1>3, CurrentTask DEF IInv, Turns, GoneToSleep
<1>7. Books BY <1>2 DEF Books, IInv, Counts1
<1>8. ASSUME NEW c \in Task, c = k.cur PROVE Task1(c)'
  <2>1. Task1(c) BY DEF IInv
  <2>2. InCall(c)' BY <1>3, <1>8 DEF InCall, Locations
  <2>3. Alive(c)' <=> Alive(c) BY <1>2 DEF Alive, Sleeping
  <2>4. Notified(c)' BY <1>2, <1>3, <1>8, <2>1, <2>3 DEF Notified, Task1
  <2>5. pc[c] \in {"until", "untilPlace"} => left[c] \in -MaxLate .. MaxDelay /\ ~Dozes(k, c)
    <3>1. CASE pc[c] \in {"until", "untilPlace"}
      <4>1. frame[c].n \in 1 .. (TickRange \div 2) - 1 /\ frame[c].prev \in Ticks
        BY <2>1, <3>1 DEF Task1, InCall
      <4>2. k.tick - frame[c].prev \in Int BY <4>1, CurrentTask DEF Ticks
      <4>3. Since(c) \in Ticks BY <4>2, Spent DEF Since
      <4>4. left[c] = IF frame[c].n - Since(c) < -MaxLate THEN -MaxLate ELSE frame[c].n - Since(c)
        BY <2>1, <3>1 DEF Task1, Remains
      <4>5. ~Dozes(k, c) BY <2>1, <3>1 DEF Task1, Remains
      <4> DEFINE s == Since(c)
      <4>6. s \in 0 .. TickRange - 1 BY <4>3 DEF Ticks
      <4> HIDE DEF s
      <4>7. left[c] = IF frame[c].n - s < -MaxLate THEN -MaxLate ELSE frame[c].n - s
        BY <4>4 DEF s
      <4>8. TickRange \in Nat \ {0, 1} /\ MaxLate \in Nat \ {0}
        BY TaskListsAssumption, KernelAssumption
      <4>9. left[c] \in -MaxLate .. MaxDelay BY <4>1, <4>6, <4>7, <4>8 DEF MaxDelay
      <4> QED BY <4>5, <4>9
    <3> QED BY <3>1
  <2>6. pc[c] \notin {"until", "untilPlace", "asserted"} =>
          \/ Dozes(k, c) /\ ~Pend(k, c) /\ left[c] \in 1 .. MaxDelay
                          /\ left[c] = (k.wake[c] - k.tick) % TickRange
          \/ ~(Dozes(k, c) /\ ~Pend(k, c)) /\ (left[c] = 0 \/ left[c] \in -MaxLate .. 0)
    BY <2>1 DEF Task1, Remains
  <2>7. 0 \in -MaxLate .. MaxDelay /\ -MaxLate .. 0 \subseteq -MaxLate .. MaxDelay
    BY TaskListsAssumption, KernelAssumption DEF MaxDelay
  <2>8. pc[c] # "asserted" BY <1>2, <1>8 DEF Halted
  <2>9. Remains(c)' BY <1>2, <1>3, <1>8, <2>5, <2>6, <2>7, <2>8 DEF Remains
  <2> QED BY <2>2, <2>4, <2>9 DEF Task1
<1>9. \A t \in Task \cap {k.cur} : Task1(t)' /\ (InAList(k', t) <=> InAList(k, t))
  BY <1>2, <1>8
<1> QED BY <1>2, <1>5, <1>6, <1>7, <1>9, Carried

-----------------------------------------------------------------------------
(* Time passes.  A sum and a difference of ticks in normal form.             *)
LEMMA TicksAdd ==
  ASSUME NEW a \in Ticks, NEW c \in 0 .. MaxDelay
  PROVE  (a + c) % TickRange = IF a + c < TickRange THEN a + c ELSE a + c - TickRange
<1>0. TickRange \in Nat \ {0, 1} /\ a \in 0 .. TickRange - 1 /\ c \in 0 .. TickRange - 1
  BY TaskListsAssumption DEF Ticks, MaxDelay
<1>1. CASE a + c < TickRange
  <2>1. a + c = 0 * TickRange + (a + c) /\ a + c \in 0 .. TickRange - 1 BY <1>0, <1>1
  <2>2. (a + c) % TickRange = a + c BY <2>1, <1>0, Residue
  <2> QED BY <1>1, <2>2
<1>2. CASE ~(a + c < TickRange)
  <2>1. /\ a + c = 1 * TickRange + (a + c - TickRange)
        /\ a + c - TickRange \in 0 .. TickRange - 1 /\ a + c \in Int
    BY <1>0, <1>2
  <2>2. (a + c) % TickRange = a + c - TickRange BY <2>1, <1>0, Residue
  <2> QED BY <1>2, <2>2
<1> QED BY <1>1, <1>2
LEMMA TicksLess ==
  ASSUME NEW a \in Ticks, NEW b \in Ticks
  PROVE  (a - b) % TickRange = IF a < b THEN a - b + TickRange ELSE a - b
<1>0. TickRange \in Nat \ {0, 1} /\ a \in 0 .. TickRange - 1 /\ b \in 0 .. TickRange - 1
  BY TaskListsAssumption DEF Ticks
<1>1. CASE ~(a < b)
  <2>1. a - b = 0 * TickRange + (a - b) /\ a - b \in 0 .. TickRange - 1 BY <1>0, <1>1
  <2>2. (a - b) % TickRange = a - b BY <2>1, <1>0, Residue
  <2> QED BY <1>1, <2>2
<1>2. CASE a < b
  <2>1. /\ a - b = (-1) * TickRange + (a - b + TickRange) /\ -1 \in Int
        /\ a - b + TickRange \in 0 .. TickRange - 1 /\ a - b \in Int
    BY <1>0, <1>2
  <2>2. (a - b) % TickRange = a - b + TickRange BY <2>1, <1>0, Residue
  <2> QED BY <1>2, <2>2
<1> QED BY <1>1, <1>2
(* c ticks later, s ticks since a tick in the past are s + c, and d ticks    *)
(* until a tick to come are d - c.                                           *)
LEMMA TicksLater ==
  ASSUME NEW now \in Ticks, NEW then \in Ticks, NEW other \in Ticks, NEW c \in 0 .. MaxDelay,
         then = (now + c) % TickRange
  PROVE  /\ (then - now) % TickRange = c
         /\ LET s == (now - other) % TickRange
            IN s + c < TickRange => (then - other) % TickRange = s + c
         /\ LET d == (other - now) % TickRange
            IN c < d => (other - then) % TickRange = d - c
<1>0. /\ TickRange \in Nat \ {0, 1} /\ now \in 0 .. TickRange - 1 /\ then \in 0 .. TickRange - 1
      /\ other \in 0 .. TickRange - 1 /\ c \in 0 .. TickRange - 1
  BY TaskListsAssumption DEF Ticks, MaxDelay
<1>1. then = IF now + c < TickRange THEN now + c ELSE now + c - TickRange BY TicksAdd
<1>2. (then - now) % TickRange = IF then < now THEN then - now + TickRange ELSE then - now BY TicksLess
<1>3. (now - other) % TickRange = IF now < other THEN now - other + TickRange ELSE now - other BY TicksLess
<1>4. (then - other) % TickRange = IF then < other THEN then - other + TickRange ELSE then - other BY TicksLess
<1>5. (other - now) % TickRange = IF other < now THEN other - now + TickRange ELSE other - now BY TicksLess
<1>6. (other - then) % TickRange = IF other < then THEN other - then + TickRange ELSE other - then BY TicksLess
<1>7. (then - now) % TickRange = c BY <1>0, <1>1, <1>2
<1>8. ((now - other) % TickRange) + c < TickRange =>
        (then - other) % TickRange = ((now - other) % TickRange) + c
  BY <1>0, <1>1, <1>3, <1>4
<1>9. c < (other - now) % TickRange =>
        (other - then) % TickRange = ((other - now) % TickRange) - c
  BY <1>0, <1>1, <1>5, <1>6
<1> QED BY <1>7, <1>8, <1>9
(* The tick that is d ticks away is that tick.                               *)
LEMMA TickAway ==
  ASSUME NEW now \in Ticks, NEW wake \in Ticks, NEW m \in 1 .. MaxDelay
  PROVE  (wake - now) % TickRange = m <=> wake = (now + m) % TickRange
<1>0. /\ TickRange \in Nat \ {0, 1} /\ now \in 0 .. TickRange - 1 /\ wake \in 0 .. TickRange - 1
      /\ m \in 1 .. TickRange - 1 /\ m \in 0 .. MaxDelay
  BY TaskListsAssumption DEF Ticks, MaxDelay
<1>1. (now + m) % TickRange = IF now + m < TickRange THEN now + m ELSE now + m - TickRange
  BY <1>0, TicksAdd
<1>2. (wake - now) % TickRange = IF wake < now THEN wake - now + TickRange ELSE wake - now BY TicksLess
<1> QED BY <1>0, <1>1, <1>2
LEMMA Greater ==
  ASSUME NEW a \in Int, NEW b \in Int
  PROVE  Max({a, b}) = IF a < b THEN b ELSE a
<1> DEFINE m == IF a < b THEN b ELSE a
<1>1. m \in {a, b} /\ m >= a /\ m >= b OBVIOUS
<1>2. \A x \in {a, b} : (\A y \in {a, b} : x >= y) => x = m OBVIOUS
<1> HIDE DEF m
<1>3. Max({a, b}) = m BY <1>1, <1>2 DEF Max
<1> QED BY <1>3 DEF m

(* What is left of a task's wait when the tick has moved by c.               *)
Elapses(t, c) ==
  /\ k'.tick = (k.tick + c) % TickRange /\ left'[t] = Max({Floor(t), left[t] - c})
  /\ \/ pc'[t] = pc[t] /\ frame'[t] = frame[t]
     \/ pc[t] \in {"resume", "user", "listed"} /\ pc'[t] \in {"user", "yield"}
  /\ pc[t] \in {"until", "untilPlace"} => Since(t) + c + k'.pended <= frame[t].n + MaxLate + MaxPended
  /\ Dozes(k', t) => Dozes(k, t) /\ k'.wake[t] = k.wake[t]
  /\ Dozes(k', t) /\ ~Pend(k', t) =>
       ~Pend(k, t) /\ \A m \in 1 .. c : k.wake[t] # (k.tick + m) % TickRange
  /\ Dozes(k, t) /\ ~Pend(k, t) =>
       (Dozes(k', t) /\ ~Pend(k', t)) \/ \E m \in 1 .. c : k.wake[t] = (k.tick + m) % TickRange
LEMMA TimePasses ==
  ASSUME NEW t \in Task, Task1(t), pc[t] # "asserted", k.tick \in Ticks, k'.tick \in Ticks,
         k.wake[t] \in Ticks, NEW c \in 0 .. MaxPended, Elapses(t, c), k'.pended \in Nat
  PROVE  Remains(t)'
<1>0. /\ TickRange \in Nat \ {0, 1} /\ MaxLate \in Nat \ {0} /\ MaxPended \in Nat
      /\ MaxLate + MaxPended <= TickRange \div 2 /\ c \in Nat
  BY TaskListsAssumption, KernelAssumption
<1>1. c \in 0 .. MaxDelay BY <1>0 DEF MaxDelay
<1>2. CASE pc[t] \in {"until", "untilPlace"}
  <2>1. pc'[t] = pc[t] /\ frame'[t] = frame[t] BY <1>2 DEF Elapses
  <2>2. frame[t].prev \in Ticks /\ frame[t].n \in 1 .. (TickRange \div 2) - 1
    BY <1>2 DEF Task1, InCall
  <2> DEFINE s == Since(t)
             n == frame[t].n
  <2>3. s \in Ticks
    <3>1. k.tick - frame[t].prev \in Int BY <2>2 DEF Ticks
    <3> QED BY <3>1, Spent DEF Since
  <2>4. s + c + k'.pended <= n + MaxLate + MaxPended BY <1>2 DEF Elapses
  <2>5. s + c < TickRange
    <3>1. s \in Nat /\ n \in 1 .. (TickRange \div 2) - 1 BY <2>2, <2>3 DEF Ticks
    <3> HIDE DEF s, n
    <3> QED BY <1>0, <2>4, <3>1
  <2>6. Since(t)' = s + c
    <3>1. Since(t)' = (k'.tick - frame[t].prev) % TickRange BY <2>1 DEF Since
    <3>2. k'.tick = (k.tick + c) % TickRange BY DEF Elapses
    <3> QED BY <1>1, <2>2, <2>5, <3>1, <3>2, TicksLater DEF Since
  <2>7. left[t] = IF n - s < -MaxLate THEN -MaxLate ELSE n - s
    BY <1>2 DEF Task1, Remains
  <2>8. left'[t] = Max({-MaxLate, left[t] - c}) BY <1>2 DEF Elapses, Floor
  <2>9. n \in Int /\ s \in Int BY <2>2, <2>3 DEF Ticks
  <2> HIDE DEF s, n
  <2>10. left'[t] = IF n - (s + c) < -MaxLate THEN -MaxLate ELSE n - (s + c)
    <3>1. -MaxLate \in Int /\ left[t] - c \in Int BY <1>0, <2>7, <2>9
    <3>2. left'[t] = IF -MaxLate < left[t] - c THEN left[t] - c ELSE -MaxLate BY <2>8, <3>1, Greater
    <3> QED BY <1>0, <2>7, <2>9, <3>2
  <2>11. ~Dozes(k', t) BY <1>2 DEF Elapses, Task1, Remains
  <2> QED BY <1>2, <2>1, <2>4, <2>6, <2>10, <2>11 DEF Remains, n
<1>3. CASE pc[t] \notin {"until", "untilPlace"}
  <2>1. pc'[t] \notin {"until", "untilPlace"} BY <1>3 DEF Elapses
  <2>2. left'[t] = Max({0, left[t] - c}) BY <1>3 DEF Elapses, Floor
  <2> DEFINE d == (k.wake[t] - k.tick) % TickRange
  <2>3. CASE Dozes(k, t) /\ ~Pend(k, t)
    <3>1. left[t] = d /\ d \in 1 .. MaxDelay BY <1>3, <2>3 DEF Task1, Remains
    <3> HIDE DEF d
    <3>2. left'[t] = IF 0 < d - c THEN d - c ELSE 0
      <4>1. d - c \in Int BY <1>0, <3>1
      <4> QED BY <2>2, <3>1, <4>1, Greater
    <3>3. CASE c < d
      <4>1. \A m \in 1 .. c : k.wake[t] # (k.tick + m) % TickRange
        <5>1. \A m \in 1 .. c : m \in 1 .. MaxDelay /\ m # d BY <1>0, <1>1, <3>1, <3>3 DEF MaxDelay
        <5> QED BY <5>1, TickAway DEF d
      <4>2. Dozes(k', t) /\ ~Pend(k', t) /\ k'.wake[t] = k.wake[t] BY <2>3, <4>1 DEF Elapses
      <4>3. (k'.wake[t] - k'.tick) % TickRange = d - c
        <5>1. k'.tick = (k.tick + c) % TickRange BY DEF Elapses
        <5> QED BY <1>1, <3>3, <4>2, <5>1, TicksLater DEF d
      <4>4. left'[t] = d - c /\ d - c \in 1 .. MaxDelay BY <1>0, <3>1, <3>2, <3>3 DEF MaxDelay
      <4> QED BY <2>1, <4>2, <4>3, <4>4 DEF Remains
    <3>4. CASE ~(c < d)
      <4>1. d \in 1 .. c BY <1>0, <3>1, <3>4
      <4>2. k.wake[t] = (k.tick + d) % TickRange BY <3>1, TickAway DEF d
      <4>3. ~(Dozes(k', t) /\ ~Pend(k', t)) BY <4>1, <4>2 DEF Elapses
      <4>4. left'[t] = 0 BY <1>0, <3>1, <3>2, <3>4
      <4> QED BY <2>1, <4>3, <4>4 DEF Remains
    <3> QED BY <3>3, <3>4
  <2>4. CASE ~(Dozes(k, t) /\ ~Pend(k, t))
    <3>1. left[t] \in -MaxLate .. 0 /\ left[t] \in Int
      BY <1>0, <1>3, <2>4 DEF Task1, Remains
    <3>2. left'[t] = 0
      <4>1. left[t] - c \in Int /\ ~(0 < left[t] - c) BY <1>0, <3>1
      <4> QED BY <2>2, <4>1, Greater
    <3>3. ~(Dozes(k', t) /\ ~Pend(k', t)) BY <2>4 DEF Elapses
    <3> QED BY <2>1, <3>2, <3>3 DEF Remains
  <2> QED BY <2>3, <2>4
<1> QED BY <1>2, <1>3

(* The reference keeps count.                                                *)
LEMMA AgedFields ==
  ASSUME k.tick \in Ticks, NEW c \in 0 .. MaxDelay, k'.tick = (k.tick + c) % TickRange, left' = Aged
  PROVE  DOMAIN left' = Task /\ \A t \in Task : left'[t] = Max({Floor(t), left[t] - c})
<1>1. k'.tick \in Ticks
  <2>1. k.tick + c \in Int BY TaskListsAssumption DEF Ticks, MaxDelay
  <2> QED BY <2>1, Spent
<1>2. Counted = c BY <1>1, TicksLater DEF Counted
<1> QED BY <1>2 DEF Aged
LEMMA AgedNone ==
  ASSUME IInv, pc[k.cur] \notin {"resume", "asserted"}, k'.tick = k.tick, left' = Aged
  PROVE  DOMAIN left' = Task /\ \A t \in Task : left'[t] = left[t]
<1>0. TickRange \in Nat \ {0, 1} /\ MaxLate \in Nat \ {0} BY TaskListsAssumption, KernelAssumption
<1>1. k.tick \in Ticks BY CurrentTask
<1>2. k'.tick = (k.tick + 0) % TickRange /\ 0 \in 0 .. MaxDelay
  <2>1. 0 \in 0 .. MaxDelay BY <1>0 DEF MaxDelay
  <2>2. k.tick + 0 = k.tick /\ k.tick < TickRange BY <1>1, <1>0 DEF Ticks
  <2> QED BY <1>1, <2>1, <2>2, TicksAdd
<1>3. DOMAIN left' = Task /\ \A t \in Task : left'[t] = Max({Floor(t), left[t] - 0})
  BY <1>1, <1>2, AgedFields
<1>4. ASSUME NEW t \in Task PROVE left[t] \in Int /\ Floor(t) \in Int /\ Floor(t) <= left[t]
  <2>1. Task1(t) BY DEF IInv
  <2>2. CASE pc[t] \in {"until", "untilPlace"}
    <3>1. left[t] = IF frame[t].n - Since(t) < -MaxLate THEN -MaxLate ELSE frame[t].n - Since(t)
      BY <2>1, <2>2 DEF Task1, Remains
    <3>2. frame[t].prev \in Ticks /\ frame[t].n \in 1 .. (TickRange \div 2) - 1
      BY <2>1, <2>2 DEF Task1, InCall
    <3>3. Since(t) \in Int
      <4>1. k.tick - frame[t].prev \in Int BY <1>1, <3>2 DEF Ticks
      <4> QED BY <4>1, Spent DEF Since, Ticks
    <3>4. frame[t].n \in Int BY <3>2
    <3>5. Floor(t) = -MaxLate BY <2>2 DEF Floor
    <3> DEFINE n == frame[t].n
               s == Since(t)
    <3> HIDE DEF n, s
    <3>6. left[t] = IF n - s < -MaxLate THEN -MaxLate ELSE n - s BY <3>1 DEF n, s
    <3>7. n \in Int /\ s \in Int BY <3>3, <3>4 DEF n, s
    <3> QED BY <1>0, <3>5, <3>6, <3>7
  <2>3. CASE pc[t] \notin {"until", "untilPlace"}
    <3>1. pc[t] \notin {"resume", "asserted"} BY DEF IInv, Turns
    <3>2. left[t] = 0 \/ left[t] \in 1 .. MaxDelay BY <2>1, <2>3, <3>1 DEF Task1, Remains
    <3> QED BY <1>0, <2>3, <3>2 DEF Floor, MaxDelay
  <2> QED BY <2>2, <2>3
<1>5. ASSUME NEW t \in Task PROVE left'[t] = left[t]
  <2>1. left[t] - 0 = left[t] BY <1>4
  <2>2. Max({Floor(t), left[t]}) = IF Floor(t) < left[t] THEN left[t] ELSE Floor(t) BY <1>4, Greater
  <2>3. Max({Floor(t), left[t]}) = left[t] BY <1>4, <2>2
  <2> QED BY <1>3, <2>1, <2>3
<1> QED BY <1>3, <1>5

(* xTaskResumeAll: a nested suspension only ends.                            *)
LEMMA NestedStep ==
  ASSUME IInv, NEW from \in {"user", "listed"}, k.susp > 1, Moves(from, "user", ResumeAll(k)),
         left' = Aged, UNCHANGED <<frame, systicks>>
  PROVE  IInv'
<1>1. k.cur \in Task /\ Good(k) /\ k.susp \in Nat /\ k.pendsv \in BOOLEAN BY CurrentTask
<1>2. /\ ListsAs(k, k') /\ Routine(k, k') /\ k'.susp = k.susp - 1
      /\ k'.pended = k.pended /\ k'.missed = k.missed /\ k'.pendsv = k.pendsv
  BY <1>1, ResumedNested DEF Moves
<1>3. Undisturbed(k') BY <1>1, <1>2 DEF Undisturbed
<1>4. pc[k.cur] = from BY DEF Moves
<1>5. DOMAIN left' = Task /\ \A t \in Task : left'[t] = left[t]
  BY <1>2, <1>4, AgedNone DEF ListsAs
<1>6. k'.susp \in 0 .. MaxNesting /\ k'.susp # 0
  BY <1>1, <1>2, KernelAssumption DEF IInv, Counts1
<1>7. OwnBut(from, "user")
  BY <1>1, <1>2, <1>5, <1>6 DEF OwnBut, Moves, Routine, IInv, Typed
<1>8. \A t \in Task : t = k.cur => InCall(t)'
  BY <1>1 DEF Moves, InCall, Locations, IInv, Typed
<1>9. from \in Passing /\ "user" \in Passing BY DEF Passing
<1> QED BY <1>1, <1>3, <1>5, <1>7, <1>8, <1>9, OwnPassing

(* The scheduler runs again: the tasks left pending are ready, the ticks     *)
(* held back are made up for.                                                *)
Resumes(from, to) ==
  /\ k.susp = 1 /\ Moves(from, to, ResumeAll(k)) /\ left' = Aged
  /\ from \in {"resume", "user", "listed"} /\ to \in {"user", "yield"}
  /\ from = "resume" => to = "yield" \/ k'.missed
  /\ from # "resume" => to = "user"
  /\ DOMAIN frame' = Task /\ \A t \in Task \ {k.cur} : frame'[t] = frame[t]
LEMMA ResumedTask ==
  ASSUME IInv, NEW from, NEW to, Resumes(from, to), NEW t \in Task
  PROVE  Task1(t)' /\ (InAList(k', t) <=> InAList(k, t))
<1>1. /\ k.cur \in Task /\ Good(k) /\ Task1(t) /\ k.tick \in Ticks /\ k.missed \in BOOLEAN
      /\ k.pended \in 0 .. MaxPended /\ k.pended \in Nat
  BY CurrentTask DEF IInv, Counts1
<1>2. Resumed(k, k') BY <1>1, ResumedAll DEF Resumes, Moves
<1>3. /\ ~k.pendsv /\ pc[k.cur] = from /\ pc' = [pc EXCEPT ![k.cur] = to] /\ program' = program
  BY DEF Resumes, Moves
<1>4. pc'[k.cur] = to /\ \A u \in Task \ {k.cur} : pc'[u] = pc[u]
  BY <1>1, <1>3 DEF IInv, Typed
<1>5. /\ k'.nstate = k.nstate /\ k'.nval = k.nval /\ k'.pended = 0
      /\ k'.tick = (k.tick + k.pended) % TickRange /\ Good(k')
  BY <1>2 DEF Resumed, Routine
<1>6. ~Pend(k', t)
  <2>1. k'.events["pending"] = <<>> BY <1>2 DEF Resumed, IInv, Counts1
  <2> QED BY <2>1 DEF Pend, Contains
<1>7. k'.tick \in Ticks BY <1>5 DEF Good, OnTime, TimedFrom
<1>8. k.wake[t] \in Ticks BY <1>1 DEF Good, OnTime, TimedFrom
<1>9. InCall(t)'
  <2>1. CASE t = k.cur BY <1>4, <2>1 DEF InCall, Locations, Resumes
  <2>2. CASE t # k.cur BY <1>1, <1>4, <2>2 DEF InCall, Task1, Resumes, IsWait
  <2> QED BY <2>1, <2>2
<1>10. /\ IsReady(k, t) \/ Pend(k, t) => IsReady(k', t)
       /\ IsReady(k', t) => IsReady(k, t) \/ Pend(k, t) \/ Dozes(k, t)
       /\ Dozes(k', t) <=> SleepsOn(k, k.pended, t) /\ ~Pend(k, t)
       /\ Dozes(k, t) => Dozes(k', t) \/ IsReady(k', t)
       /\ Contains(k'.dead, t) <=> Contains(k.dead, t) /\ ~Pend(k, t)
       /\ t \in k'.suspended <=> t \in k.suspended /\ ~Pend(k, t)
       /\ ~IsReady(k', t) => k'.wake[t] = k.wake[t]
  BY <1>2 DEF Resumed
<1>11. Pend(k, t) => Alive(t) BY <1>1 DEF Task1, Notified
<1>12. Alive(t) => Alive(t)' BY <1>10 DEF Alive, Sleeping, Dozes
<1>13. Suspendable' = Suspendable BY <1>3 DEF Suspendable
<1>14. t = k.cur => k.nstate[t] # "waiting"
  BY <1>1, <1>3 DEF Task1, Notified, Resumes
<1>15. Notified(t)'
  <2>1. CASE t = k.cur BY <1>1, <1>4, <1>5, <1>6, <1>14, <2>1 DEF Notified, Task1, Resumes
  <2>2. CASE t # k.cur
    BY <1>1, <1>4, <1>5, <1>6, <1>10, <1>12, <1>13, <2>2 DEF Notified, Task1
  <2> QED BY <2>1, <2>2
<1>16. IsReady(k', t) => ~Dozes(k', t)
  BY <1>5 DEF Good, Single, Elsewhere, Dozes
<1>17. k.pended \in 0 .. MaxDelay
  BY <1>1, TaskListsAssumption, KernelAssumption DEF MaxDelay
<1>18. left'[t] = Max({Floor(t), left[t] - k.pended})
  BY <1>1, <1>5, <1>17, AgedFields DEF Resumes
<1>19. pc[t] # "asserted"
  BY <1>3 DEF IInv, Turns, Resumes
<1>20. Elapses(t, k.pended)
  <2>1. \/ pc'[t] = pc[t] /\ frame'[t] = frame[t]
        \/ pc[t] \in {"resume", "user", "listed"} /\ pc'[t] \in {"user", "yield"}
    BY <1>3, <1>4 DEF Resumes
  <2>2. pc[t] \in {"until", "untilPlace"} =>
          Since(t) + k.pended + k'.pended <= frame[t].n + MaxLate + MaxPended
    <3>1. CASE pc[t] \in {"until", "untilPlace"}
      <4>1. Since(t) + k.pended <= frame[t].n + MaxLate + MaxPended BY <1>1, <3>1 DEF Task1, Remains
      <4>2. Since(t) \in Int
        <5>1. frame[t].prev \in Ticks BY <1>1, <3>1 DEF Task1, InCall
        <5>2. k.tick - frame[t].prev \in Int BY <1>1, <5>1 DEF Ticks
        <5> QED BY <5>2, Spent DEF Since, Ticks
      <4>3. Since(t) + k.pended + 0 = Since(t) + k.pended BY <1>1, <4>2
      <4> QED BY <1>5, <4>1, <4>3
    <3> QED BY <3>1
  <2>3. Dozes(k', t) => Dozes(k, t) /\ k'.wake[t] = k.wake[t]
    BY <1>10, <1>16 DEF SleepsOn
  <2>4. Dozes(k', t) /\ ~Pend(k', t) =>
          ~Pend(k, t) /\ \A m \in 1 .. k.pended : k.wake[t] # (k.tick + m) % TickRange
    BY <1>10 DEF SleepsOn
  <2>5. Dozes(k, t) /\ ~Pend(k, t) =>
          \/ Dozes(k', t) /\ ~Pend(k', t)
          \/ \E m \in 1 .. k.pended : k.wake[t] = (k.tick + m) % TickRange
    BY <1>6, <1>10 DEF SleepsOn
  <2> QED BY <1>5, <1>18, <2>1, <2>2, <2>3, <2>4, <2>5 DEF Elapses
<1>21. Remains(t)' BY <1>1, <1>5, <1>7, <1>8, <1>19, <1>20, TimePasses
<1>22. InAList(k', t) <=> InAList(k, t)
  BY <1>10, <1>11 DEF InAList, Elsewhere, Dozes, Alive, Sleeping, SleepsOn
<1> QED BY <1>9, <1>15, <1>21, <1>22 DEF Task1
LEMMA ResumedStep ==
  ASSUME IInv, NEW from, NEW to, Resumes(from, to), UNCHANGED systicks
  PROVE  IInv'
<1>1. /\ k.cur \in Task /\ Good(k) /\ k.tick \in Ticks /\ k.missed \in BOOLEAN /\ k.pendsv \in BOOLEAN
      /\ k.pended \in 0 .. MaxPended /\ k.pended \in Nat /\ k.prio \in [Task -> Levels] /\ IdleTask \in Task
  BY CurrentTask DEF IInv, Counts1
<1>2. Resumed(k, k') BY <1>1, ResumedAll DEF Resumes, Moves
<1>3. /\ ~k.pendsv /\ pc[k.cur] = from /\ pc' = [pc EXCEPT ![k.cur] = to] /\ program' = program
      /\ from # "asserted"
  BY DEF Resumes, Moves
<1>4. \A t \in Task : Task1(t)' /\ (InAList(k', t) <=> InAList(k, t)) BY ResumedTask
<1>5. /\ k'.cur = k.cur /\ k'.number = k.number /\ k'.prio = k.prio /\ k'.nstate = k.nstate
      /\ k'.nval = k.nval /\ k'.susp = 0 /\ k'.pended = 0 /\ Good(k')
      /\ k'.tick = (k.tick + k.pended) % TickRange
      /\ k'.missed \in BOOLEAN /\ k'.pendsv = k'.missed /\ (k.missed => k'.missed)
      /\ k'.events["pending"] = <<>>
  BY <1>2, <1>3 DEF Resumed, Routine, IInv, Counts1
<1>6. GoesOn(from, to) BY <1>3, Going
<1>7. IsReady(k, k.cur) \/ from = "resume"
  BY <1>3, RunningReady DEF Resumes
<1>8. \A u \in Task : /\ IsReady(k, u) => IsReady(k', u)
                      /\ IsReady(k', u) /\ ~IsReady(k, u) /\ k.prio[u] >= k.prio[k.cur] => k'.missed
  BY <1>2 DEF Resumed
<1>9. Fair(from, to)
  <2>1. ASSUME NEW u \in Task, IsReady(k', u)
        PROVE  \/ k'.pendsv \/ to = "yield" \/ k'.prio[u] <= k'.prio[k.cur]
               \/ IsReady(k, u) /\ k'.prio[u] = k.prio[u] /\ k.prio[k.cur] <= k'.prio[k.cur]
    <3>1. k.prio[u] \in Int /\ k.prio[k.cur] \in Int BY <1>1 DEF Levels
    <3>2. k.prio[u] >= k.prio[k.cur] \/ k.prio[u] <= k.prio[k.cur] BY <3>1
    <3>3. k.prio[k.cur] <= k.prio[k.cur] BY <3>1
    <3> QED BY <1>5, <1>8, <2>1, <3>2, <3>3
  <2>2. ~Pend(k', k.cur) BY <1>5 DEF Pend, Contains
  <2>3. IsReady(k', IdleTask) BY <1>1, <1>8 DEF IInv, Turns
  <2>4. k.cur = IdleTask => to = "user"
    BY <1>3 DEF IInv, Turns, Resumes
  <2>5. IsReady(k', k.cur) \/ (k'.susp = 0 /\ (k'.pendsv \/ to = "yield"))
    BY <1>1, <1>5, <1>7, <1>8 DEF Resumes
  <2>6. from # "yield" /\ to \in {"user", "yield"} BY DEF Resumes
  <2> QED BY <1>1, <1>5, <2>1, <2>2, <2>3, <2>4, <2>5, <2>6 DEF Fair
<1>10. Turns' BY <1>6, <1>9, <1>3, TurnsKept
<1>11. Typed'
  <2>1. DOMAIN pc' = Task BY <1>3 DEF IInv, Typed
  <2>2. DOMAIN left' = Task BY DEF Resumes, Aged
  <2> QED BY <1>3, <1>5, <2>1, <2>2 DEF Typed, IInv, Resumes
<1>12. {t \in Task : InAList(k', t)} = {t \in Task : InAList(k, t)} BY <1>4
<1>13. (k'.tick + k'.pended) % TickRange = systicks'
  <2>1. k'.tick = systicks /\ systicks \in Ticks BY <1>5 DEF IInv, Counts1
  <2>2. k'.tick + 0 = k'.tick /\ k'.tick < TickRange /\ 0 \in 0 .. MaxDelay
    BY <2>1, TaskListsAssumption DEF Ticks, MaxDelay
  <2>3. (k'.tick + 0) % TickRange = k'.tick BY <2>1, <2>2, TicksAdd
  <2> QED BY <1>5, <2>1, <2>3
<1>14. Counts1'
  <2>1. 0 \in 0 .. MaxPended /\ 0 \in 0 .. MaxNesting BY KernelAssumption
  <2>2. IsInjective(k'.events["pending"]) BY <1>5 DEF IsInjective
  <2> QED BY <1>3, <1>5, <1>12, <1>13, <2>1, <2>2 DEF Counts1, IInv
<1> QED BY <1>4, <1>10, <1>11, <1>14 DEF IInv

LEMMA ResumeKeeps ==
  ASSUME IInv, Resume, UNCHANGED systicks
  PROVE  IInv'
<1> DEFINE to == IF AlreadyYielded(k) THEN "user" ELSE "yield"
<1>1. Moves("resume", to, ResumeAll(k)) /\ left' = Aged /\ Leave BY DEF Resume
<1>2. k.susp = 1 BY <1>1 DEF Moves, IInv, Turns
<1>3. to = "yield" \/ k'.missed BY <1>1 DEF AlreadyYielded, Moves
<1>4. to \in {"user", "yield"} OBVIOUS
<1>5. DOMAIN frame' = Task /\ \A t \in Task \ {k.cur} : frame'[t] = frame[t]
  BY <1>1 DEF Leave, IInv, Typed
<1> HIDE DEF to
<1>6. Resumes("resume", to) BY <1>1, <1>2, <1>3, <1>4, <1>5 DEF Resumes
<1> QED BY <1>6, ResumedStep
LEMMA UnlockStep ==
  ASSUME IInv, NEW from \in {"user", "listed"}, k.susp # 0, Moves(from, "user", ResumeAll(k)),
         left' = Aged, UNCHANGED <<frame, systicks>>
  PROVE  IInv'
<1>1. k.susp = 1 \/ k.susp > 1 BY CurrentTask
<1>2. CASE k.susp = 1
  <2>1. Resumes(from, "user") BY <1>2 DEF Resumes, IInv, Typed
  <2> QED BY <2>1, ResumedStep
<1> QED BY <1>1, <1>2, NestedStep
LEMMA KernelUnlockKeeps ==
  ASSUME IInv, KernelUnlock, UNCHANGED systicks
  PROVE  IInv'
<1>1. k.susp # 0 BY DEF KernelUnlock, SchedulerState
<1> QED BY <1>1, UnlockStep DEF KernelUnlock
LEMMA KernelRestoreLockKeeps ==
  ASSUME IInv, KernelRestoreLock, UNCHANGED systicks
  PROVE  IInv'
<1>1. PICK c \in Calls("osKernelRestoreLock") :
        /\ IF c.lock THEN k.susp < MaxNesting ELSE k.susp > 0
        /\ Moves("user", "user", IF c.lock THEN SuspendAll(k) ELSE ResumeAll(k))
        /\ left' = Aged /\ UNCHANGED frame
  BY DEF KernelRestoreLock
<1>2. CASE c.lock
  <2>1. Moves("user", "user", SuspendAll(k)) /\ k.susp < MaxNesting BY <1>1, <1>2
  <2>2. k'.tick = k.tick /\ pc[k.cur] = "user"
    BY <2>1, Calmly DEF Moves, Undisturbed, ListsAs
  <2>3. DOMAIN left' = Task /\ \A t \in Task : left'[t] = left[t] BY <1>1, <2>2, AgedNone
  <2> QED BY <1>1, <2>1, <2>3, LockKeeps
<1>3. CASE ~c.lock
  <2>1. k.susp # 0 BY <1>1, <1>3, CurrentTask
  <2>2. Moves("user", "user", ResumeAll(k)) BY <1>1, <1>3
  <2> QED BY <1>1, <2>1, <2>2, UnlockStep
<1> QED BY <1>2, <1>3
LEMMA ListedKeeps ==
  ASSUME IInv, Listed, UNCHANGED systicks
  PROVE  IInv'
<1>1. Moves("listed", "user", ResumeAll(k)) /\ left' = Aged /\ UNCHANGED frame BY DEF Listed
<1>2. k.susp # 0 BY <1>1, CurrentTask DEF Moves, IInv, Turns
<1> QED BY <1>1, <1>2, UnlockStep

(* The tick interrupt: the tick moves, or is counted for later.              *)
Ticked(c) ==
  /\ Good(k') /\ Disturbs
  /\ k'.tick = (k.tick + c) % TickRange /\ k'.pended + c = k.pended + 1 /\ k'.pended \in 0 .. MaxPended
  /\ k'.number = k.number /\ k'.nstate = k.nstate /\ k'.nval = k.nval
  /\ k'.missed \in BOOLEAN /\ k'.pendsv \in BOOLEAN
  /\ k'.susp = 0 => k'.pended = 0 /\ k'.events["pending"] = <<>>
  /\ IsInjective(k'.events["pending"])
  /\ \A t \in Task :
       /\ IsReady(k', t) => IsReady(k, t) \/ Dozes(k, t)
       /\ Dozes(k', t) <=> Dozes(k, t) /\ \A m \in 1 .. c : k.wake[t] # (k.tick + m) % TickRange
       /\ Dozes(k, t) => Dozes(k', t) \/ IsReady(k', t)
       /\ Dozes(k', t) => k'.wake[t] = k.wake[t]
       /\ Contains(k'.dead, t) <=> Contains(k.dead, t)
       /\ t \in k'.suspended <=> t \in k.suspended
       /\ Pend(k', t) <=> Pend(k, t)
LEMMA TickStep ==
  ASSUME IInv, KernelTick, NEW c \in {0, 1}, Ticked(c)
  PROVE  IInv'
<1>0. /\ TickRange \in Nat \ {0, 1} /\ MaxLate \in Nat \ {0} /\ MaxPended \in Nat
      /\ MaxLate + MaxPended <= TickRange \div 2 /\ c \in Nat
  BY TaskListsAssumption, KernelAssumption
<1>1. /\ k.cur \in Task /\ Good(k) /\ k.tick \in Ticks /\ k.pended \in 0 .. MaxPended /\ k.pended \in Nat
      /\ k.pended < MaxPended
  BY CurrentTask DEF IInv, Counts1, KernelTick, SysTick
<1>2. /\ pc' = pc /\ frame' = frame /\ program' = program /\ ~Halted /\ left' = Aged
      /\ \A t \in Task : Floor(t) < 0 => left[t] > -MaxLate
  BY DEF KernelTick, SysTick
<1>3. k'.pended \in Nat /\ c \in 0 .. MaxPended /\ c \in 0 .. MaxDelay
  BY <1>0, <1>1 DEF Ticked, MaxDelay
<1>4. DOMAIN left' = Task /\ \A t \in Task : left'[t] = Max({Floor(t), left[t] - c})
  BY <1>1, <1>2, <1>3, AgedFields DEF Ticked
<1>5. ASSUME NEW t \in Task PROVE Task1(t)' /\ (InAList(k', t) <=> InAList(k, t))
  <2>1. Task1(t) BY DEF IInv
  <2>2. /\ IsReady(k, t) => IsReady(k', t)
        /\ IsReady(k', t) => IsReady(k, t) \/ Dozes(k, t)
        /\ Dozes(k', t) <=> Dozes(k, t) /\ \A m \in 1 .. c : k.wake[t] # (k.tick + m) % TickRange
        /\ Dozes(k, t) => Dozes(k', t) \/ IsReady(k', t)
        /\ Dozes(k', t) => k'.wake[t] = k.wake[t]
        /\ Contains(k'.dead, t) <=> Contains(k.dead, t)
        /\ t \in k'.suspended <=> t \in k.suspended
        /\ Pend(k', t) <=> Pend(k, t)
        /\ k'.nstate = k.nstate /\ k'.nval = k.nval /\ k'.tick = (k.tick + c) % TickRange
    BY DEF Ticked, Disturbs
  <2>3. InCall(t)' BY <1>2, <2>1 DEF Task1, InCall, IsWait
  <2>4. Alive(t) => Alive(t)' BY <2>2 DEF Alive, Sleeping, Dozes
  <2>5. Suspendable' = Suspendable BY <1>2 DEF Suspendable
  <2>6. Notified(t)' BY <1>2, <2>1, <2>2, <2>4, <2>5 DEF Task1, Notified
  <2>7. InAList(k', t) <=> InAList(k, t)
    BY <2>2 DEF InAList, Elsewhere, Dozes
  <2>8. pc[t] # "asserted" BY <1>2 DEF IInv, Turns, Halted
  <2>9. pc[t] \in {"until", "untilPlace"} =>
          Since(t) + c + k'.pended <= frame[t].n + MaxLate + MaxPended
    <3>1. CASE pc[t] \in {"until", "untilPlace"}
      <4>1. frame[t].prev \in Ticks /\ frame[t].n \in 1 .. (TickRange \div 2) - 1
        BY <2>1, <3>1 DEF Task1, InCall
      <4>2. Since(t) \in Int
        <5>1. k.tick - frame[t].prev \in Int BY <1>1, <4>1 DEF Ticks
        <5> QED BY <5>1, Spent DEF Since, Ticks
      <4>3. left[t] = IF frame[t].n - Since(t) < -MaxLate THEN -MaxLate ELSE frame[t].n - Since(t)
        BY <2>1, <3>1 DEF Task1, Remains
      <4>4. Floor(t) = -MaxLate BY <3>1 DEF Floor
      <4>5. left[t] > -MaxLate
        <5>1. Floor(t) < 0 BY <1>0, <4>4
        <5> QED BY <1>2, <5>1
      <4>6. frame[t].n \in Int BY <4>1
      <4>7. k'.pended + c = k.pended + 1 BY DEF Ticked
      <4> DEFINE n == frame[t].n
                 s == Since(t)
      <4>8. n \in Int /\ s \in Int BY <4>2, <4>6
      <4>9. left[t] = IF n - s < -MaxLate THEN -MaxLate ELSE n - s BY <4>3
      <4> HIDE DEF n, s
      <4>10. n - s > -MaxLate BY <1>0, <4>5, <4>8, <4>9
      <4>11. s + c + k'.pended <= n + MaxLate + MaxPended
        BY <1>0, <1>1, <1>3, <4>7, <4>8, <4>10
      <4> QED BY <4>11 DEF n, s
    <3> QED BY <3>1
  <2>10. Elapses(t, c) BY <1>2, <1>4, <2>2, <2>9 DEF Elapses
  <2>11. k'.tick \in Ticks BY DEF Ticked, Good, OnTime, TimedFrom
  <2>12. k.wake[t] \in Ticks BY <1>1 DEF Good, OnTime, TimedFrom
  <2>13. Remains(t)' BY <1>1, <1>3, <2>1, <2>8, <2>10, <2>11, <2>12, TimePasses
  <2> QED BY <2>3, <2>6, <2>7, <2>13 DEF Task1
<1>6. Turns' BY DisturbsKeeps DEF Ticked
<1>7. Typed' BY <1>2, <1>4 DEF Typed, IInv, Ticked
<1>8. {t \in Task : InAList(k', t)} = {t \in Task : InAList(k, t)} BY <1>5
<1>9. systicks' \in Ticks /\ (k'.tick + k'.pended) % TickRange = systicks'
  <2>1. systicks' = (systicks + 1) % TickRange BY DEF KernelTick
  <2>2. systicks = (k.tick + k.pended) % TickRange /\ systicks \in Ticks BY DEF IInv, Counts1
  <2>3. \A a, b \in Int : ((a % TickRange) + b) % TickRange = (a + b) % TickRange BY <1>0, ModAdd
  <2>4. k.tick \in Int /\ k.tick + k.pended \in Int /\ k.tick + c \in Int
    BY <1>0, <1>1 DEF Ticks
  <2>5. systicks' = (k.tick + k.pended + 1) % TickRange BY <2>1, <2>2, <2>3, <2>4
  <2>6. (k'.tick + k'.pended) % TickRange = (k.tick + c + k'.pended) % TickRange
    <3>1. k'.tick = (k.tick + c) % TickRange BY DEF Ticked
    <3>2. k'.pended \in Int BY <1>3
    <3> QED BY <2>3, <2>4, <3>1, <3>2
  <2>7. k.tick + c + k'.pended = k.tick + k.pended + 1
    <3>1. k'.pended + c = k.pended + 1 BY DEF Ticked
    <3> QED BY <1>0, <1>1, <1>3, <2>4, <3>1
  <2>8. systicks' \in Ticks
    <3>1. systicks + 1 \in Int BY <1>0, <2>2 DEF Ticks
    <3> QED BY <2>1, <3>1, Spent
  <2> QED BY <2>5, <2>6, <2>7, <2>8
<1>10. Counts1' BY <1>8, <1>9 DEF Counts1, IInv, Ticked, Disturbs
<1> QED BY <1>5, <1>6, <1>7, <1>10 DEF IInv
LEMMA TickHeldBack ==
  ASSUME IInv, KernelTick, k.susp > 0
  PROVE  Ticked(0)
<1> DEFINE i == [k EXCEPT !.pended = k.pended + 1]
           j == [i EXCEPT !.pendsv = FALSE]
<1>1. /\ k.cur \in Task /\ Good(k) /\ k.tick \in Ticks /\ DOMAIN k = Fields
      /\ k.pended \in 0 .. MaxPended /\ k.pended < MaxPended /\ MaxPended \in Nat /\ ~k.pendsv
      /\ k.missed \in BOOLEAN /\ k.susp \in Nat
  BY CurrentTask, KernelAssumption DEF IInv, Counts1, KernelTick, SysTick
<1>2. k' = j /\ pc' = pc /\ frame' = frame
  <2>1. IncrementTick(k) = [kernel |-> i, switch |-> FALSE] BY DEF IncrementTick
  <2> HIDE DEF i
  <2> QED BY <2>1 DEF KernelTick, SysTick
<1>3. /\ ListsAs(k, i) /\ Routine(k, i) /\ i.susp = k.susp /\ i.pended = k.pended + 1
      /\ i.missed = k.missed /\ i.pendsv = k.pendsv
  BY <1>1, PendedFields
<1> HIDE DEF i
<1>4. /\ ListsAs(i, j) /\ Routine(i, j) /\ j.susp = i.susp /\ j.pended = i.pended
      /\ j.missed = i.missed /\ j.pendsv = FALSE
  <2>1. DOMAIN i = Fields BY <1>3 DEF ListsAs
  <2> QED BY <2>1, PendsvFields
<1> HIDE DEF j
<1>5. /\ ListsAs(k, k') /\ Routine(k, k') /\ k'.susp = k.susp /\ k'.pended = k.pended + 1
      /\ k'.missed = k.missed /\ k'.pendsv = FALSE
  BY <1>2, <1>3, <1>4 DEF ListsAs, SameLists, Routine
<1>6. Good(k') /\ \A t : /\ IsReady(k', t) <=> IsReady(k, t)
                         /\ Dozes(k', t) <=> Dozes(k, t)
  BY <1>1, <1>5, GoodAs
<1>7. k'.tick = (k.tick + 0) % TickRange
  <2>1. k.tick + 0 = k.tick /\ k.tick < TickRange /\ 0 \in 0 .. MaxDelay
    BY <1>1, TaskListsAssumption DEF Ticks, MaxDelay
  <2>2. (k.tick + 0) % TickRange = k.tick BY <1>1, <2>1, TicksAdd
  <2> QED BY <1>5, <2>2 DEF ListsAs
<1>8. k'.pended + 0 = k.pended + 1 /\ k'.pended \in 0 .. MaxPended /\ 1 .. 0 = {}
  BY <1>1, <1>5
<1>9. ~Pend(k', k.cur) BY <1>5 DEF Pend, ListsAs, IInv, Turns
<1>10. Disturbs
  BY <1>1, <1>2, <1>5, <1>6, <1>9 DEF Disturbs, ListsAs, SameLists, Routine, IInv, Turns
<1>11. \A t \in Task : Contains(k'.dead, t) <=> Contains(k.dead, t) BY <1>5 DEF ListsAs, SameLists
<1>12. \A t \in Task : /\ t \in k'.suspended <=> t \in k.suspended
                       /\ Pend(k', t) <=> Pend(k, t)
                       /\ k'.wake[t] = k.wake[t]
  BY <1>5 DEF ListsAs, SameLists, Pend
<1>13. IsInjective(k'.events["pending"]) BY <1>5 DEF ListsAs, IInv, Counts1
<1>14. k'.susp # 0 BY <1>1, <1>5
<1>15. /\ k'.number = k.number /\ k'.nstate = k.nstate /\ k'.nval = k.nval
       /\ k'.missed \in BOOLEAN /\ k'.pendsv \in BOOLEAN
  BY <1>1, <1>5 DEF Routine
<1>16. \A t \in Task : \A m \in 1 .. 0 : k.wake[t] # (k.tick + m) % TickRange BY <1>8
<1>17. ASSUME NEW t \in Task
       PROVE  /\ IsReady(k', t) => IsReady(k, t) \/ Dozes(k, t)
              /\ Dozes(k', t) <=> Dozes(k, t) /\ \A m \in 1 .. 0 : k.wake[t] # (k.tick + m) % TickRange
              /\ Dozes(k, t) => Dozes(k', t) \/ IsReady(k', t)
              /\ Dozes(k', t) => k'.wake[t] = k.wake[t]
              /\ Contains(k'.dead, t) <=> Contains(k.dead, t)
              /\ t \in k'.suspended <=> t \in k.suspended
              /\ Pend(k', t) <=> Pend(k, t)
  <2>1. (IsReady(k', t) <=> IsReady(k, t)) /\ (Dozes(k', t) <=> Dozes(k, t)) BY <1>6
  <2>2. k'.wake[t] = k.wake[t] BY <1>12
  <2>3. \A m \in 1 .. 0 : k.wake[t] # (k.tick + m) % TickRange BY <1>16
  <2>4. (t \in k'.suspended <=> t \in k.suspended) /\ (Pend(k', t) <=> Pend(k, t)) BY <1>12
  <2> QED BY <1>11, <2>1, <2>2, <2>3, <2>4, Zenon
<1> QED BY <1>6, <1>7, <1>8, <1>10, <1>13, <1>14, <1>15, <1>17, Zenon DEF Ticked
LEMMA TickMoves ==
  ASSUME IInv, KernelTick, ~(k.susp > 0)
  PROVE  Ticked(1)
<1> DEFINE i == IncrementTick(k).kernel
           b == IncrementTick(k).switch
           D == DueAt(k, NextTick(k))
           j == [i EXCEPT !.pendsv = b]
<1>1. /\ k.cur \in Task /\ Good(k) /\ k.tick \in Ticks /\ ~k.pendsv
      /\ k.missed \in BOOLEAN /\ k.susp = 0 /\ k.prio \in [Task -> Levels]
      /\ k.pended = 0 /\ k.events["pending"] = <<>> /\ MaxPended \in Nat
  BY CurrentTask, KernelAssumption DEF IInv, Counts1, KernelTick, SysTick
<1>2. k' = j /\ pc' = pc /\ frame' = frame BY DEF KernelTick, SysTick
<1>3. /\ Lapsed(k, i, D) /\ i.tick = NextTick(k) /\ OnTime(i) /\ b \in BOOLEAN
      /\ AsUrgent(k, D) \/ k.missed => b
  BY <1>1, TickCounted
<1> HIDE DEF i, b
<1>4. DOMAIN i = Fields /\ Good(i) BY <1>3 DEF Lapsed, Sound, Shape, Good
<1>5. /\ ListsAs(i, j) /\ Routine(i, j) /\ j.susp = i.susp /\ j.pended = i.pended
      /\ j.missed = i.missed /\ j.pendsv = b
  BY <1>4, PendsvFields
<1> HIDE DEF j
<1>6. Good(k') /\ \A t : /\ IsReady(k', t) <=> IsReady(i, t)
                         /\ Dozes(k', t) <=> Dozes(i, t)
  BY <1>2, <1>4, <1>5, GoodAs
<1>7. /\ k'.cur = k.cur /\ k'.prio = k.prio /\ k'.number = k.number
      /\ k'.nstate = k.nstate /\ k'.nval = k.nval /\ k'.susp = k.susp /\ k'.pended = 0
      /\ k'.missed = k.missed /\ k'.pendsv = b /\ k'.tick = NextTick(k)
      /\ k'.events = i.events /\ k'.wake = i.wake /\ k'.dead = i.dead /\ k'.suspended = i.suspended
  BY <1>1, <1>2, <1>3, <1>5 DEF Lapsed, Routine, SwitchesAs, ListsAs, SameLists
<1>8. \A u : ~Pend(k', u)
  <2>1. \A u : ~Pend(k, u) BY <1>1 DEF Pend, Contains
  <2> QED BY <1>3, <1>7, <2>1 DEF Lapsed, Struck, Pend
<1>9. k'.events["pending"] = <<>>
  <2>1. k'.events["pending"] \in Seq(Task) BY <1>6 DEF Good, Sound, Shape
  <2> QED BY <1>8, <2>1, EmptyIfNothing DEF Pend
<1>10. \A m \in 1 .. 1 : m = 1 OBVIOUS
<1>11. \A u \in Task : u \in D <=> Dozes(k, u) /\ k.wake[u] = (k.tick + 1) % TickRange
  BY DEF DueAt, NextTick
<1> HIDE DEF D
<1>12. \A t \in Task :
         /\ IsReady(k', t) <=> t \in D \/ IsReady(k, t)
         /\ Dozes(k', t) <=> Dozes(k, t) /\ t \notin D
         /\ Contains(k'.dead, t) <=> Contains(k.dead, t)
         /\ t \in k'.suspended <=> t \in k.suspended
         /\ t \notin D => k'.wake[t] = k.wake[t]
  BY <1>3, <1>6, <1>7 DEF Lapsed
<1>13. Disturbs
  <2>1. ASSUME NEW u \in Task, IsReady(k', u)
        PROVE  IsReady(k, u) \/ k'.pendsv \/ k.prio[u] <= k.prio[k.cur]
    <3>1. k.prio[u] \in Int /\ k.prio[k.cur] \in Int BY <1>1 DEF Levels
    <3>2. u \in D /\ k.prio[u] >= k.prio[k.cur] => b BY <1>3 DEF AsUrgent
    <3> QED BY <1>7, <1>12, <2>1, <3>1, <3>2
  <2> QED BY <1>1, <1>2, <1>3, <1>7, <1>8, <1>12, <2>1 DEF Disturbs
<1>14. k'.tick = (k.tick + 1) % TickRange /\ k'.pended + 1 = k.pended + 1 /\ k'.pended \in 0 .. MaxPended
  BY <1>1, <1>7 DEF NextTick
<1>15. \A u : ~Pend(k, u) BY <1>1 DEF Pend, Contains
<1>16. IsInjective(k'.events["pending"]) BY <1>9 DEF IsInjective
<1>17. \A t \in Task :
         Dozes(k', t) <=> Dozes(k, t) /\ \A m \in 1 .. 1 : k.wake[t] # (k.tick + m) % TickRange
  BY <1>10, <1>11, <1>12
<1> QED BY <1>1, <1>3, <1>6, <1>7, <1>8, <1>9, <1>11, <1>12, <1>13, <1>14, <1>15, <1>16, <1>17 DEF Ticked
LEMMA KernelTickKeeps ==
  ASSUME IInv, KernelTick
  PROVE  IInv'
BY TickHeldBack, TickMoves, TickStep

(* PendSV: the most urgent task that is ready runs.                          *)
LEMMA PendSVKeeps ==
  ASSUME IInv, PendSV, UNCHANGED <<left, systicks>>
  PROVE  IInv'
<1> DEFINE i == [k EXCEPT !.pendsv = FALSE]
<1>1. /\ k.cur \in Task /\ Good(k) /\ DOMAIN k = Fields /\ IdleTask \in Task /\ k.susp \in Nat
      /\ k.missed \in BOOLEAN
  BY CurrentTask
<1>2. /\ k' = SwitchContext(i) /\ pc' = pc /\ frame' = frame /\ program' = program
      /\ left' = left /\ pc[k.cur] # "asserted"
  BY DEF PendSV, Halted
<1>3. /\ ListsAs(k, i) /\ Routine(k, i) /\ i.susp = k.susp /\ i.pended = k.pended
      /\ i.missed = k.missed /\ i.pendsv = FALSE
  BY <1>1, PendsvFields
<1> HIDE DEF i
<1>4. /\ Good(i) /\ Concerns(k, i, {}) /\ \A t : IsReady(i, t) <=> IsReady(k, t)
  BY <1>1, <1>3, GoodAs, ConcernsAs DEF Routine
<1>5. ASSUME /\ Good(k') /\ Concerns(i, k', {}) /\ Titles(i, k') /\ SwitchesAs(i, k')
             /\ k'.tick = i.tick /\ k'.events = i.events /\ k'.missed \in BOOLEAN /\ Turns'
      PROVE  IInv'
  <2>1. Concerns(k, k', {}) BY <1>4, <1>5, ConcernsMore
  <2>2. /\ k'.tick = k.tick /\ k'.pended = k.pended /\ k'.nstate = k.nstate /\ k'.nval = k.nval
        /\ k'.number = k.number /\ k'.susp = k.susp /\ k'.events = k.events /\ k'.pendsv = FALSE
    BY <1>3, <1>5 DEF ListsAs, Routine, Titles, SwitchesAs
  <2>3. Others({}) BY <1>2, <1>5, <2>1, <2>2 DEF Others, IInv, Typed
  <2>4. Books BY <1>5, <2>2 DEF Books, IInv, Counts1
  <2> QED BY <1>5, <2>2, <2>3, <2>4, Carried
<1>6. CASE k.susp > 0
  <2> DEFINE j == [i EXCEPT !.missed = TRUE]
  <2>1. k' = j BY <1>2, <1>3, <1>6 DEF SwitchContext
  <2>2. /\ ListsAs(i, j) /\ Routine(i, j) /\ j.susp = i.susp /\ j.pended = i.pended
        /\ j.missed = TRUE /\ j.pendsv = i.pendsv
    <3>1. DOMAIN i = Fields BY <1>3 DEF ListsAs
    <3> QED BY <3>1, JustMissedFields
  <2> HIDE DEF j
  <2>3. Good(k') /\ Concerns(i, k', {}) /\ \A t : IsReady(k', t) <=> IsReady(i, t)
    BY <1>4, <2>1, <2>2, GoodAs, ConcernsAs DEF Routine
  <2>4. Titles(i, k') /\ SwitchesAs(i, k') /\ k'.tick = i.tick /\ k'.events = i.events /\ k'.missed = TRUE
    BY <2>1, <2>2 DEF Titles, SwitchesAs, ListsAs, Routine
  <2>5. k'.cur = k.cur /\ k'.nstate = k.nstate /\ k'.susp = k.susp
    BY <1>3, <2>1, <2>2 DEF ListsAs, Routine
  <2>6. ~Pend(k', k'.cur) BY <1>3, <2>4, <2>5 DEF Pend, ListsAs, IInv, Turns
  <2>7. k.susp # 0 BY <1>1, <1>6
  <2>8. \A t : IsReady(k', t) <=> IsReady(k, t) BY <1>4, <2>3
  <2>10. k'.suspended = k.suspended BY <1>3, <2>1, <2>2 DEF ListsAs, SameLists
  <2>9. Turns' BY <1>1, <1>2, <1>6, <2>4, <2>5, <2>6, <2>7, <2>8, <2>10 DEF Turns, IInv, GoneToSleep
  <2> QED BY <1>5, <2>3, <2>4, <2>9
<1>7. CASE ~(k.susp > 0)
  <2>1. IsReady(i, IdleTask) BY <1>4 DEF IInv, Turns
  <2>2. Switched(i, k') BY <1>1, <1>2, <1>3, <1>4, <1>7, <2>1, SwitchedTo
  <2>3. k.susp = 0 BY <1>1, <1>7
  <2>4. k'.susp = 0 /\ k'.pendsv = FALSE /\ k'.missed = FALSE /\ k'.cur \in Task
    BY <1>3, <2>2, <2>3 DEF Switched, SwitchesAs, Good, Sound, Shape
  <2>5. k'.events["pending"] = <<>> BY <1>3, <2>2, <2>3 DEF Switched, ListsAs, IInv, Counts1
  <2>6. ~Pend(k', k'.cur) BY <2>5 DEF Pend, Contains
  <2>7. \A t \in Task : pc[t] \notin {"delay", "untilPlace", "resume", "listed", "asserted"}
    BY <1>2, <2>3 DEF IInv, Turns
  <2>8. IsReady(k', IdleTask) BY <1>1, <2>1, <2>2 DEF Switched, Concerns, AsWas, Stays
  <2>9. Turns'
    BY <1>2, <2>2, <2>4, <2>6, <2>7, <2>8 DEF Turns, IInv, Switched
  <2> QED BY <1>5, <2>2, <2>4, <2>9 DEF Switched
<1> QED BY <1>6, <1>7
-----------------------------------------------------------------------------
(* The running task does something to another.                               *)
LEMMA CarriedOn ==
  ASSUME IInv, NEW T, Others(T), UNCHANGED systicks, Turns', Books,
         \A t \in Task \cap T : Task1(t)', k'.number = Cardinality({t \in Task : InAList(k', t)})
  PROVE  IInv'
<1>1. \A t \in Task : Task1(t)' BY OthersKeep
<1>2. Counts1' BY DEF IInv, Counts1, Books, Others
<1>3. Typed' BY DEF IInv, Typed, Others
<1> QED BY <1>1, <1>2, <1>3 DEF IInv
LEMMA SameNumber ==
  ASSUME IInv, NEW u \in Task, Concerns(k, k', {u}), InAList(k', u) <=> InAList(k, u),
         k'.number = k.number
  PROVE  k'.number = Cardinality({t \in Task : InAList(k', t)})
<1>1. \A t \in Task \ {u} : InAList(k', t) <=> InAList(k, t)
  BY DEF Concerns, AsWas, Stays, InAList, Elsewhere, Dozes
<1>2. {t \in Task : InAList(k', t)} = {t \in Task : InAList(k, t)} BY <1>1
<1> QED BY <1>2 DEF IInv, Counts1
LEMMA OneMore ==
  ASSUME IInv, NEW u \in Task, Concerns(k, k', {u}), InAList(k', u), ~InAList(k, u),
         k'.number = k.number + 1
  PROVE  k'.number = Cardinality({t \in Task : InAList(k', t)})
<1> DEFINE A == {t \in Task : InAList(k, t)}
<1>1. \A t \in Task \ {u} : InAList(k', t) <=> InAList(k, t)
  BY DEF Concerns, AsWas, Stays, InAList, Elsewhere, Dozes
<1>2. {t \in Task : InAList(k', t)} = A \cup {u} BY <1>1
<1>3. IsFiniteSet(A) /\ u \notin A BY KernelAssumption, FS_Subset
<1>4. Cardinality(A \cup {u}) = Cardinality(A) + 1 BY <1>3, FS_AddElement
<1> QED BY <1>2, <1>4 DEF IInv, Counts1
LEMMA OneLess ==
  ASSUME IInv, NEW u \in Task, Concerns(k, k', {u}), InAList(k, u), ~InAList(k', u),
         k'.number = k.number - 1
  PROVE  k'.number = Cardinality({t \in Task : InAList(k', t)})
<1> DEFINE A == {t \in Task : InAList(k, t)}
<1>1. \A t \in Task \ {u} : InAList(k', t) <=> InAList(k, t)
  BY DEF Concerns, AsWas, Stays, InAList, Elsewhere, Dozes
<1>2. {t \in Task : InAList(k', t)} = A \ {u} BY <1>1
<1>3. IsFiniteSet(A) /\ u \in A BY KernelAssumption, FS_Subset
<1>4. Cardinality(A \ {u}) = Cardinality(A) - 1 BY <1>3, FS_RemoveElement
<1> QED BY <1>2, <1>4 DEF IInv, Counts1

(* A task whose priority, or whose place among the deleted, has changed.     *)
LEMMA StillSo ==
  ASSUME NEW t \in Task, Task1(t), k'.tick = k.tick, k'.pended = k.pended, program' = program,
         pc'[t] = pc[t], frame'[t] = frame[t], left'[t] = left[t],
         k'.nstate[t] = k.nstate[t], k'.nval[t] = k.nval[t],
         IsReady(k', t) <=> IsReady(k, t), Dozes(k', t) <=> Dozes(k, t),
         t \in k'.suspended <=> t \in k.suspended, Pend(k', t) <=> Pend(k, t),
         Dozes(k, t) => k'.wake[t] = k.wake[t]
  PROVE  Task1(t)'
<1>1. InCall(t)' BY DEF Task1, InCall, IsWait
<1>2. Alive(t)' <=> Alive(t) BY DEF Alive, Sleeping, Dozes
<1>3. Suspendable' = Suspendable BY DEF Suspendable
<1>4. Notified(t)' BY <1>2, <1>3 DEF Task1, Notified
<1>5. Since(t)' = Since(t) BY DEF Since
<1>6. Remains(t)' BY <1>5 DEF Task1, Remains
<1> QED BY <1>1, <1>4, <1>6 DEF Task1

(* A task that no tick wakes is readied, or will be.                         *)
LEMMA Revived ==
  ASSUME NEW t \in Task, Task1(t), pc[t] \notin {"untilPlace", "resume", "asserted"},
         k'.tick = k.tick, k'.pended = k.pended, program' = program,
         pc'[t] = pc[t], frame'[t] = frame[t], left'[t] = left[t],
         k'.nstate[t] = k.nstate[t], k'.nval[t] = k.nval[t],
         ~Dozes(k, t), ~Dozes(k', t), IsReady(k', t) \/ (t \in k'.suspended /\ Pend(k', t))
  PROVE  Task1(t)'
<1>1. InCall(t)' BY DEF Task1, InCall, IsWait
<1>2. Alive(t)' BY DEF Alive
<1>4. Notified(t)' BY <1>2 DEF Task1, Notified
<1>5. Since(t)' = Since(t) BY DEF Since
<1>6. Remains(t)' BY <1>5 DEF Task1, Remains
<1> QED BY <1>1, <1>4, <1>6 DEF Task1

(* The running task, to whom only its program counter happens.               *)
ActsOn(u, to) ==
  /\ u \in Task /\ u # k.cur
  /\ ~k.pendsv /\ pc[k.cur] = "user" /\ to \in {"user", "suspended", "yield"}
  /\ DOMAIN pc' = Task /\ pc'[k.cur] = to /\ pc'[u] \in {pc[u], "user"}
  /\ \A t \in Task \ {k.cur, u} : pc'[t] = pc[t]
  /\ program' = program /\ systicks' = systicks
  /\ DOMAIN frame' = Task /\ \A t \in Task \ {k.cur, u} : frame'[t] = frame[t]
  /\ DOMAIN left' = Task /\ \A t \in Task \ {u} : left'[t] = left[t]
  /\ Good(k') /\ Concerns(k, k', {u}) /\ k'.cur = k.cur
  /\ k'.tick = k.tick /\ k'.pended = k.pended /\ k'.susp = k.susp
  /\ k'.missed = k.missed /\ k'.pendsv \in BOOLEAN
  /\ DOMAIN k'.nstate = Task /\ DOMAIN k'.nval = Task /\ \A t \in Task \ {u} : k'.nval[t] = k.nval[t]
  /\ IsInjective(k'.events["pending"]) /\ (k.susp = 0 => k'.events["pending"] = <<>>)
  /\ (u = IdleTask => IsReady(k', u)) /\ (k.cur = IdleTask => to = "user")
  /\ IsReady(k', u) => \/ k'.pendsv \/ to = "yield" \/ k'.prio[u] <= k.prio[k.cur]
                       \/ IsReady(k, u) /\ (k'.prio[u] = k.prio[u] \/ k'.prio[u] < k.prio[u])
  /\ k'.number = Cardinality({t \in Task : InAList(k', t)})
LEMMA ActingStep ==
  ASSUME IInv, NEW u, NEW to, ActsOn(u, to), Task1(u)'
  PROVE  IInv'
<1>1. /\ k.cur \in Task /\ Task1(k.cur) /\ k.prio \in [Task -> Levels] /\ IdleTask \in Task
      /\ u \in Task /\ u # k.cur /\ k.susp \in Nat /\ k.missed \in BOOLEAN
  BY CurrentTask DEF ActsOn
<1> DEFINE T == {k.cur, u}
<1>2. /\ Good(k') /\ Concerns(k, k', {u}) /\ k'.cur = k.cur
      /\ k'.tick = k.tick /\ k'.pended = k.pended /\ k'.susp = k.susp /\ k'.missed = k.missed
      /\ ~k.pendsv /\ pc[k.cur] = "user" /\ pc'[k.cur] = to /\ to \in {"user", "suspended", "yield"}
      /\ left'[k.cur] = left[k.cur] /\ k'.nval[k.cur] = k.nval[k.cur]
  BY <1>1 DEF ActsOn
<1>3. Concerns(k, k', T) BY <1>2 DEF Concerns
<1>4. Others(T) BY <1>3 DEF Others, ActsOn
<1>5. AsWas(k, k', k.cur) BY <1>1, <1>2 DEF Concerns
<1>6. \A t \in Task : t = k.cur => InCall(t)' BY <1>2 DEF InCall, Locations
<1>7. \A t \in Task \cap T : Task1(t)'
  <2>1. \A t \in Task : t = k.cur => Task1(t)' BY <1>1, <1>2, <1>5, <1>6, PassedOn DEF AsWas, Passing
  <2> QED BY <1>1, <2>1
<1>8. GoesOn("user", to) BY DEF GoesOn, ActsOn
<1>9. IsReady(k, k.cur) /\ ~Pend(k, k.cur) BY <1>2, RunningReady
<1>10. Fair("user", to)
  <2>1. IsReady(k', k.cur) /\ ~Pend(k', k.cur) /\ k'.prio[k.cur] = k.prio[k.cur]
    BY <1>5, <1>9 DEF AsWas, Stays
  <2>2. IsReady(k', IdleTask)
    <3>1. IsReady(k, IdleTask) BY DEF IInv, Turns
    <3>2. IdleTask # u => IsReady(k', IdleTask) BY <1>1, <1>2, <3>1 DEF Concerns, AsWas, Stays
    <3> QED BY <3>2 DEF ActsOn
  <2>3. k'.missed => k'.susp > 0 \/ k'.pendsv BY <1>2 DEF IInv, Turns
  <2>4. k.prio[k.cur] \in Int BY <1>1 DEF Levels
  <2>5. ASSUME NEW t \in Task, IsReady(k', t)
        PROVE  \/ k'.pendsv \/ to = "yield" \/ k'.prio[t] <= k'.prio[k.cur]
               \/ /\ IsReady(k, t) /\ k.prio[k.cur] <= k'.prio[k.cur]
                  /\ k'.prio[t] = k.prio[t] \/ k'.prio[t] < k.prio[t]
    <3>1. CASE t = u BY <2>1, <2>4, <2>5, <3>1 DEF ActsOn
    <3>2. CASE t # u
      <4>1. IsReady(k, t) /\ k'.prio[t] = k.prio[t] BY <1>2, <2>5, <3>2 DEF Concerns, AsWas, Stays
      <4> QED BY <2>1, <2>4, <4>1
    <3> QED BY <3>1, <3>2
  <2>6. k'.prio \in [Task -> Levels] BY <1>2 DEF Good, Sound, Shape
  <2>7. /\ to \notin {"delay", "untilPlace", "resume"} /\ to # "listed" /\ to # "query" /\ to # "resume"
        /\ to \notin {"until", "wait", "take", "count"} /\ "user" # "yield"
    BY <1>2
  <2>8. (k.cur = IdleTask => to = "user") /\ (k.missed => k'.missed) BY <1>2 DEF ActsOn
  <2>9. \A t \in Task : IsReady(k', t) =>
          \/ k'.pendsv \/ to = "yield" \/ k'.prio[t] <= k'.prio[k.cur]
          \/ /\ IsReady(k, t) /\ k.prio[k.cur] <= k'.prio[k.cur]
             /\ k'.prio[t] = k.prio[t] \/ k'.prio[t] < k.prio[t]
    BY <2>5
  <2> QED BY <1>2, <2>1, <2>2, <2>3, <2>6, <2>7, <2>8, <2>9, Zenon DEF Fair
<1>11. Turns' BY <1>8, <1>10, TurnsKept
<1>12. Books BY <1>2 DEF Books, ActsOn, IInv, Counts1
<1> QED BY <1>4, <1>7, <1>11, <1>12, CarriedOn DEF ActsOn

-----------------------------------------------------------------------------
(* Threads: suspended, resumed, given a priority, created and deleted.       *)
LEMMA OffFacts ==
  ASSUME IInv, NEW u \in Task
  PROVE  LET j == Off(u)
         IN /\ Good(j) /\ Kept(k, j) /\ ~InAList(j, u) /\ Concerns(k, j, {u}) /\ ~Pend(j, u)
            /\ IsInjective(j.events["pending"]) /\ (k.susp = 0 => j.events["pending"] = <<>>)
            /\ DOMAIN j = Fields
<1> DEFINE j == Off(u)
<1>1. Good(k) BY CurrentTask
<1>2. /\ Good(j) /\ Kept(k, j) /\ ~InAList(j, u) /\ Concerns(k, j, {u})
      /\ j.events["pending"] = RemoveFirst(k.events["pending"], u)
  BY <1>1, TakenOff DEF Off
<1>3. k.events["pending"] \in Seq(Task) BY <1>1 DEF Good, Sound, Shape
<1>4. IsInjective(k.events["pending"]) BY DEF IInv, Counts1
<1> HIDE DEF j
<1>5. IsInjective(j.events["pending"]) /\ ~Pend(j, u) BY <1>2, <1>3, <1>4, Removed DEF Pend
<1>6. k.susp = 0 => j.events["pending"] = <<>>
  <2>1. SUFFICES ASSUME k.susp = 0 PROVE j.events["pending"] = <<>> OBVIOUS
  <2>2. k.events["pending"] = <<>> BY <2>1 DEF IInv, Counts1
  <2>3. ~Contains(k.events["pending"], u) BY <2>2 DEF Contains
  <2>4. RemoveFirst(k.events["pending"], u) = k.events["pending"] BY <1>3, <2>3, Removed
  <2> QED BY <1>2, <2>2, <2>4
<1>7. DOMAIN j = Fields BY <1>2 DEF Good, Sound, Shape
<1> QED BY <1>2, <1>5, <1>6, <1>7 DEF j

(* vTaskSuspend.                                                             *)
Stopped(j, u) ==
  /\ Good(j) /\ Concerns(k, j, {u}) /\ ~IsReady(j, u) /\ ~Dozes(j, u) /\ u \in j.suspended
  /\ ~Pend(j, u) /\ Clock(k, j) /\ SwitchesAs(k, j) /\ j.missed = k.missed /\ j.number = k.number
  /\ j.prio = k.prio /\ j.nval = k.nval /\ DOMAIN j.nstate = Task
  /\ j.nstate[u] = (IF k.nstate[u] = "waiting" THEN "no" ELSE k.nstate[u])
  /\ IsInjective(j.events["pending"]) /\ (k.susp = 0 => j.events["pending"] = <<>>)
LEMMA PutFields ==
  ASSUME NEW i, DOMAIN i = Fields, NEW u
  PROVE  LET j == ForGood(i, u)
             s == IF i.nstate[u] = "waiting" THEN "no" ELSE i.nstate[u]
         IN Put(i, u) = [j EXCEPT !.nstate[u] = s] /\ DOMAIN j = Fields
BY DEF Put, ForGood, Fields
LEMMA PutAway ==
  ASSUME IInv, NEW u \in Task
  PROVE  Stopped(Put(Off(u), u), u)
<1> DEFINE i == Off(u)
           h == ForGood(i, u)
           s == IF i.nstate[u] = "waiting" THEN "no" ELSE i.nstate[u]
           j == Put(i, u)
<1>1. /\ Good(i) /\ Kept(k, i) /\ ~InAList(i, u) /\ Concerns(k, i, {u}) /\ ~Pend(i, u)
      /\ IsInjective(i.events["pending"]) /\ (k.susp = 0 => i.events["pending"] = <<>>)
      /\ DOMAIN i = Fields
  BY OffFacts
<1>2. LaidDown(i, h, u) /\ ~Dozes(h, u) /\ u \in h.suspended
  BY <1>1, SleepsForEver
<1>3. j = [h EXCEPT !.nstate[u] = s] /\ DOMAIN h = Fields
  BY <1>1, PutFields
<1> HIDE DEF i, h, j
<1>4. /\ Good(h) /\ Moved(i, h, u) /\ ~IsReady(h, u) /\ Routine(i, h) /\ SwitchesAs(i, h)
      /\ h.missed = i.missed /\ h.tick = i.tick /\ h.events = i.events
      /\ \A t \in Task \ {u} : h.wake[t] = i.wake[t]
  BY <1>2 DEF LaidDown
<1>5. /\ ListsAs(h, j) /\ SwitchesAs(h, j) /\ j.missed = h.missed /\ j.number = h.number
      /\ j.nstate = [h.nstate EXCEPT ![u] = s] /\ j.nval = h.nval
  BY <1>3, StateFields
<1>6. Concerns(i, h, {u}) BY <1>4 DEF Concerns, AsWas, Stays, Moved, Dozes, Routine, Pend
<1>7. DOMAIN k.nstate = Task /\ h.nstate = k.nstate /\ i.nstate = k.nstate
  BY <1>1, <1>4 DEF IInv, Typed, Kept, Routine
<1>8. Concerns(h, j, {u}) /\ Good(j) /\ \A t : (Dozes(j, t) <=> Dozes(h, t)) /\ (IsReady(j, t) <=> IsReady(h, t))
  BY <1>4, <1>5, <1>7, GoodAs, ConcernsAs
<1>9. Concerns(k, j, {u}) BY <1>1, <1>6, <1>8, ConcernsMore
<1>10. u \in j.suspended /\ j.events = i.events BY <1>2, <1>4, <1>5 DEF ListsAs, SameLists
<1>11. ~Pend(j, u) BY <1>1, <1>10 DEF Pend
<1>12. Clock(k, j) /\ SwitchesAs(k, j) /\ j.missed = k.missed /\ j.number = k.number
       /\ j.prio = k.prio /\ j.nval = k.nval
  BY <1>1, <1>4, <1>5 DEF Clock, SwitchesAs, ListsAs, Routine, Kept
<1>13. DOMAIN j.nstate = Task /\ j.nstate[u] = s BY <1>5, <1>7
<1> QED BY <1>1, <1>2, <1>4, <1>7, <1>8, <1>9, <1>10, <1>11, <1>12, <1>13 DEF Stopped, i, j

LEMMA AliveInAList ==
  ASSUME NEW u, Alive(u) PROVE InAList(k, u)
BY DEF Alive, Sleeping, InAList, Elsewhere
LEMMA SuspendsAnother ==
  ASSUME IInv, NEW u \in Task, u # k.cur, u # IdleTask, Alive(u), k.cur # IdleTask,
         u \in Suspendable, Stopped(k', u), pc[k.cur] = "user", ~k.pendsv,
         pc' = [pc EXCEPT ![k.cur] = "suspended"], program' = program, UNCHANGED systicks,
         DOMAIN frame' = Task, \A t \in Task \ {k.cur} : frame'[t] = frame[t],
         IF pc[u] = "until" THEN UNCHANGED left ELSE Due(u, 0)
  PROVE  IInv'
<1>1. k.cur \in Task /\ Task1(u) /\ k.pendsv \in BOOLEAN BY CurrentTask DEF IInv
<1>2. /\ DOMAIN pc' = Task /\ pc'[k.cur] = "suspended" /\ \A t \in Task \ {k.cur} : pc'[t] = pc[t]
      /\ DOMAIN left' = Task /\ \A t \in Task \ {u} : left'[t] = left[t]
      /\ left'[u] = IF pc[u] = "until" THEN left[u] ELSE 0
  BY <1>1 DEF IInv, Typed, Due
<1>3. InAList(k, u) /\ InAList(k', u) BY AliveInAList DEF Stopped, InAList, Elsewhere
<1>4. k'.number = Cardinality({t \in Task : InAList(k', t)}) BY <1>3, SameNumber DEF Stopped
<1>5. ActsOn(u, "suspended")
  BY <1>1, <1>2, <1>4 DEF ActsOn, Stopped, Clock, SwitchesAs, IInv, Typed
<1>6. Task1(u)'
  <2>1. InCall(u)' BY <1>1, <1>2 DEF Task1, InCall, IsWait
  <2>2. k'.nstate[u] \in {"no", "received"} BY <1>1 DEF Stopped, Task1, Notified
  <2>3. Notified(u)'
    <3>1. Suspendable' = Suspendable BY DEF Suspendable
    <3>2. k'.nval[u] \subseteq Bits /\ ~Pend(k', u) BY <1>1 DEF Task1, Notified, Stopped
    <3> QED BY <2>2, <3>1, <3>2 DEF Notified
  <2>4. Remains(u)'
    <3>1. k'.tick = k.tick /\ k'.pended = k.pended /\ ~Dozes(k', u) BY DEF Stopped, Clock
    <3>2. pc[u] # "untilPlace" BY DEF IInv, Turns
    <3>3. pc'[u] = pc[u] /\ frame'[u] = frame[u] BY <1>2
    <3> QED BY <1>1, <1>2, <3>1, <3>2, <3>3 DEF Task1, Remains, Since
  <2> QED BY <2>1, <2>3, <2>4 DEF Task1
<1> QED BY <1>5, <1>6, ActingStep

(* The running task does something to itself.                                *)
ActsAlone(to) ==
  /\ ~k.pendsv /\ pc[k.cur] = "user" /\ to \in {"user", "suspended", "yield"}
  /\ pc' = [pc EXCEPT ![k.cur] = to] /\ program' = program /\ systicks' = systicks
  /\ DOMAIN frame' = Task /\ \A t \in Task \ {k.cur} : frame'[t] = frame[t]
  /\ DOMAIN left' = Task /\ \A t \in Task \ {k.cur} : left'[t] = left[t]
  /\ Good(k') /\ Concerns(k, k', {k.cur}) /\ k'.cur = k.cur /\ ~Pend(k', k.cur)
  /\ k'.tick = k.tick /\ k'.pended = k.pended /\ k'.susp = k.susp
  /\ k'.missed = k.missed /\ k'.pendsv \in BOOLEAN
  /\ DOMAIN k'.nstate = Task /\ DOMAIN k'.nval = Task
  /\ \A t \in Task \ {k.cur} : k'.nval[t] = k.nval[t]
  /\ IsInjective(k'.events["pending"]) /\ (k.susp = 0 => k'.events["pending"] = <<>>)
  /\ k.cur # IdleTask
  /\ k.prio[k.cur] <= k'.prio[k.cur] \/ k'.pendsv
  /\ \/ IsReady(k', k.cur)
     \/ k.susp = 0 /\ (to = "yield" \/ (to = "suspended" /\ frame'[k.cur].thread = k.cur))
  /\ k'.number = Cardinality({t \in Task : InAList(k', t)})
LEMMA AloneStep ==
  ASSUME IInv, NEW to, ActsAlone(to), \A t \in Task : t = k.cur => Task1(t)'
  PROVE  IInv'
<1>1. /\ k.cur \in Task /\ k.prio \in [Task -> Levels] /\ IdleTask \in Task
      /\ k.susp \in Nat /\ k.missed \in BOOLEAN
  BY CurrentTask
<1>2. /\ Good(k') /\ Concerns(k, k', {k.cur}) /\ k'.cur = k.cur /\ ~Pend(k', k.cur)
      /\ k'.tick = k.tick /\ k'.pended = k.pended /\ k'.susp = k.susp /\ k'.missed = k.missed
      /\ ~k.pendsv /\ pc[k.cur] = "user" /\ to \in {"user", "suspended", "yield"} /\ k.cur # IdleTask
  BY DEF ActsAlone
<1>3. DOMAIN pc' = Task /\ \A t \in Task \ {k.cur} : pc'[t] = pc[t]
  BY <1>1 DEF ActsAlone, IInv, Typed
<1>4. Others({k.cur}) BY <1>3 DEF Others, ActsAlone
<1>5. GoesOn("user", to) BY Going DEF ActsAlone
<1>6. Fair("user", to)
  <2>1. IsReady(k', IdleTask) BY <1>1, <1>2 DEF IInv, Turns, Concerns, AsWas, Stays
  <2>2. k'.missed => k'.susp > 0 \/ k'.pendsv BY <1>2 DEF IInv, Turns
  <2>3. k'.prio \in [Task -> Levels] BY <1>2 DEF Good, Sound, Shape
  <2>4. k.prio[k.cur] \in Int /\ k'.prio[k.cur] \in Int
    <3>1. k.prio[k.cur] \in Levels /\ k'.prio[k.cur] \in Levels BY <1>1, <2>3
    <3> QED BY <3>1 DEF Levels
  <2>5. \A t \in Task : IsReady(k', t) =>
          \/ k'.pendsv \/ to = "yield" \/ k'.prio[t] <= k'.prio[k.cur]
          \/ /\ IsReady(k, t) /\ k.prio[k.cur] <= k'.prio[k.cur]
             /\ k'.prio[t] = k.prio[t] \/ k'.prio[t] < k.prio[t]
    <3>1. k.prio[k.cur] <= k'.prio[k.cur] \/ k'.pendsv BY DEF ActsAlone
    <3>2. \A t \in Task : t # k.cur /\ IsReady(k', t) => IsReady(k, t) /\ k'.prio[t] = k.prio[t]
      BY <1>2 DEF Concerns, AsWas, Stays
    <3>3. k'.prio[k.cur] <= k'.prio[k.cur] BY <2>4
    <3> QED BY <3>1, <3>2, <3>3
  <2>6. /\ to \notin {"delay", "untilPlace", "resume"} /\ to # "listed" /\ to # "query" /\ to # "resume"
        /\ to \notin {"until", "wait", "take", "count"} /\ "user" # "yield"
    BY <1>2
  <2>7. \/ IsReady(k', k.cur)
        \/ k'.susp = 0 /\ (to = "yield" \/ (to = "suspended" /\ frame'[k.cur].thread = k.cur))
    BY <1>2 DEF ActsAlone
  <2> QED BY <1>2, <2>1, <2>2, <2>3, <2>5, <2>6, <2>7, Zenon DEF Fair
<1>7. Turns' BY <1>5, <1>6, TurnsKept
<1>8. Books BY <1>2 DEF Books, ActsAlone, IInv, Counts1
<1> QED BY <1>4, <1>7, <1>8, CarriedOn DEF ActsAlone

LEMMA SuspendsItself ==
  ASSUME IInv, k.cur # IdleTask, k.susp = 0, NEW c, c = k.cur, Stopped(k', c),
         pc[k.cur] = "user", ~k.pendsv,
         pc' = [pc EXCEPT ![k.cur] = "suspended"], program' = program, UNCHANGED systicks,
         DOMAIN frame' = Task, \A t \in Task \ {k.cur} : frame'[t] = frame[t],
         frame'[k.cur].thread = k.cur, Due(k.cur, 0)
  PROVE  IInv'
<1>1. k.cur \in Task /\ k.pendsv \in BOOLEAN /\ k.prio[k.cur] \in Levels BY CurrentTask
<1>2. /\ pc'[c] = "suspended" /\ DOMAIN left' = Task /\ left'[c] = 0
      /\ \A t \in Task \ {c} : left'[t] = left[t]
  BY <1>1 DEF IInv, Typed, Due
<1>3. InAList(k, c) BY <1>1, RunningReady DEF InAList
<1>4. InAList(k', c) BY DEF Stopped, InAList, Elsewhere
<1>5. k'.number = Cardinality({t \in Task : InAList(k', t)})
  BY <1>1, <1>3, <1>4, SameNumber DEF Stopped
<1>6. k.prio[k.cur] <= k'.prio[k.cur] BY <1>1 DEF Stopped, Levels
<1>7. ActsAlone("suspended")
  BY <1>1, <1>2, <1>5, <1>6 DEF ActsAlone, Stopped, Clock, SwitchesAs, IInv, Typed
<1>8. Task1(c)'
  <2>1. InCall(c)' BY <1>2 DEF InCall, Locations
  <2>2. k'.nstate[c] \in {"no", "received"} /\ k'.nval[c] \subseteq Bits /\ ~Pend(k', c)
    BY <1>1 DEF Stopped, IInv, Task1, Notified
  <2>3. Notified(c)' BY <1>2, <2>2 DEF Notified
  <2>4. Remains(c)' BY <1>2 DEF Remains, Stopped
  <2> QED BY <2>1, <2>3, <2>4 DEF Task1
<1> QED BY <1>7, <1>8, AloneStep
LEMMA SuspendKeeps ==
  ASSUME IInv, Suspend, UNCHANGED systicks
  PROVE  IInv'
<1>0. PICK c \in Calls("osThreadSuspend") :
        /\ Alive(c.thread) /\ (c.thread = k.cur => k.susp = 0)
        /\ Moves("user", "suspended", Put(Off(c.thread), c.thread))
        /\ Enter(c)
        /\ IF pc[c.thread] = "until" THEN UNCHANGED left ELSE Due(c.thread, 0)
  BY DEF Suspend
<1> DEFINE u == c.thread
<1>1. k.cur # IdleTask /\ c.op = "osThreadSuspend" /\ Sensible(program) /\ c \in UNION {program.calls[t] : t \in Task}
  BY Programmed
<1>2. u \in Task /\ u # IdleTask BY <1>1 DEF Sensible
<1>3. u \in Suspendable BY <1>1 DEF Suspendable
<1>4. /\ pc[k.cur] = "user" /\ ~k.pendsv /\ k' = Put(Off(u), u) /\ program' = program
      /\ pc' = [pc EXCEPT ![k.cur] = "suspended"]
  BY <1>0 DEF Moves
<1>5. Stopped(k', u) BY <1>2, <1>4, PutAway
<1>6. /\ DOMAIN frame' = Task /\ \A t \in Task \ {k.cur} : frame'[t] = frame[t]
      /\ frame'[k.cur] = c
  BY <1>0, CurrentTask DEF Enter, IInv, Typed
<1>7. CASE u = k.cur
  <2>1. k.susp = 0 /\ Due(k.cur, 0) /\ frame'[k.cur].thread = k.cur BY <1>0, <1>4, <1>6, <1>7
  <2> QED BY <1>1, <1>4, <1>5, <1>6, <1>7, <2>1, SuspendsItself
<1>8. CASE u # k.cur
  <2>1. Alive(u) /\ (IF pc[u] = "until" THEN UNCHANGED left ELSE Due(u, 0)) BY <1>0
  <2> HIDE DEF u
  <2> QED BY <1>1, <1>2, <1>3, <1>4, <1>5, <1>6, <1>8, <2>1, SuspendsAnother
<1> QED BY <1>7, <1>8

(* vTaskResume and xTaskResumeFromISR.                                       *)
LEMMA SuspendedTask ==
  ASSUME IInv, NEW u \in Task, IsSuspended(u)
  PROVE  /\ u \in k.suspended /\ ~IsReady(k, u) /\ ~Dozes(k, u) /\ ~Pend(k, u) /\ u # IdleTask
         /\ pc[u] \notin {"untilPlace", "resume", "asserted"} \/ u = k.cur
<1>1. Good(k) BY CurrentTask
<1>2. u \in k.suspended /\ ~IsReady(k, u) /\ ~Dozes(k, u)
  BY <1>1 DEF IsSuspended, Good, Single, Elsewhere, Dozes
<1>3. ~Pend(k, u) BY <1>1 DEF IsSuspended, OnEventList, Pend, Good, Sound, Shape
<1> QED BY <1>2, <1>3 DEF IInv, Turns
(* Asked for or not, a switch changes nothing else.                          *)
LEMMA MaybeYield ==
  ASSUME NEW i, Good(i), i.pendsv \in BOOLEAN, NEW b
  PROVE  LET j == IF b THEN Yield(i) ELSE i
         IN /\ Good(j) /\ ListsAs(i, j) /\ Routine(i, j) /\ j.susp = i.susp /\ j.pended = i.pended
            /\ j.missed = i.missed /\ j.pendsv \in BOOLEAN /\ (b => j.pendsv) /\ (i.pendsv => j.pendsv)
            /\ Concerns(i, j, {}) /\ \A t : (IsReady(j, t) <=> IsReady(i, t)) /\ (Dozes(j, t) <=> Dozes(i, t))
<1> DEFINE j == IF b THEN Yield(i) ELSE i
<1>1. DOMAIN i = Fields BY DEF Good, Sound, Shape
<1>2. /\ ListsAs(i, j) /\ Routine(i, j) /\ j.susp = i.susp /\ j.pended = i.pended
      /\ j.missed = i.missed /\ j.pendsv \in BOOLEAN /\ (b => j.pendsv) /\ (i.pendsv => j.pendsv)
  <2>1. CASE b BY <1>1, <2>1, PendsvFields DEF Yield
  <2>2. CASE ~b BY <1>1, <2>2 DEF ListsAs, SameLists, Routine
  <2> QED BY <2>1, <2>2
<1> HIDE DEF j
<1>3. Concerns(i, j, {}) BY <1>2, ConcernsAs DEF Routine
<1>4. Good(j) /\ \A t : (IsReady(j, t) <=> IsReady(i, t)) /\ (Dozes(j, t) <=> Dozes(i, t))
  BY <1>2, GoodAs
<1> QED BY <1>2, <1>3, <1>4 DEF j
LEMMA ThreadResumeKeeps ==
  ASSUME IInv, ThreadResume, UNCHANGED systicks
  PROVE  IInv'
<1>0. PICK c \in Calls("osThreadResume") :
    /\ c.thread # k.cur /\ IsSuspended(c.thread)
    /\ Moves("user", "user",
             IF k.prio[c.thread] >= k.prio[k.cur] THEN Yield(Ready(k, c.thread)) ELSE Ready(k, c.thread))
    /\ Same
  BY DEF ThreadResume
<1> DEFINE u == c.thread
           b == k.prio[u] >= k.prio[k.cur]
           i == Ready(k, u)
<1>1. k.cur # IdleTask /\ u \in Task BY Programmed DEF Sensible
<1>2. /\ u # k.cur /\ IsSuspended(u)
      /\ pc[k.cur] = "user" /\ ~k.pendsv /\ k' = (IF b THEN Yield(i) ELSE i) /\ program' = program
      /\ pc' = [pc EXCEPT ![k.cur] = "user"] /\ frame' = frame /\ left' = left
  BY <1>0 DEF Moves, Same
<1> HIDE DEF u
<1>3. /\ k.cur \in Task /\ Good(k) /\ k.pendsv \in BOOLEAN /\ Task1(u)
      /\ k.prio[u] \in Int /\ k.prio[k.cur] \in Int
  <2>1. k.cur \in Task /\ k.prio \in [Task -> Levels] BY CurrentTask
  <2>2. k.prio[u] \in Levels /\ k.prio[k.cur] \in Levels BY <1>1, <2>1
  <2> QED BY <1>1, <2>2, CurrentTask DEF IInv, Levels
<1>4. /\ u \in k.suspended /\ ~Dozes(k, u) /\ ~Pend(k, u) /\ u # IdleTask
      /\ pc[u] \notin {"untilPlace", "resume", "asserted"}
  BY <1>1, <1>2, SuspendedTask
<1>5. /\ Good(i) /\ Kept(k, i) /\ i.events = k.events /\ IsReady(i, u) /\ ~Elsewhere(i, u)
      /\ Concerns(k, i, {u})
  BY <1>1, <1>3, SoundAnyway, ReadyAgain DEF Good
<1> HIDE DEF i, b
<1>6. i.pendsv \in BOOLEAN BY <1>3, <1>5 DEF Kept
<1>7. /\ Good(k') /\ ListsAs(i, k') /\ Routine(i, k') /\ k'.susp = i.susp /\ k'.pended = i.pended
      /\ k'.missed = i.missed /\ k'.pendsv \in BOOLEAN /\ (b => k'.pendsv)
      /\ Concerns(i, k', {}) /\ IsReady(k', u) /\ ~Dozes(k', u)
  BY <1>2, <1>5, <1>6, MaybeYield DEF Elsewhere, Dozes
<1>8. Concerns(k, k', {u})
  <2>1. Concerns(i, k', {u}) BY <1>7 DEF Concerns
  <2> QED BY <1>5, <2>1, ConcernsMore
<1>9. /\ k'.cur = k.cur /\ k'.tick = k.tick /\ k'.pended = k.pended /\ k'.susp = k.susp
      /\ k'.missed = k.missed /\ k'.nstate = k.nstate /\ k'.nval = k.nval /\ k'.number = k.number
      /\ k'.events = k.events /\ k'.prio = k.prio
  BY <1>5, <1>7 DEF ListsAs, Routine, Kept
<1>10. InAList(k, u) /\ InAList(k', u) BY <1>4, <1>7 DEF InAList, Elsewhere
<1>11. k'.number = Cardinality({t \in Task : InAList(k', t)}) BY <1>1, <1>8, <1>9, <1>10, SameNumber
<1>12. DOMAIN pc' = Task /\ \A t \in Task : pc'[t] = pc[t] BY <1>2, <1>3 DEF IInv, Typed
<1>13. k'.pendsv \/ k'.prio[u] <= k.prio[k.cur] BY <1>3, <1>7, <1>9 DEF b
<1>14. IsInjective(k'.events["pending"]) /\ (k.susp = 0 => k'.events["pending"] = <<>>)
  BY <1>9 DEF IInv, Counts1
<1>15. ActsOn(u, "user")
  BY <1>1, <1>2, <1>3, <1>4, <1>7, <1>8, <1>9, <1>11, <1>12, <1>13, <1>14 DEF ActsOn, IInv, Typed
<1>16. Task1(u)' BY <1>1, <1>2, <1>3, <1>4, <1>7, <1>9, <1>12, Revived
<1> QED BY <1>15, <1>16, ActingStep
LEMMA ResumeFromISRKeeps ==
  ASSUME IInv, ResumeFromISR, UNCHANGED systicks
  PROVE  IInv'
<1>0. PICK c \in Interrupt("xTaskResumeFromISR") :
    /\ ~Halted /\ IsSuspended(c.thread)
    /\ k' = LET k1 == ReadyOrPend(k, c.thread)
            IN IF k.susp = 0 /\ k.prio[c.thread] >= k.prio[k.cur] THEN Yield(k1) ELSE k1
    /\ UNCHANGED <<pc, frame, program, left>>
  BY DEF ResumeFromISR
<1> DEFINE u == c.thread
           b == k.susp = 0 /\ k.prio[u] >= k.prio[k.cur]
           i == ReadyOrPend(k, u)
<1>1. u \in Task BY Interrupted DEF Sensible
<1>2. /\ IsSuspended(u) /\ k' = (IF b THEN Yield(i) ELSE i) /\ program' = program
      /\ pc' = pc /\ frame' = frame /\ left' = left /\ pc[k.cur] # "asserted"
  BY <1>0 DEF Halted
<1> HIDE DEF u
<1>3. /\ k.cur \in Task /\ Good(k) /\ k.pendsv \in BOOLEAN /\ Task1(u) /\ k.susp \in Nat
      /\ k.prio[u] \in Int /\ k.prio[k.cur] \in Int
  <2>1. k.cur \in Task /\ k.prio \in [Task -> Levels] BY CurrentTask
  <2>2. k.prio[u] \in Levels /\ k.prio[k.cur] \in Levels BY <1>1, <2>1
  <2> QED BY <1>1, <2>2, CurrentTask DEF IInv, Levels
<1>4. /\ u \in k.suspended /\ ~IsReady(k, u) /\ ~Dozes(k, u) /\ ~Pend(k, u)
      /\ pc[u] \notin {"untilPlace", "resume", "asserted"} \/ u = k.cur
  BY <1>1, <1>2, SuspendedTask
<1>5. u = k.cur => k.susp = 0 /\ pc[u] \notin {"untilPlace", "resume", "asserted"}
  BY <1>2, <1>4 DEF IInv, Turns, GoneToSleep
<1>6. /\ Good(i) /\ Kept(k, i) /\ Concerns(k, i, {u})
      /\ k.susp = 0 => IsReady(i, u) /\ ~Elsewhere(i, u) /\ i.events = k.events
      /\ k.susp # 0 => /\ SameLists(k, i) /\ i.wake = k.wake /\ Pend(i, u)
                       /\ IsInjective(k.events["pending"]) => IsInjective(i.events["pending"])
  BY <1>1, <1>3, <1>4, ReadyOrPended
<1> HIDE DEF i, b
<1>7. i.pendsv = k.pendsv BY <1>6 DEF Kept
<1>8. /\ Good(k') /\ ListsAs(i, k') /\ Routine(i, k') /\ k'.susp = i.susp /\ k'.pended = i.pended
      /\ k'.missed = i.missed /\ k'.pendsv \in BOOLEAN /\ (b => k'.pendsv) /\ (i.pendsv => k'.pendsv)
      /\ Concerns(i, k', {}) /\ \A t : (IsReady(k', t) <=> IsReady(i, t)) /\ (Dozes(k', t) <=> Dozes(i, t))
  BY <1>2, <1>3, <1>6, <1>7, MaybeYield
<1>9. Concerns(k, k', {u})
  <2>1. Concerns(i, k', {u}) BY <1>8 DEF Concerns
  <2> QED BY <1>6, <2>1, ConcernsMore
<1>10. /\ k'.cur = k.cur /\ k'.tick = k.tick /\ k'.pended = k.pended /\ k'.susp = k.susp
       /\ k'.missed = k.missed /\ k'.nstate = k.nstate /\ k'.nval = k.nval /\ k'.number = k.number
       /\ k'.events = i.events /\ k'.prio = k.prio
  BY <1>6, <1>8 DEF ListsAs, Routine, Kept
<1>11. k.susp # 0 => /\ u \in k'.suspended /\ Pend(k', u) /\ ~Dozes(k', u) /\ ~IsReady(k', u)
                     /\ k'.suspended = k.suspended
  <2>1. k.susp # 0 => u \in k'.suspended /\ Pend(k', u) /\ k'.suspended = k.suspended
    BY <1>4, <1>6, <1>8, <1>10 DEF ListsAs, SameLists, Pend
  <2>2. u \in k'.suspended => ~Dozes(k', u) /\ ~IsReady(k', u)
    BY <1>1, <1>8 DEF Good, Single, Elsewhere, Dozes
  <2> QED BY <2>1, <2>2
<1>12. k.susp = 0 => IsReady(k', u) /\ ~Dozes(k', u) /\ u \notin k'.suspended /\ k'.events = k.events
  <2>1. k.susp = 0 => IsReady(k', u) BY <1>6, <1>8
  <2>2. IsReady(k', u) => ~Dozes(k', u) /\ u \notin k'.suspended
    BY <1>1, <1>8 DEF Good, Single, Elsewhere, Dozes
  <2> QED BY <1>6, <1>10, <2>1, <2>2
<1>13. Task1(u)'
  <2>1. pc[u] \notin {"untilPlace", "resume", "asserted"} BY <1>4, <1>5
  <2> QED BY <1>1, <1>2, <1>3, <1>4, <1>10, <1>11, <1>12, <2>1, Revived
<1>14. InAList(k', u) <=> InAList(k, u)
  <2>1. InAList(k, u) BY <1>4 DEF InAList, Elsewhere
  <2>2. InAList(k', u) BY <1>11, <1>12 DEF InAList, Elsewhere
  <2> QED BY <2>1, <2>2
<1>15. Disturbs
  <2>1. ~Pend(k', k.cur)
    <3>1. ~Pend(k, k.cur) BY DEF IInv, Turns
    <3>2. CASE u # k.cur BY <1>3, <1>9, <3>1, <3>2 DEF Concerns, AsWas, Stays
    <3>3. CASE u = k.cur BY <1>5, <1>12, <3>1, <3>3 DEF Pend
    <3> QED BY <3>2, <3>3
  <2>2. k.cur \in k'.suspended => k.cur \in k.suspended
    <3>1. u # k.cur => (k.cur \in k'.suspended <=> k.cur \in k.suspended)
      BY <1>3, <1>9 DEF Concerns, AsWas, Stays
    <3> QED BY <1>4, <3>1
  <2>3. \A t \in Task \ {u} : IsReady(k', t) <=> IsReady(k, t) BY <1>9 DEF Concerns, AsWas, Stays
  <2>4. IsReady(k', u) => k'.pendsv \/ k.prio[u] <= k.prio[k.cur]
    BY <1>3, <1>8, <1>11 DEF b
  <2> QED BY <1>2, <1>4, <1>7, <1>8, <1>10, <2>1, <2>2, <2>3, <2>4 DEF Disturbs, IInv, Turns
<1>16. Books
  <2>1. IsInjective(k'.events["pending"]) BY <1>6, <1>10 DEF IInv, Counts1
  <2>2. k'.susp = 0 => k'.pended = 0 /\ k'.events["pending"] = <<>>
    BY <1>10, <1>12 DEF IInv, Counts1
  <2> QED BY <1>8, <1>10, <2>1, <2>2 DEF Books, IInv, Counts1
<1> QED BY <1>1, <1>2, <1>8, <1>9, <1>10, <1>13, <1>14, <1>15, <1>16, InterruptStep DEF IInv, Typed

(* vTaskPrioritySet: a lent priority stays until it is given back.           *)
PriorityNow(j, u, p) ==
  /\ Good(j) /\ Clock(k, j) /\ SwitchesAs(k, j) /\ j.missed = k.missed
  /\ j.number = k.number /\ j.nstate = k.nstate /\ j.nval = k.nval
  /\ j.prio = [k.prio EXCEPT ![u] = p] /\ j.events = k.events
  /\ Stays(k, j, u) /\ Concerns(k, j, {u}) /\ (Dozes(k, u) => j.wake[u] = k.wake[u])
NewPriority(u, p) == IF k.base[u] = k.prio[u] THEN p ELSE k.prio[u]
LEMMA RerankedNow ==
  ASSUME Good(k), NEW u \in Task, NEW p \in Levels, NEW b \in Levels, NEW o
  PROVE  PriorityNow(Reranked(k, u, p, b, o), u, p)
<1>1. Repriced(k, Reranked(k, u, p, b, o), u, p, b, o) BY PriorityChanged
<1> QED BY <1>1 DEF Repriced, PriorityNow
LEMMA ReprioritisedFacts ==
  ASSUME IInv, NEW u \in Task, NEW p \in Levels
  PROVE  PriorityNow(Reprioritised(u, p), u, NewPriority(u, p))
<1> DEFINE np == NewPriority(u, p)
           o == IF k.flags[u] = {} THEN Priorities - p ELSE k.order[u]
           k1 == [k EXCEPT !.prio[u] = IF k.base[u] = k.prio[u] THEN p ELSE @, !.base[u] = p,
                      !.order[u] = IF k.flags[u] = {} THEN Priorities - p ELSE @]
<1>1. Good(k) /\ DOMAIN k = Fields /\ k.prio[u] \in Levels BY CurrentTask
<1>2. np \in Levels BY <1>1 DEF NewPriority
<1>3. k1 = Ranked(k, u, np, p, o) BY <1>1 DEF Ranked, Fields, NewPriority
<1>4. Reprioritised(u, p) = IF Contains(k.ready[k.prio[u]], u) THEN Ready(k1, u) ELSE k1
  BY DEF Reprioritised
<1> HIDE DEF k1, np, o
<1>5. Reprioritised(u, p) = Reranked(k, u, np, p, o) BY <1>3, <1>4 DEF Reranked
<1>6. PriorityNow(Reranked(k, u, np, p, o), u, np) BY <1>1, <1>2, RerankedNow
<1> QED BY <1>5, <1>6 DEF np
LEMMA SetPriorityKeeps ==
  ASSUME IInv, SetPriority, UNCHANGED systicks
  PROVE  IInv'
<1>0. PICK c \in Calls("osThreadSetPriority") :
    LET u == c.thread
        yield == IF c.prio > k.base[u] THEN u # k.cur /\ c.prio >= k.prio[k.cur] ELSE u = k.cur
    IN /\ Alive(u) /\ c.prio # k.base[u]
       /\ Moves("user", "user", IF yield THEN Yield(Reprioritised(u, c.prio)) ELSE Reprioritised(u, c.prio))
       /\ Same
  BY DEF SetPriority
<1> DEFINE u == c.thread
           p == c.prio
           np == NewPriority(u, p)
           b == IF p > k.base[u] THEN u # k.cur /\ p >= k.prio[k.cur] ELSE u = k.cur
           i == Reprioritised(u, p)
<1>1. k.cur # IdleTask /\ u \in Task /\ p \in Levels BY Programmed DEF Sensible
<1>2. /\ Alive(u) /\ p # k.base[u]
      /\ pc[k.cur] = "user" /\ ~k.pendsv /\ k' = (IF b THEN Yield(i) ELSE i) /\ program' = program
      /\ pc' = [pc EXCEPT ![k.cur] = "user"] /\ frame' = frame /\ left' = left
  BY <1>0 DEF Moves, Same
<1> HIDE DEF u, p
<1>3. /\ k.cur \in Task /\ Good(k) /\ k.pendsv \in BOOLEAN /\ Task1(u)
      /\ k.prio[u] \in Int /\ k.prio[k.cur] \in Int /\ k.base[u] \in Int /\ p \in Int
      /\ DOMAIN k.prio = Task
  <2>1. k.cur \in Task /\ k.prio \in [Task -> Levels] /\ k.base \in [Task -> Levels] BY CurrentTask
  <2>2. k.prio[u] \in Levels /\ k.prio[k.cur] \in Levels /\ k.base[u] \in Levels BY <1>1, <2>1
  <2> QED BY <1>1, <2>1, <2>2, CurrentTask DEF IInv, Levels
<1>18. PriorityNow(i, u, np) BY <1>1, ReprioritisedFacts
<1>6. /\ ~b /\ u # k.cur => np <= k.prio[k.cur] \/ np = k.prio[u] \/ np < k.prio[u]
      /\ ~b /\ u = k.cur => k.prio[u] <= np
  <2>1. p # k.base[u] BY <1>2
  <2>2. (np = p /\ k.base[u] = k.prio[u]) \/ np = k.prio[u] BY DEF NewPriority
  <2>3. ~b => IF p > k.base[u] THEN u = k.cur \/ p < k.prio[k.cur] ELSE u # k.cur BY <1>3
  <2> HIDE DEF np, b
  <2> QED BY <1>3, <2>1, <2>2, <2>3
<1> HIDE DEF i, b, np
<1>4. /\ Good(i) /\ Clock(k, i) /\ SwitchesAs(k, i) /\ i.missed = k.missed
      /\ i.number = k.number /\ i.nstate = k.nstate /\ i.nval = k.nval
      /\ i.prio = [k.prio EXCEPT ![u] = np] /\ i.events = k.events
      /\ Stays(k, i, u) /\ Concerns(k, i, {u}) /\ (Dozes(k, u) => i.wake[u] = k.wake[u])
  BY <1>18 DEF PriorityNow
<1>5. i.prio[u] = np /\ i.pendsv = k.pendsv BY <1>1, <1>3, <1>4 DEF SwitchesAs
<1>7. /\ Good(k') /\ ListsAs(i, k') /\ Routine(i, k') /\ k'.susp = i.susp /\ k'.pended = i.pended
      /\ k'.missed = i.missed /\ k'.pendsv \in BOOLEAN /\ (b => k'.pendsv)
      /\ Concerns(i, k', {}) /\ \A t : (IsReady(k', t) <=> IsReady(i, t)) /\ (Dozes(k', t) <=> Dozes(i, t))
  BY <1>2, <1>3, <1>4, <1>5, MaybeYield
<1>8. Concerns(k, k', {u})
  <2>1. Concerns(i, k', {u}) BY <1>7 DEF Concerns
  <2> QED BY <1>4, <2>1, ConcernsMore
<1>9. /\ k'.cur = k.cur /\ k'.tick = k.tick /\ k'.pended = k.pended /\ k'.susp = k.susp
      /\ k'.missed = k.missed /\ k'.nstate = k.nstate /\ k'.nval = k.nval /\ k'.number = k.number
      /\ k'.events = k.events /\ k'.prio[u] = np
  BY <1>4, <1>5, <1>7 DEF ListsAs, Routine, Clock, SwitchesAs
<1>10. Stays(k, k', u) /\ (Dozes(k, u) => k'.wake[u] = k.wake[u])
  BY <1>1, <1>4, <1>7 DEF Stays, Concerns, AsWas, ListsAs
<1>11. InAList(k', u) <=> InAList(k, u) BY <1>10 DEF Stays, InAList, Elsewhere, Dozes
<1>12. k'.number = Cardinality({t \in Task : InAList(k', t)}) BY <1>1, <1>8, <1>9, <1>11, SameNumber
<1>13. DOMAIN pc' = Task /\ \A t \in Task : pc'[t] = pc[t] BY <1>2, <1>3 DEF IInv, Typed
<1>14. IsInjective(k'.events["pending"]) /\ (k.susp = 0 => k'.events["pending"] = <<>>)
  BY <1>9 DEF IInv, Counts1
<1>15. Task1(u)' BY <1>1, <1>2, <1>3, <1>9, <1>10, <1>13, StillSo DEF Stays
<1>16. CASE u = k.cur
  <2>1. k.prio[k.cur] <= k'.prio[k.cur] \/ k'.pendsv BY <1>6, <1>7, <1>9, <1>16
  <2>2. IsReady(k', k.cur) /\ ~Pend(k', k.cur) BY <1>2, <1>10, <1>16, RunningReady DEF Stays
  <2>3. ActsAlone("user")
    BY <1>1, <1>2, <1>3, <1>7, <1>8, <1>9, <1>12, <1>14, <1>16, <2>1, <2>2 DEF ActsAlone, IInv, Typed
  <2> QED BY <1>15, <1>16, <2>3, AloneStep
<1>17. CASE u # k.cur
  <2>1. IsReady(k', u) => \/ k'.pendsv \/ k'.prio[u] <= k.prio[k.cur]
                          \/ IsReady(k, u) /\ (k'.prio[u] = k.prio[u] \/ k'.prio[u] < k.prio[u])
    BY <1>6, <1>7, <1>9, <1>10, <1>17 DEF Stays
  <2>2. u = IdleTask => IsReady(k', u) BY <1>10 DEF Stays, IInv, Turns
  <2>3. ActsOn(u, "user")
    BY <1>1, <1>2, <1>3, <1>7, <1>8, <1>9, <1>12, <1>13, <1>14, <1>17, <2>1, <2>2 DEF ActsOn, IInv, Typed
  <2> QED BY <1>15, <2>3, ActingStep
<1> QED BY <1>16, <1>17

(* xTaskCreate.                                                              *)
LEMMA ThreadNewKeeps ==
  ASSUME IInv, ThreadNew, UNCHANGED systicks
  PROVE  IInv'
<1>0. PICK c \in Calls("osThreadNew") :
    LET u == c.thread
    IN /\ ~Alive(u) /\ ~Contains(k.dead, u)
       /\ k' = NewTask(k, u, program.prio[u], TRUE)
       /\ ~k.pendsv /\ pc[k.cur] = "user"
       /\ pc' = [pc EXCEPT ![u] = "user",
                           ![k.cur] = IF k.prio[k.cur] < k'.prio[u] THEN "yield" ELSE "user"]
       /\ frame' = [frame EXCEPT ![u] = NoCall] /\ Due(u, 0)
       /\ UNCHANGED program
  BY DEF ThreadNew
<1> DEFINE u == c.thread
           p == program.prio[u]
           to == IF k.prio[k.cur] < k'.prio[u] THEN "yield" ELSE "user"
<1>1. k.cur # IdleTask /\ u \in Task /\ p \in Nat BY Programmed DEF Sensible
<1>2. /\ ~Alive(u) /\ ~Contains(k.dead, u) /\ k' = NewTask(k, u, p, TRUE)
      /\ ~k.pendsv /\ pc[k.cur] = "user" /\ pc' = [pc EXCEPT ![u] = "user", ![k.cur] = to]
      /\ frame' = [frame EXCEPT ![u] = NoCall] /\ Due(u, 0) /\ program' = program
  BY <1>0
<1> HIDE DEF u, p
<1>3. /\ k.cur \in Task /\ Good(k) /\ k.pendsv \in BOOLEAN /\ k.prio \in [Task -> Levels]
      /\ DOMAIN k.nstate = Task /\ DOMAIN k.nval = Task
  BY CurrentTask DEF IInv, Typed
<1>4. ~InAList(k, u) BY <1>2 DEF Alive, Sleeping, InAList, Elsewhere
<1>5. IsReady(k, k.cur) /\ IsReady(k, IdleTask) BY <1>2, RunningReady DEF IInv, Turns
<1>6. u # k.cur /\ u # IdleTask BY <1>4, <1>5 DEF InAList
<1>7. Arrived(k, k', u, p) /\ k'.cur = k.cur
  <2>1. TRUE \in BOOLEAN OBVIOUS
  <2> QED BY <1>1, <1>2, <1>3, <1>4, <2>1, NewTaskArrived
<1>8. /\ Good(k') /\ SwitchesAs(k, k') /\ k'.missed = k.missed /\ k'.tick = k.tick
      /\ k'.events = k.events /\ k'.number = k.number + 1
      /\ k'.nstate = [k.nstate EXCEPT ![u] = "no"] /\ k'.nval = [k.nval EXCEPT ![u] = {}]
      /\ k'.prio = [k.prio EXCEPT ![u] = Urgency(p)]
      /\ IsReady(k', u) /\ Concerns(k, k', {u})
  BY <1>7 DEF Arrived
<1>9. k'.number = Cardinality({t \in Task : InAList(k', t)})
  <2>1. InAList(k', u) BY <1>8 DEF InAList
  <2> QED BY <1>1, <1>4, <1>8, <2>1, OneMore
<1>10. /\ DOMAIN pc' = Task /\ pc'[k.cur] = to /\ pc'[u] = "user"
       /\ \A t \in Task \ {k.cur, u} : pc'[t] = pc[t]
       /\ DOMAIN frame' = Task /\ \A t \in Task \ {u} : frame'[t] = frame[t]
       /\ DOMAIN left' = Task /\ left'[u] = 0 /\ \A t \in Task \ {u} : left'[t] = left[t]
  BY <1>1, <1>2, <1>3, <1>6 DEF IInv, Typed, Due
<1>11. k.prio[k.cur] \in Int /\ k'.prio[u] \in Int
  <2>1. k'.prio \in [Task -> Levels] BY <1>8 DEF Good, Sound, Shape
  <2>2. k'.prio[u] \in Levels /\ k.prio[k.cur] \in Levels BY <1>1, <1>3, <2>1
  <2> QED BY <2>2 DEF Levels
<1>12. to = "yield" \/ k'.prio[u] <= k.prio[k.cur] BY <1>11
<1>13. to \in {"user", "yield"} OBVIOUS
<1> HIDE DEF to
<1>14. IsInjective(k'.events["pending"]) /\ (k.susp = 0 => k'.events["pending"] = <<>>)
  BY <1>8 DEF IInv, Counts1
<1>15. DOMAIN k'.nstate = Task /\ DOMAIN k'.nval = Task /\ \A t \in Task \ {u} : k'.nval[t] = k.nval[t]
  BY <1>3, <1>8
<1>16. ActsOn(u, to)
  BY <1>1, <1>2, <1>3, <1>6, <1>7, <1>8, <1>9, <1>10, <1>12, <1>13, <1>14, <1>15 DEF ActsOn, SwitchesAs
<1>17. Task1(u)'
  <2>1. InCall(u)' BY <1>10 DEF InCall, Locations
  <2>2. k'.nval[u] \subseteq Bits /\ k'.nstate[u] \in {"no", "received"} BY <1>1, <1>3, <1>8
  <2> QED BY <1>1, <1>8, <1>10, <2>1, <2>2, Settled
<1> QED BY <1>16, <1>17, ActingStep

(* vTaskDelete, of another task and of the running one, and the idle task    *)
(* that frees who has deleted itself.                                        *)
LEMMA DeletedFields ==
  ASSUME NEW i, DOMAIN i = Fields, NEW u
  PROVE  LET h == [i EXCEPT !.number = @ - 1, !.nstate[u] = "no"]
         IN /\ ListsAs(i, h) /\ SwitchesAs(i, h) /\ h.missed = i.missed /\ h.number = i.number - 1
            /\ h.nstate = [i.nstate EXCEPT ![u] = "no"] /\ h.nval = i.nval
BY DEF ListsAs, SameLists, SwitchesAs, Fields
LEMMA TerminateKeeps ==
  ASSUME IInv, Terminate, UNCHANGED systicks
  PROVE  IInv'
<1>0. PICK c \in Calls("osThreadTerminate") :
    LET u == c.thread
    IN /\ Alive(u) /\ u # k.cur
       /\ k' = ResetUnblock(Deleted(u))
       /\ ~k.pendsv /\ pc[k.cur] = "user" /\ pc' = [pc EXCEPT ![u] = "user"]
       /\ Due(u, 0) /\ UNCHANGED <<frame, program>>
  BY DEF Terminate
<1> DEFINE u == c.thread
           i == Off(u)
           h == Deleted(u)
<1>1. k.cur # IdleTask /\ u \in Task /\ u # IdleTask BY Programmed DEF Sensible
<1>2. /\ Alive(u) /\ u # k.cur /\ k' = ResetUnblock(h)
      /\ ~k.pendsv /\ pc[k.cur] = "user" /\ pc' = [pc EXCEPT ![u] = "user"]
      /\ Due(u, 0) /\ frame' = frame /\ program' = program
  BY <1>0
<1> HIDE DEF u
<1>3. /\ k.cur \in Task /\ Good(k) /\ k.pendsv \in BOOLEAN /\ Task1(u)
      /\ DOMAIN k.nstate = Task /\ DOMAIN k.nval = Task
  BY <1>1, CurrentTask DEF IInv, Typed
<1>4. /\ Good(i) /\ Kept(k, i) /\ ~InAList(i, u) /\ Concerns(k, i, {u}) /\ ~Pend(i, u)
      /\ IsInjective(i.events["pending"]) /\ (k.susp = 0 => i.events["pending"] = <<>>)
      /\ DOMAIN i = Fields
  BY <1>1, OffFacts
<1>5. h = [i EXCEPT !.number = @ - 1, !.nstate[u] = "no"] BY DEF Deleted
<1> HIDE DEF i, h
<1>6. /\ ListsAs(i, h) /\ SwitchesAs(i, h) /\ h.missed = i.missed /\ h.number = i.number - 1
      /\ h.nstate = [i.nstate EXCEPT ![u] = "no"] /\ h.nval = i.nval
  BY <1>4, <1>5, DeletedFields
<1>7. i.nstate = k.nstate /\ i.nval = k.nval /\ i.number = k.number BY <1>4 DEF Kept
<1>8. Good(h) /\ Concerns(i, h, {u}) /\ ~InAList(h, u)
  BY <1>1, <1>3, <1>4, <1>6, <1>7, GoodAs, ConcernsAs DEF InAList
<1>9. /\ Good(k') /\ Titles(h, k') /\ Clock(h, k') /\ SwitchesAs(h, k') /\ k'.missed = h.missed
      /\ k'.events = h.events /\ Concerns(h, k', {}) /\ SameLists(h, k')
  <2>1. SameLists(h, ResetUnblock(h))
    <3>1. DOMAIN h = Fields BY <1>6 DEF ListsAs
    <3> QED BY <3>1, ResetUnblockFields
  <2> QED BY <1>2, <1>8, <2>1, AlarmSet
<1>10. Concerns(k, k', {u})
  <2>1. Concerns(h, k', {u}) BY <1>9 DEF Concerns
  <2> QED BY <1>4, <1>8, <2>1, ConcernsMore
<1>11. ~InAList(k', u) BY <1>8, <1>9, SameListsFacts DEF InAList
<1>12. /\ k'.cur = k.cur /\ k'.tick = k.tick /\ k'.pended = k.pended /\ k'.susp = k.susp
       /\ k'.missed = k.missed /\ k'.pendsv = k.pendsv /\ k'.number = k.number - 1
       /\ k'.events = i.events /\ k'.nstate = [k.nstate EXCEPT ![u] = "no"] /\ k'.nval = k.nval
  BY <1>4, <1>6, <1>7, <1>9 DEF Kept, ListsAs, SwitchesAs, Titles, Clock
<1>13. k'.number = Cardinality({t \in Task : InAList(k', t)})
  BY <1>1, <1>2, <1>10, <1>11, <1>12, AliveInAList, OneLess
<1>14. /\ DOMAIN pc' = Task /\ pc'[k.cur] = "user" /\ pc'[u] = "user"
       /\ \A t \in Task \ {k.cur, u} : pc'[t] = pc[t]
       /\ DOMAIN left' = Task /\ left'[u] = 0 /\ \A t \in Task \ {u} : left'[t] = left[t]
  BY <1>1, <1>2, <1>3 DEF IInv, Typed, Due
<1>15. ActsOn(u, "user")
  <2>1. ~IsReady(k', u) BY <1>11 DEF InAList
  <2> QED BY <1>1, <1>2, <1>3, <1>4, <1>9, <1>10, <1>12, <1>13, <1>14, <2>1 DEF ActsOn, IInv, Typed
<1>16. Task1(u)'
  <2>1. InCall(u)' BY <1>14 DEF InCall, Locations
  <2>2. k'.nval[u] \subseteq Bits /\ k'.nstate[u] = "no" BY <1>1, <1>3, <1>12 DEF Task1, Notified
  <2>3. ~Pend(k', u) BY <1>4, <1>12 DEF Pend
  <2>4. Notified(u)' BY <1>14, <2>2, <2>3 DEF Notified
  <2>5. ~Dozes(k', u) BY <1>11 DEF InAList, Elsewhere, Dozes
  <2>6. Remains(u)' BY <1>14, <2>5 DEF Remains
  <2> QED BY <2>1, <2>4, <2>6 DEF Task1
<1> QED BY <1>15, <1>16, ActingStep
LEMMA ExitKeeps ==
  ASSUME IInv, Exit, UNCHANGED systicks
  PROVE  IInv'
<1> DEFINE c == k.cur
           i == Off(c)
           j == Dead(i, c)
<1>1. k.cur # IdleTask BY Programmed DEF Exit
<1>2. /\ ~k.pendsv /\ pc[c] = "user" /\ k.susp = 0 /\ k' = j /\ program' = program
      /\ pc' = [pc EXCEPT ![c] = "yield"] /\ frame' = frame /\ left' = left
  BY DEF Exit, Moves, Same, Dead
<1>3. /\ c \in Task /\ Good(k) /\ k.pendsv \in BOOLEAN /\ Task1(c)
      /\ DOMAIN k.nstate = Task /\ DOMAIN k.nval = Task /\ k.prio[c] \in Levels
  BY CurrentTask DEF IInv, Typed
<1>4. /\ Good(i) /\ Kept(k, i) /\ ~InAList(i, c) /\ Concerns(k, i, {c}) /\ ~Pend(i, c)
      /\ IsInjective(i.events["pending"]) /\ (k.susp = 0 => i.events["pending"] = <<>>)
  BY <1>3, OffFacts
<1> HIDE DEF i
<1>5. /\ Good(j) /\ Kept(i, j) /\ j.events = i.events /\ Concerns(i, j, {c})
      /\ Contains(j.dead, c) /\ ~IsReady(j, c) /\ ~Dozes(j, c) /\ c \notin j.suspended
  BY <1>3, <1>4, LaidToRest
<1> HIDE DEF j
<1>6. Concerns(k, k', {c}) BY <1>2, <1>4, <1>5, ConcernsMore
<1>7. /\ k'.cur = k.cur /\ k'.tick = k.tick /\ k'.pended = k.pended /\ k'.susp = k.susp
      /\ k'.missed = k.missed /\ k'.pendsv = k.pendsv /\ k'.number = k.number
      /\ k'.events = i.events /\ k'.nstate = k.nstate /\ k'.nval = k.nval /\ k'.prio = k.prio
  BY <1>2, <1>4, <1>5 DEF Kept
<1>8. InAList(k, c) /\ InAList(k', c) /\ left[c] = 0 /\ k.nstate[c] \in {"no", "received"}
      /\ k.nval[c] \subseteq Bits
  BY <1>2, <1>5, AtHome DEF InAList, Elsewhere
<1>9. k'.number = Cardinality({t \in Task : InAList(k', t)}) BY <1>3, <1>6, <1>7, <1>8, SameNumber
<1>10. ActsAlone("yield")
  <2>1. k.prio[k.cur] <= k'.prio[k.cur] BY <1>3, <1>7 DEF Levels
  <2>2. ~Pend(k', k.cur) BY <1>4, <1>7 DEF Pend
  <2> QED BY <1>1, <1>2, <1>3, <1>4, <1>5, <1>6, <1>7, <1>9, <2>1, <2>2 DEF ActsAlone, IInv, Typed
<1>11. ASSUME NEW t \in Task, t = c PROVE Task1(t)'
  <2>1. pc'[t] = "yield" /\ left'[t] = 0 BY <1>2, <1>3, <1>8, <1>11 DEF IInv, Typed
  <2>2. InCall(t)' BY <2>1 DEF InCall, Locations
  <2>3. ~Pend(k', t) /\ ~Dozes(k', t) BY <1>2, <1>4, <1>5, <1>7, <1>11 DEF Pend
  <2>4. Notified(t)' BY <1>7, <1>8, <1>11, <2>1, <2>3 DEF Notified
  <2>5. Remains(t)' BY <2>1, <2>3 DEF Remains
  <2> QED BY <2>2, <2>4, <2>5 DEF Task1
<1> QED BY <1>10, <1>11, AloneStep
LEMMA IdleFreesKeeps ==
  ASSUME IInv, IdleFrees, UNCHANGED systicks
  PROVE  IInv'
<1>0. PICK u : u = Head(k.dead) OBVIOUS
<1>1. /\ k.cur = IdleTask /\ k.dead # <<>> /\ ~k.pendsv /\ pc[k.cur] = "user"
      /\ k' = Reaped(k) /\ program' = program
      /\ pc' = [pc EXCEPT ![k.cur] = "user"] /\ frame' = frame /\ left' = left
  BY DEF IdleFrees, Moves, Same, Reaped
<1>2. /\ k.cur \in Task /\ Good(k) /\ k.pendsv \in BOOLEAN
      /\ DOMAIN k.nstate = Task /\ DOMAIN k.nval = Task
  BY CurrentTask DEF IInv, Typed
<1>3. /\ Good(k') /\ Clock(k, k') /\ SwitchesAs(k, k') /\ k'.missed = k.missed
      /\ k'.prio = k.prio /\ k'.nstate = k.nstate /\ k'.nval = k.nval
      /\ k'.number = k.number - 1 /\ k'.events = k.events /\ Concerns(k, k', {u})
      /\ u \in Task /\ Contains(k.dead, u) /\ ~InAList(k', u)
  BY <1>0, <1>1, <1>2, FirstFreed
<1>4. ~IsReady(k, u) /\ ~Dozes(k, u) /\ u \notin k.suspended
  BY <1>2, <1>3 DEF Good, Single, Elsewhere, Dozes
<1>5. ~IsReady(k', u) /\ ~Dozes(k', u) /\ u \notin k'.suspended
  BY <1>3 DEF InAList, Elsewhere, Dozes
<1>6. u # k.cur BY <1>1, <1>4, RunningReady
<1>7. k'.number = Cardinality({t \in Task : InAList(k', t)})
  <2>1. InAList(k, u) BY <1>3 DEF InAList, Elsewhere
  <2> QED BY <1>3, <2>1, OneLess
<1>8. DOMAIN pc' = Task /\ \A t \in Task : pc'[t] = pc[t] BY <1>1, <1>2 DEF IInv, Typed
<1>9. IsInjective(k'.events["pending"]) /\ (k.susp = 0 => k'.events["pending"] = <<>>)
  BY <1>3 DEF IInv, Counts1
<1>10. ActsOn(u, "user")
  BY <1>1, <1>2, <1>3, <1>5, <1>6, <1>7, <1>8, <1>9 DEF ActsOn, Clock, SwitchesAs, IInv, Typed
<1>11. Task1(u)'
  <2>1. Task1(u) BY <1>3 DEF IInv
  <2>2. Pend(k', u) <=> Pend(k, u) BY <1>3 DEF Pend
  <2> QED BY <1>1, <1>3, <1>4, <1>5, <1>8, <2>1, <2>2, StillSo DEF Clock
<1> QED BY <1>10, <1>11, ActingStep

-----------------------------------------------------------------------------
(* The start: the tasks are created one by one, the idle task last.          *)
Creation == INSTANCE Folding WITH Step <- Create
Created(j, S) ==
  /\ Good(j) /\ j.tick = 0 /\ j.pended = 0 /\ j.susp = 0 /\ j.missed = FALSE /\ j.pendsv = FALSE
  /\ j.events["pending"] = <<>> /\ j.number = Cardinality(S)
  /\ DOMAIN j.nstate = Task /\ DOMAIN j.nval = Task
  /\ \A u \in Task : j.nstate[u] = "no" /\ j.nval[u] = {}
  /\ \A u \in Task : (InAList(j, u) <=> u \in S) /\ (IsReady(j, u) <=> u \in S)
  /\ \A u \in S : j.prio[u] <= j.prio[j.cur]
  /\ IF S = {} THEN j.prio[j.cur] = 0 ELSE j.cur \in S
LEMMA NoneCreated ==
  Created(NoTasks(IdleTask), {})
<1> DEFINE j == NoTasks(IdleTask)
<1>1. IdleTask \in Task BY KernelAssumption
<1>2. /\ Good(j) /\ j.cur = IdleTask /\ j.number = 0 /\ j.tick = 0 /\ j.pended = 0 /\ j.susp = 0
      /\ j.missed = FALSE /\ j.pendsv = FALSE /\ j.events["pending"] = <<>>
      /\ j.nstate = [t \in Task |-> "no"] /\ j.nval = [t \in Task |-> {}]
      /\ j.prio = [t \in Task |-> 0] /\ \A t \in Task : ~InAList(j, t)
  BY <1>1, NoTasksGood
<1> HIDE DEF j
<1>3. Cardinality({}) = 0 BY FS_EmptySet
<1>4. Created(j, {}) BY <1>1, <1>2, <1>3 DEF Created, InAList
<1> QED BY <1>4 DEF j
LEMMA OneCreated ==
  ASSUME NEW j, NEW S \in SUBSET Task, Created(j, S), NEW t \in Task \ S, NEW p \in Nat
  PROVE  Created(Create(j, [thread |-> t, prio |-> p]), S \cup {t})
<1> DEFINE i == NewTask(j, t, p, FALSE)
<1>1. /\ Good(j) /\ ~InAList(j, t) /\ DOMAIN j.nstate = Task /\ DOMAIN j.nval = Task
      /\ j.prio \in [Task -> Levels] /\ j.cur \in Task
  BY DEF Created, Good, Sound, Shape
<1>2. Arrived(j, i, t, p) /\ i.cur = IF i.prio[j.cur] <= i.prio[t] THEN t ELSE j.cur
  BY <1>1, NewTaskArrived
<1>3. Create(j, [thread |-> t, prio |-> p]) = i BY DEF Create
<1> HIDE DEF i
<1>4. /\ Good(i) /\ i.tick = 0 /\ i.pended = 0 /\ i.susp = 0 /\ i.missed = FALSE /\ i.pendsv = FALSE
      /\ i.events["pending"] = <<>> /\ i.number = j.number + 1
      /\ i.nstate = [j.nstate EXCEPT ![t] = "no"] /\ i.nval = [j.nval EXCEPT ![t] = {}]
      /\ IsReady(i, t) /\ Concerns(j, i, {t})
  BY <1>2 DEF Arrived, Created, SwitchesAs
<1>5. i.number = Cardinality(S \cup {t})
  <2>1. IsFiniteSet(S) BY KernelAssumption, FS_Subset
  <2>2. Cardinality(S \cup {t}) = Cardinality(S) + 1 BY <2>1, FS_AddElement
  <2> QED BY <1>4, <2>2 DEF Created
<1>6. /\ DOMAIN i.nstate = Task /\ DOMAIN i.nval = Task
      /\ \A u \in Task : i.nstate[u] = "no" /\ i.nval[u] = {}
  BY <1>1, <1>4 DEF Created
<1>7. \A u \in Task \ {t} : /\ InAList(i, u) <=> InAList(j, u)
                            /\ IsReady(i, u) <=> IsReady(j, u)
                            /\ i.prio[u] = j.prio[u]
  BY <1>4 DEF Concerns, AsWas, Stays, InAList, Elsewhere, Dozes
<1>8. \A u \in Task : (InAList(i, u) <=> u \in S \cup {t}) /\ (IsReady(i, u) <=> u \in S \cup {t})
  BY <1>4, <1>7 DEF Created, InAList
<1>9. \A u \in Task : i.prio[u] \in Nat
  <2>1. i.prio \in [Task -> Levels] BY <1>4 DEF Good, Sound, Shape
  <2> QED BY <2>1, TaskListsAssumption DEF Levels
<1>10. i.cur \in S \cup {t} /\ \A u \in S \cup {t} : i.prio[u] <= i.prio[i.cur]
  <2>1. CASE S = {}
    <3>1. i.cur = t BY <1>1, <1>2, <1>7, <1>9, <2>1 DEF Created
    <3> QED BY <1>9, <2>1, <3>1
  <2>2. CASE S # {}
    <3>1. j.cur \in S /\ j.cur # t /\ i.prio[j.cur] = j.prio[j.cur] BY <1>7, <2>2 DEF Created
    <3>2. \A u \in S : i.prio[u] <= i.prio[j.cur] BY <1>7, <3>1 DEF Created
    <3>3. CASE i.prio[j.cur] <= i.prio[t]
      <4>1. i.cur = t BY <1>2, <3>3
      <4>2. \A u \in S : i.prio[u] <= i.prio[t] BY <1>9, <3>1, <3>2, <3>3
      <4>3. i.prio[t] <= i.prio[t] BY <1>9
      <4> QED BY <4>1, <4>2, <4>3
    <3>4. CASE ~(i.prio[j.cur] <= i.prio[t])
      <4>1. i.cur = j.cur BY <1>2, <3>4
      <4>2. i.prio[t] <= i.prio[j.cur] BY <1>9, <3>1, <3>4
      <4> QED BY <3>1, <3>2, <4>1, <4>2
    <3> QED BY <3>3, <3>4
  <2> QED BY <2>1, <2>2
<1> QED BY <1>3, <1>4, <1>5, <1>6, <1>8, <1>10 DEF Created

LEMMA AllCreated ==
  ASSUME NEW p, Sensible(p)
  PROVE  \E S \in SUBSET Task : IdleTask \in S /\ Created(Started(p), S)
<1> DEFINE k0 == NoTasks(IdleTask)
           n == Len(p.tasks)
           s == [i \in DOMAIN p.tasks |-> [thread |-> p.tasks[i], prio |-> p.prio[p.tasks[i]]]]
           j == FoldLeft(Create, k0, s)
           S(i) == {p.tasks[m] : m \in 1 .. i}
<1>1. /\ p.tasks \in Seq(Task \ {IdleTask}) /\ IsInjective(p.tasks) /\ p.prio \in [Task -> Nat]
      /\ IdleTask \in Task /\ n \in Nat /\ DOMAIN p.tasks = 1 .. n
  BY KernelAssumption DEF Sensible
<1>2. j = Creation!Fold(k0, s)
  BY SMT DEF FoldLeft, MapThenFoldSet, Max, Creation!Fold, Creation!Greatest
<1>3. Creation!Unrolled(k0, n, s, Creation!Fold(k0, s))
  <2>1. DOMAIN s = 1 .. n BY <1>1
  <2> HIDE DEF s
  <2> QED BY <1>1, <2>1, Creation!FoldTrace, Zenon
<1> HIDE DEF j
<1>4. PICK g : g[0] = k0 /\ (\A i \in 1 .. n : g[i] = Create(g[i - 1], s[i])) /\ j = g[n]
  BY <1>2, <1>3, Zenon DEF Creation!Unrolled
<1> DEFINE T == {i \in Nat : i <= n => Created(g[i], S(i))}
<1>5. 0 \in T
  <2>1. S(0) = {} OBVIOUS
  <2> QED BY <1>4, <2>1, NoneCreated
<1>6. ASSUME NEW i \in Nat, i \in T PROVE i + 1 \in T
  <2>1. SUFFICES ASSUME i + 1 <= n PROVE Created(g[i + 1], S(i + 1)) OBVIOUS
  <2>2. Created(g[i], S(i)) BY <1>1, <1>6, <2>1
  <2>3. i + 1 \in 1 .. n /\ (i + 1) - 1 = i /\ \A m \in 1 .. i : m \in 1 .. n /\ m # i + 1
    BY <1>1, <2>1
  <2> DEFINE t == p.tasks[i + 1]
  <2>4. t \in Task /\ p.prio[t] \in Nat /\ \A m \in 1 .. i : p.tasks[m] \in Task
    BY <1>1, <2>3
  <2>5. t \notin S(i) BY <1>1, <2>3 DEF IsInjective
  <2>6. S(i + 1) = S(i) \cup {t}
    <3>1. \A m : m \in 1 .. i + 1 <=> m \in 1 .. i \/ m = i + 1 OBVIOUS
    <3> QED BY <3>1
  <2>7. g[i + 1] = Create(g[i], [thread |-> t, prio |-> p.prio[t]])
    <3>1. s[i + 1] = [thread |-> t, prio |-> p.prio[t]] BY <1>1, <2>3
    <3> HIDE DEF s, t
    <3> QED BY <1>4, <2>3, <3>1
  <2>8. S(i) \in SUBSET Task BY <2>4
  <2> HIDE DEF t, S
  <2> QED BY <2>2, <2>4, <2>5, <2>6, <2>7, <2>8, OneCreated
<1> HIDE DEF T
<1>7. Nat \subseteq T BY <1>5, <1>6, Creation!SetInduction, Zenon
<1>8. Created(j, S(n))
  <2>1. n \in T BY <1>1, <1>7
  <2>2. n <= n BY <1>1
  <2> HIDE DEF S
  <2>3. Created(g[n], S(n)) BY <2>1, <2>2, Zenon DEF T
  <2>4. j = g[n] BY <1>4
  <2> QED BY <2>3, <2>4
<1>9. S(n) \in SUBSET Task /\ IdleTask \notin S(n) BY <1>1
<1>10. Started(p) = Create(j, [thread |-> IdleTask, prio |-> 0]) BY DEF Started, j
<1> HIDE DEF S
<1>11. Created(Started(p), S(n) \cup {IdleTask}) BY <1>1, <1>8, <1>9, <1>10, OneCreated
<1> QED BY <1>1, <1>9, <1>11

LEMMA InitHolds ==
  ASSUME Init
  PROVE  IInv
<1>1. /\ program \in Programs /\ k = Started(program) /\ pc = [t \in Task |-> "user"]
      /\ frame = [t \in Task |-> NoCall] /\ left = [t \in Task |-> 0] /\ systicks = 0
  BY DEF Init, SchedInit
<1>2. PICK S \in SUBSET Task : IdleTask \in S /\ Created(k, S)
  BY <1>1, AllCreated, KernelAssumption
<1>3. /\ Good(k) /\ k.tick = 0 /\ k.pended = 0 /\ k.susp = 0 /\ k.missed = FALSE /\ k.pendsv = FALSE
      /\ k.events["pending"] = <<>> /\ k.number = Cardinality(S)
      /\ DOMAIN k.nstate = Task /\ DOMAIN k.nval = Task
      /\ \A u \in Task : k.nstate[u] = "no" /\ k.nval[u] = {}
      /\ \A u \in Task : (InAList(k, u) <=> u \in S) /\ (IsReady(k, u) <=> u \in S)
      /\ \A u \in S : k.prio[u] <= k.prio[k.cur]
      /\ k.cur \in S
  BY <1>2 DEF Created
<1>4. \A u : ~Pend(k, u) BY <1>3 DEF Pend, Contains
<1>5. \A u \in Task : ~Dozes(k, u)
  BY <1>3 DEF Good, Single, Dozes, Elsewhere, InAList
<1>6. Typed BY <1>1, <1>3 DEF Typed
<1>7. Turns BY <1>1, <1>2, <1>3, <1>4 DEF Turns
<1>8. Counts1
  <2>1. {t \in Task : InAList(k, t)} = S BY <1>3
  <2>2. (0 + 0) % TickRange = 0 /\ 0 \in Ticks
    <3>1. 0 \in Ticks /\ 0 \in 0 .. MaxDelay /\ 0 + 0 < TickRange
      BY TaskListsAssumption DEF Ticks, MaxDelay
    <3> QED BY <3>1, TicksAdd
  <2>3. IsInjective(<<>>) BY DEF IsInjective
  <2>4. /\ k.pended \in 0 .. MaxPended /\ k.susp \in 0 .. MaxNesting
        /\ k.missed \in BOOLEAN /\ k.pendsv \in BOOLEAN
    <3>1. k.pended = 0 /\ k.susp = 0 /\ k.missed = FALSE /\ k.pendsv = FALSE BY <1>3
    <3>2. 0 \in 0 .. MaxPended /\ 0 \in 0 .. MaxNesting BY KernelAssumption
    <3>3. FALSE \in BOOLEAN OBVIOUS
    <3> QED BY <3>1, <3>2, <3>3, Zenon
  <2>5. systicks \in Ticks /\ (k.tick + k.pended) % TickRange = systicks BY <1>1, <1>3, <2>2
  <2>6. IsInjective(k.events["pending"]) BY <1>3, <2>3
  <2>7. k.number = Cardinality({t \in Task : InAList(k, t)}) BY <1>3, <2>1
  <2> QED BY <1>3, <2>4, <2>5, <2>6, <2>7 DEF Counts1
<1>9. ASSUME NEW t \in Task PROVE Task1(t)
  <2>1. InCall(t) BY <1>1 DEF InCall, Locations
  <2>2. Notified(t) BY <1>1, <1>3, <1>4 DEF Notified
  <2>3. Remains(t) BY <1>1, <1>5 DEF Remains
  <2> QED BY <2>1, <2>2, <2>3 DEF Task1
<1> QED BY <1>6, <1>7, <1>8, <1>9 DEF IInv

-----------------------------------------------------------------------------
(* The invariant is inductive: a step of a task, an interrupt, the tick and  *)
(* the switch each keep it.                                                  *)
LEMMA StepsKeep ==
  ASSUME IInv, Steps, UNCHANGED systicks
  PROVE  IInv'
<1>1. CASE Delay \/ DelayPlace \/ DelayUntil \/ Until \/ UntilPlace \/ Resume \/ YieldWithinAPI
  BY <1>1, DelayKeeps, DelayPlaceKeeps, DelayUntilKeeps, UntilKeeps, UntilPlaceKeeps, ResumeKeeps, YieldKeeps, Zenon
<1>2. CASE ThreadYield \/ KernelLock \/ KernelUnlock \/ KernelRestoreLock
  BY <1>2, ThreadYieldKeeps, KernelLockKeeps, KernelUnlockKeeps, KernelRestoreLockKeeps, Zenon
<1>3. CASE FlagsSet \/ FlagsQuery \/ Notify \/ NotifyAsserts
  BY <1>3, FlagsSetKeeps, FlagsQueryKeeps, NotifyKeeps, NotifyAssertsKeeps, Zenon
<1>4. CASE FlagsWait \/ NotifyWait \/ FlagsWaitDone \/ FlagsWaitAgain
  BY <1>4, FlagsWaitKeeps, NotifyWaitKeeps, FlagsWaitDoneKeeps, FlagsWaitAgainKeeps, Zenon
<1>5. CASE FlagsGet \/ FlagsClear \/ FlagsWriteBack \/ NotifyTake \/ NotifyTakeDone
  BY <1>5, FlagsGetKeeps, FlagsClearKeeps, FlagsWriteBackKeeps, NotifyTakeKeeps, NotifyTakeDoneKeeps, Zenon
<1>6. CASE NotifyStateClear \/ NotifyValueClear
  BY <1>6, NoteStateClearKeeps, NoteValueClearKeeps, Zenon
<1>7. CASE Suspend \/ SuspendReset \/ ThreadResume \/ SetPriority
  BY <1>7, SuspendKeeps, SuspendResetKeeps, ThreadResumeKeeps, SetPriorityKeeps, Zenon
<1>8. CASE ThreadNew \/ Terminate \/ Exit \/ Enumerate \/ Listed \/ IdleFrees \/ IdleYields
  BY <1>8, ThreadNewKeeps, TerminateKeeps, ExitKeeps, EnumerateKeeps, ListedKeeps, IdleFreesKeeps, IdleYieldsKeeps, Zenon
<1> QED BY <1>1, <1>2, <1>3, <1>4, <1>5, <1>6, <1>7, <1>8, Zenon DEF Steps

(* In every state the kernel reaches its lists are sound, the most urgent    *)
(* ready task has the processor or is about to get it, its counters agree    *)
(* with the lists and with the timer interrupts, and every task's references *)
(* agree with where its call is (tasks.c, the thread part of cmsis_os2.c).   *)
THEOREM KernelInvariant == Spec => []IInv
<1>1. Init => IInv BY InitHolds
<1>2. IInv /\ [Next]_vars => IInv'
  <2> SUFFICES ASSUME IInv, [Next]_vars PROVE IInv' OBVIOUS
  <2>1. CASE KernelTick BY <2>1, KernelTickKeeps, Zenon
  <2>2. CASE (PendSV \/ AssertFailed) /\ UNCHANGED <<left, systicks>>
    BY <2>2, PendSVKeeps, AssertFailedKeeps, Zenon
  <2>3. CASE Interrupts /\ UNCHANGED systicks
    BY <2>3, FlagsSetFromISRKeeps, NotifyGiveFromISRKeeps, ResumeFromISRKeeps, Zenon DEF Interrupts
  <2>4. CASE Steps /\ UNCHANGED systicks BY <2>4, StepsKeep, Zenon
  <2>5. CASE UNCHANGED vars BY <2>5, Stutter, Zenon
  <2> QED BY <2>1, <2>2, <2>3, <2>4, <2>5, Zenon DEF Next
<1> QED BY <1>1, <1>2, PTL DEF Spec

-----------------------------------------------------------------------------
(* No SysTick interrupt is forgotten or counted twice, however long and      *)
(* nested the suspensions of the scheduler were (xTaskIncrementTick holds    *)
(* ticks back in xPendedTicks, xTaskResumeAll replays them).                 *)
THEOREM TicksAreConserved == Spec => []TicksConserved
<1>1. IInv => TicksConserved BY Zenon DEF IInv, Counts1, TicksConserved
<1> QED BY <1>1, KernelInvariant, PTL

(* Whenever a task runs its own code, with the scheduler running and no      *)
(* switch pending, it is ready and no ready task is more urgent: every path  *)
(* that makes a task ready or changes a priority asks for the switch         *)
(* (vTaskSwitchContext and its callers in tasks.c).                          *)
THEOREM MostUrgentRuns == Spec => []HighestRuns
<1>1. IInv => HighestRuns
  <2> SUFFICES ASSUME IInv, k.susp = 0, ~k.pendsv, pc[k.cur] = "user"
               PROVE  IsReady(k, k.cur) /\ \A t \in Task : IsReady(k, t) => k.prio[t] <= k.prio[k.cur]
    BY DEF HighestRuns
  <2>1. Turns BY Zenon DEF IInv
  <2>2. pc[k.cur] \notin {"yield", "asserted", "resume"} OBVIOUS
  <2>3. ~k.missed
    <3>1. ~(0 > 0) OBVIOUS
    <3>2. k.missed => k.susp > 0 \/ k.pendsv BY <2>1, Zenon DEF Turns
    <3> QED BY <3>1, <3>2, Zenon
  <2>4. \A t \in Task : IsReady(k, t) => k.prio[t] <= k.prio[k.cur]
    BY <2>1, <2>2, <2>3, Zenon DEF Turns
  <2>5. pc[k.cur] # "suspended" /\ pc[k.cur] # "yield" OBVIOUS
  <2>6. IsReady(k, k.cur) BY <2>1, <2>2, <2>5, Zenon DEF Turns, GoneToSleep
  <2> QED BY <2>4, <2>6, Zenon
<1> QED BY <1>1, KernelInvariant, PTL

(* A task that waits for a notification and has been given one is ready, or  *)
(* becomes ready when the scheduler resumes, unless some task suspends it    *)
(* (xTaskGenericNotify, its FromISR forms and xTaskResumeAll).               *)
THEOREM NoWakeupIsLost == Spec => []NoLostWakeup
<1>1. IInv => NoLostWakeup
  <2> SUFFICES ASSUME IInv, NEW t \in Task, t \notin Suspendable,
                      pc[t] \in {"take", "count"}, k.nstate[t] = "received"
               PROVE  IsReady(k, t) \/ Contains(k.events["pending"], t)
    BY Zenon DEF NoLostWakeup
  <2>1. Notified(t) BY Zenon DEF IInv, Task1
  <2>2. k.nstate[t] # "waiting" OBVIOUS
  <2>3. IsReady(k, t) \/ Pend(k, t) BY <2>1, <2>2, Zenon DEF Notified
  <2> QED BY <2>3, Zenon DEF Pend
<1> QED BY <1>1, KernelInvariant, PTL

-----------------------------------------------------------------------------
(* The kernel's lists.                                                       *)
LEMMA TypesAreOK ==
  ASSUME IInv
  PROVE  TypeOK
<1>1. /\ program \in Programs /\ Good(k) /\ \A t \in Task : InCall(t) /\ Notified(t) /\ Remains(t)
  BY Zenon DEF IInv, Typed, Task1
<1>2. /\ k.cur \in Task /\ k.top \in Levels /\ k.prio \in [Task -> Levels]
      /\ k.tick \in Ticks /\ k.unblock \in Ticks
  BY <1>1, Zenon DEF Good, Sound, Shape, OnTime, TimedFrom, Alarm
<1>3. systicks \in Ticks /\ k.pended \in 0 .. MaxPended /\ k.susp \in 0 .. MaxNesting
  BY Zenon DEF IInv, Counts1
<1>4. /\ MaxLate \in Nat /\ TickRange \in Nat \ {0, 1} /\ MaxDelay = TickRange - 1
  BY KernelAssumption, TaskListsAssumption DEF MaxDelay
<1>5. TickRange \div 2 \in Nat /\ TickRange \div 2 <= TickRange BY <1>4
<1>6. ASSUME NEW t \in Task
      PROVE  k.prio[t] \in Levels /\ k.nval[t] \subseteq Bits /\ left[t] \in -MaxLate .. TickRange
  <2>1. k.prio[t] \in Levels /\ k.nval[t] \subseteq Bits BY <1>1, <1>2 DEF Notified
  <2>2. CASE pc[t] \in {"until", "untilPlace"}
    <3>1. frame[t].prev \in Ticks /\ frame[t].n \in 1 .. (TickRange \div 2) - 1
      BY <1>1, <2>2, Zenon DEF InCall
    <3>2. Since(t) \in 0 .. TickRange - 1
      <4>1. k.tick - frame[t].prev \in Int BY <1>2, <1>4, <3>1 DEF Ticks
      <4> QED BY <1>4, <4>1 DEF Since
    <3>3. left[t] = IF frame[t].n - Since(t) < -MaxLate THEN -MaxLate ELSE frame[t].n - Since(t)
      BY <1>1, <2>2, Zenon DEF Remains
    <3> QED BY <1>4, <1>5, <2>1, <3>1, <3>2, <3>3
  <2>3. CASE pc[t] \notin {"until", "untilPlace"}
    <3>1. \/ left[t] \in 1 .. MaxDelay \/ left[t] = 0
          \/ left[t] \in -MaxLate .. 0 \/ left[t] \in -MaxLate .. MaxDelay
      BY <1>1, <2>3, Zenon DEF Remains
    <3> QED BY <1>4, <2>1, <3>1
  <2> QED BY <2>2, <2>3
<1> QED BY <1>1, <1>2, <1>3, <1>6, Zenon DEF TypeOK

LEMMA AtMostOne ==
  ASSUME NEW S, \A x, y \in S : x = y
  PROVE  Cardinality(S) \in {0, 1} /\ (S = {} => Cardinality(S) = 0)
<1>1. CASE S = {} BY <1>1, FS_EmptySet
<1>2. CASE S # {}
  <2>1. PICK x \in S : TRUE BY <1>2
  <2>2. S = {x} BY <2>1
  <2> QED BY <1>2, <2>2, FS_Singleton
<1> QED BY <1>1, <1>2

LEMMA EachInOneList ==
  ASSUME IInv
  PROVE  OneList
<1>1. Good(k) BY Zenon DEF IInv, Typed
<1> SUFFICES ASSUME NEW t \in Task
             PROVE  /\ Cardinality({p \in Levels : Contains(k.ready[p], t)})
                       + Cardinality({l \in {"delayed", "overflow", "dead"} : Contains(k[l], t)})
                       + (IF t \in k.suspended THEN 1 ELSE 0) <= 1
                    /\ IsReady(k, t) => Contains(k.ready[k.prio[t]], t) /\ k.prio[t] <= k.top
  BY DEF OneList
<1> DEFINE R == {p \in Levels : Contains(k.ready[p], t)}
           L == {l \in {"delayed", "overflow", "dead"} : Contains(k[l], t)}
<1>2. \A p \in Levels : Contains(k.ready[p], t) => p = k.prio[t] /\ p <= k.top
  BY <1>1 DEF Good, Sound, Rings
<1>3. \A p, q \in R : p = q BY <1>2
<1>4. R # {} <=> IsReady(k, t) BY DEF IsReady
<1>5. /\ IsReady(k, t) => ~Elsewhere(k, t)
      /\ Contains(k.delayed, t) => ~Contains(k.overflow, t) /\ ~Contains(k.dead, t) /\ t \notin k.suspended
      /\ Contains(k.overflow, t) => ~Contains(k.dead, t) /\ t \notin k.suspended
      /\ Contains(k.dead, t) => t \notin k.suspended
  BY <1>1 DEF Good, Single
<1>6. /\ k["delayed"] = k.delayed /\ k["overflow"] = k.overflow /\ k["dead"] = k.dead OBVIOUS
<1>7. /\ "delayed" \in L <=> Contains(k.delayed, t)
      /\ "overflow" \in L <=> Contains(k.overflow, t)
      /\ "dead" \in L <=> Contains(k.dead, t)
  BY <1>6
<1>8. L \subseteq {"delayed", "overflow", "dead"} OBVIOUS
<1>9. /\ L # {} => t \notin k.suspended /\ R = {}
      /\ t \in k.suspended => R = {}
  BY <1>4, <1>5, <1>7, <1>8 DEF Elsewhere
<1>10. \A l, m \in L : l = m BY <1>5, <1>7, <1>8
<1>11. IsReady(k, t) => Contains(k.ready[k.prio[t]], t) /\ k.prio[t] <= k.top BY <1>2 DEF IsReady
<1> HIDE DEF R, L
<1>12. /\ Cardinality(R) \in {0, 1} /\ (R = {} => Cardinality(R) = 0)
       /\ Cardinality(L) \in {0, 1} /\ (L = {} => Cardinality(L) = 0)
  BY <1>3, <1>10, AtMostOne
<1>13. Cardinality(R) + Cardinality(L) + (IF t \in k.suspended THEN 1 ELSE 0) <= 1
  <2>1. CASE t \in k.suspended BY <1>9, <1>12, <2>1
  <2>2. CASE t \notin k.suspended BY <1>9, <1>12, <2>2
  <2> QED BY <2>1, <2>2
<1> QED BY <1>11, <1>13 DEF R, L

LEMMA DelayedAreAhead ==
  ASSUME IInv
  PROVE  DelayedAhead
<1>1. Good(k) BY Zenon DEF IInv, Typed
<1>2. /\ k.delayed \in Seq(Task) /\ k.overflow \in Seq(Task)
      /\ k.wake \in [Task -> Ticks] /\ k.tick \in Ticks
      /\ Ordered(k.delayed, k.wake) /\ Ordered(k.overflow, k.wake)
      /\ \A t \in Task : Contains(k.delayed, t) => k.wake[t] >= k.tick + 1
      /\ \A t \in Task : Contains(k.overflow, t) => k.wake[t] < k.tick
      /\ k.delayed # <<>> => k.unblock <= k.wake[Head(k.delayed)]
  BY <1>1, Zenon DEF Good, Sound, OtherLists, OnTime, TimedFrom, Alarm
<1>3. TickRange \in Nat BY TaskListsAssumption
<1>4. ASSUME NEW l, l \in Seq(Task) PROVE \A i \in DOMAIN l : l[i] \in Task /\ Contains(l, l[i])
  BY <1>4 DEF Contains
<1>5. \A i \in DOMAIN k.delayed : k.wake[k.delayed[i]] > k.tick
  <2> TAKE i \in DOMAIN k.delayed
  <2> DEFINE u == k.delayed[i]
  <2>1. u \in Task /\ Contains(k.delayed, u) BY <1>2, <1>4
  <2> HIDE DEF u
  <2>2. k.wake[u] \in Ticks /\ k.wake[u] >= k.tick + 1 BY <1>2, <2>1
  <2>3. k.wake[u] > k.tick BY <1>2, <1>3, <2>2 DEF Ticks
  <2> QED BY <2>3 DEF u
<1>6. \A i \in DOMAIN k.overflow : k.wake[k.overflow[i]] < k.tick BY <1>2, <1>4
<1>7. ASSUME NEW l, l \in Seq(Task), Ordered(l, k.wake)
      PROVE  \A i, j \in DOMAIN l : i < j => k.wake[l[i]] <= k.wake[l[j]]
  <2>1. DOMAIN l = 1 .. Len(l) /\ Len(l) \in Nat BY <1>7
  <2>2. \A i, j \in 1 .. Len(l) : i < j => i <= j BY <2>1
  <2> QED BY <1>7, <2>1, <2>2 DEF Ordered
<1>8. \A l \in {k.delayed, k.overflow} :
        \A i, j \in DOMAIN l : i < j => k.wake[l[i]] <= k.wake[l[j]]
  BY <1>2, <1>7, Zenon
<1> QED BY <1>2, <1>5, <1>6, <1>8, Zenon DEF DelayedAhead

LEMMA TasksAreAccounted ==
  ASSUME IInv
  PROVE  Accounted
<1> DEFINE as == [eRunning |-> "osThreadRunning", eReady |-> "osThreadReady",
                  eDeleted |-> "osThreadTerminated", eBlocked |-> "osThreadBlocked",
                  eSuspended |-> "osThreadBlocked"]
<1>1. Good(k) /\ k.number = Cardinality({t \in Task : InAList(k, t)})
  BY Zenon DEF IInv, Typed, Counts1
<1>2. k["delayed"] = k.delayed /\ k["overflow"] = k.overflow /\ k["dead"] = k.dead OBVIOUS
<1>3. Enumerated(k) = {t \in Task : InAList(k, t)}
  <2>1. \A t : (\E l \in {"delayed", "overflow", "dead"} : Contains(k[l], t))
                 <=> Contains(k.delayed, t) \/ Contains(k.overflow, t) \/ Contains(k.dead, t)
    BY <1>2
  <2> QED BY <2>1 DEF Enumerated, InAList, Elsewhere
<1>4. Cardinality(Enumerated(k)) = k.number BY <1>1, <1>3
<1>5. ASSUME NEW t \in Task
      PROVE  /\ IsReady(k, t) => ~Elsewhere(k, t)
             /\ Contains(k.dead, t) => /\ ~Contains(k.delayed, t) /\ ~Contains(k.overflow, t)
                                       /\ t \notin k.suspended /\ ~IsReady(k, t)
  BY <1>1, Zenon DEF Good, Single, Elsewhere
<1>6. /\ as["eRunning"] = "osThreadRunning" /\ as["eReady"] = "osThreadReady"
      /\ as["eDeleted"] = "osThreadTerminated" /\ as["eBlocked"] = "osThreadBlocked"
      /\ as["eSuspended"] = "osThreadBlocked"
  OBVIOUS
<1> HIDE DEF as
<1>7. ASSUME NEW t \in Task, InAList(k, t) PROVE as[ListedState(k, t)] = ThreadState(t)
  <2>1. CASE t = k.cur
    <3>1. ListedState(k, t) = "eRunning" /\ TaskState(k, t) = "eRunning" BY <2>1 DEF ListedState, TaskState
    <3> QED BY <1>6, <3>1 DEF ThreadState
  <2>2. CASE t # k.cur /\ IsReady(k, t)
    <3>1. ListedState(k, t) = "eReady" BY <1>5, <2>2 DEF ListedState, Elsewhere
    <3>2. TaskState(k, t) = "eReady" BY <1>5, <2>2 DEF TaskState, Elsewhere
    <3> QED BY <1>6, <3>1, <3>2 DEF ThreadState
  <2>3. CASE t # k.cur /\ Contains(k.dead, t)
    <3>1. ListedState(k, t) = "eDeleted" BY <1>5, <2>3 DEF ListedState
    <3>2. TaskState(k, t) = "eDeleted" BY <1>5, <2>3 DEF TaskState
    <3> QED BY <1>6, <3>1, <3>2 DEF ThreadState
  <2>4. CASE t # k.cur /\ ~IsReady(k, t) /\ ~Contains(k.dead, t)
    <3>1. ListedState(k, t) \in {"eBlocked", "eSuspended"} BY <2>4 DEF ListedState
    <3>2. TaskState(k, t) \in {"eBlocked", "eSuspended"} BY <1>7, <2>4 DEF TaskState, InAList, Elsewhere
    <3> QED BY <1>6, <3>1, <3>2 DEF ThreadState
  <2> QED BY <2>1, <2>2, <2>3, <2>4
<1>8. ASSUME NEW t \in Task, ~InAList(k, t), t # k.cur PROVE ThreadState(t) = "osThreadTerminated"
  <2>1. TaskState(k, t) = "eDeleted" BY <1>8 DEF TaskState, InAList, Elsewhere
  <2> QED BY <2>1 DEF ThreadState
<1> QED BY <1>3, <1>4, <1>7, <1>8 DEF Accounted, as

(* The kernel's lists are sound: a task is in at most one, a ready one where *)
(* the search finds it; whoever sleeps is ahead of the tick, or behind it in *)
(* the overflow list, in the order of waking, and the alarm is never late;   *)
(* and the count and the enumeration of the tasks are true (tasks.c).        *)
THEOREM ListsAreSound == Spec => []ListsSound
<1>1. IInv => ListsSound
  BY TypesAreOK, EachInOneList, DelayedAreAhead, TasksAreAccounted, Zenon DEF ListsSound
<1> QED BY <1>1, KernelInvariant, PTL

(* A delay or a timed wait ends at the tick it named, neither later nor      *)
(* earlier, also when the count of ticks wraps and when ticks were held back *)
(* (vTaskDelay, vTaskDelayUntil, prvAddCurrentTaskToDelayedList,             *)
(* xTaskIncrementTick).                                                      *)
THEOREM DelaysAreExact == Spec => []DelaysExact
<1>1. IInv => DelaysExact
  <2> SUFFICES ASSUME IInv, NEW t \in Task
               PROVE  /\ Sleeping(t) /\ ~OnEventList(k, t) =>
                           left[t] > 0 /\ left[t] = (k.wake[t] - k.tick) % TickRange
                      /\ pc[t] = "user" /\ IsReady(k, t) => left[t] = 0
    BY Zenon DEF DelaysExact
  <2>1. Good(k) /\ Remains(t) BY Zenon DEF IInv, Typed, Task1
  <2>2. ASSUME Sleeping(t), ~OnEventList(k, t)
        PROVE  left[t] > 0 /\ left[t] = (k.wake[t] - k.tick) % TickRange
    <3>1. Dozes(k, t) BY <2>2 DEF Sleeping, Dozes
    <3>2. ~Pend(k, t)
      <4>1. "pending" \in DOMAIN k.events BY <2>1 DEF Good, Sound, Shape
      <4> QED BY <2>2, <4>1, Zenon DEF OnEventList, Pend
    <3>3. left[t] \in 1 .. MaxDelay /\ left[t] = (k.wake[t] - k.tick) % TickRange
      BY <2>1, <3>1, <3>2, Zenon DEF Remains
    <3>4. MaxDelay \in Nat BY TaskListsAssumption DEF MaxDelay
    <3> QED BY <3>3, <3>4
  <2>3. ASSUME pc[t] = "user", IsReady(k, t) PROVE left[t] = 0
    <3>1. ~Dozes(k, t) BY <2>1, <2>3, Zenon DEF Good, Single, Elsewhere, Dozes
    <3>2. pc[t] \notin {"until", "untilPlace"} /\ pc[t] # "resume" /\ pc[t] # "asserted" BY <2>3
    <3> QED BY <2>1, <3>1, <3>2, Zenon DEF Remains
  <2> QED BY <2>2, <2>3
<1> QED BY <1>1, KernelInvariant, PTL
=============================================================================
