------------------------------ MODULE Ownership ------------------------------
(***************************************************************************)
(* Whose memory it is: what the creation of a thread, timer, pool, queue,    *)
(* event group or stream buffer takes from the heap, part by part, what it   *)
(* gives back when a part is not to be had, and who gives back the rest when *)
(* the object is deleted: the caller, the idle task or the timer task.       *)
(* Every pvPortMalloc and vPortFree is a step; in between other tasks        *)
(* allocate.  What an object does is modelled in the module of its kind.     *)
(***************************************************************************)
EXTENDS Objects, Heap, FiniteSetsExt

CONSTANTS
  Things,   \* the objects made here
  Outside   \* memory the caller supplies

ownerVars == <<objectVars, heap>>

(* The parts of an object: so many bytes of the heap, memory from Outside,   *)
(* or, when the attributes are neither complete nor empty, Nothing.          *)
(* xTaskCreate: the stack, then the control block.                           *)
xTaskCreate(c) == <<c.stack, c.tcb>>
xTaskCreateStatic == <<Outside, Outside>>
ThreadParts(c) ==
  CASE c.given = "all" -> xTaskCreateStatic
    [] c.given = "none" -> xTaskCreate(c)
    [] c.given = "some" -> <<Nothing>>
(* Whatever needs one block of the heap, a queue and its ring for one: in    *)
(* the block, or in what the caller supplies instead.                        *)
OneBlock(c, supplied) ==
  CASE c.given = "all" -> supplied
    [] c.given = "none" -> <<c.bytes>>
    [] c.given = "some" -> <<Nothing>>
xQueueGenericCreateStatic == <<Outside>>
xQueueCreateMutexStatic == xQueueGenericCreateStatic
xQueueCreateCountingSemaphoreStatic == xQueueGenericCreateStatic
xEventGroupCreateStatic == <<Outside>>
xStreamBufferGenericCreateStatic == <<Outside, Outside>>  \* its ring, and itself
(* osTimerNew: what its function is called with, then the timer.             *)
xTimerCreate(c) == <<c.bytes>>
xTimerCreateStatic == <<Outside>>
TimerParts(c) ==
  <<c.callb>> \o (CASE c.given = "all" -> xTimerCreateStatic
                    [] c.given = "none" -> xTimerCreate(c)
                    [] c.given = "some" -> <<Nothing>>)
(* osMemoryPoolNew decides for its two parts apart, and takes what the       *)
(* attributes give even when it is not fit.                                  *)
PoolParts(c) ==
  <<IF c.given \in {"none", "array"} THEN c.bytes ELSE Outside,
    IF c.given \in {"none", "block"} THEN c.array ELSE Outside>>
Parts(c) ==
  CASE c.kind = "thread" -> ThreadParts(c)
    [] c.kind = "queue" -> OneBlock(c, xQueueGenericCreateStatic)
    [] c.kind = "mutex" -> OneBlock(c, xQueueCreateMutexStatic)
    [] c.kind = "semaphore" -> OneBlock(c, xQueueCreateCountingSemaphoreStatic)
    [] c.kind = "group" -> OneBlock(c, xEventGroupCreateStatic)
    [] c.kind = "stream" -> OneBlock(c, xStreamBufferGenericCreateStatic)
    [] c.kind = "timer" -> TimerParts(c)
    [] c.kind = "pool" -> PoolParts(c)

(* ucStaticallyAllocated, and the status of a pool: what is to be freed.     *)
FromHeap(own) == FoldLeft(LAMBDA s, b : IF b = Outside THEN s ELSE Append(s, b), <<>>, own)
(* Faulty variant: what was obtained before the failure is forgotten.        *)
OnFailureForgets(have) == <<>>
OnFailure(have) == FromHeap(have)

Make ==
  \E c \in Calls("make") :
    /\ obj[c.on].kind = "none"
    /\ Moves("user", "obtain", k) /\ UNCHANGED <<obj, heap>>
    /\ Enter([op |-> "make", on |-> c.on, kind |-> c.kind, want |-> Parts(c), have |-> <<>>,
              next |-> "obtain", blocks |-> FALSE])
HeapCall(to) == Moves(pc[k.cur], to, SuspendAll(k)) /\ UNCHANGED obj
Has(part, next) == Enter([Here EXCEPT !.want = Tail(@), !.have = Append(@, part), !.next = next])
GoesBack == Enter([Here EXCEPT !.have = OnFailure(@), !.next = "giveBack"])
Asked == pc[k.cur] = "obtain" /\ Here.want # <<>>
Obtain ==
  /\ Asked /\ Head(Here.want) \notin {Outside, Nothing}
  /\ HeapCall("resume")
  /\ IF Fits(Head(Here.want)) = {} THEN GoesBack /\ UNCHANGED heap
     ELSE \E b \in heap.free :
            Malloc(Head(Here.want), b) /\ Has(Taken(Head(Here.want), b), "obtain")
Supplied ==
  /\ Asked /\ Head(Here.want) = Outside
  /\ Moves("obtain", "obtain", k) /\ Has(Outside, "obtain") /\ UNCHANGED <<obj, heap>>
Refused ==
  /\ Asked /\ Head(Here.want) = Nothing
  /\ Moves("obtain", "giveBack", k) /\ GoesBack /\ UNCHANGED <<obj, heap>>
Made ==
  /\ pc[k.cur] = "obtain" /\ Here.want = <<>>
  /\ Put(Here.on, [kind |-> Here.kind, own |-> Here.have])
  /\ Returns("obtain", k) /\ UNCHANGED heap
GiveBack ==
  /\ pc[k.cur] = "giveBack"
  /\ IF Here.have = <<>> THEN Returns("giveBack", k) /\ UNCHANGED <<obj, heap>>
     ELSE /\ HeapCall("resume") /\ FreeMemory(Head(Here.have))
          /\ Enter([Here EXCEPT !.have = Tail(@), !.next = "giveBack"])

(* vTaskDelete of another thread (prvDeleteTCB) and osMemoryPoolDelete free  *)
(* everything inside their critical section.                                 *)
DeleteAtOnce ==
  \E c \in Calls("unmake") :
    /\ obj[c.on].kind \in {"thread", "pool"}
    /\ Moves("user", "user", ResumeAll(SuspendAll(k))) /\ UNCHANGED frame
    /\ Put(c.on, NoObject) /\ heap' = FoldLeft(Freed, heap, FromHeap(obj[c.on].own))
Frees(x, blocks) ==
  /\ Moves("user", "giveBack", k) /\ UNCHANGED heap
  /\ Enter([op |-> "unmake", on |-> x, have |-> blocks, next |-> "giveBack", blocks |-> FALSE])
DeleteOne ==
  \E c \in Calls("unmake") :
    /\ obj[c.on].kind \in {"queue", "mutex", "semaphore", "group", "stream"}
    /\ Put(c.on, NoObject) /\ Frees(c.on, FromHeap(obj[c.on].own))
(* osTimerDelete sends the command to the timer task and frees what it gave  *)
(* the timer's function; the timer itself is freed with the command          *)
(* (prvProcessReceivedCommands).                                             *)
DeleteTimer ==
  \E c \in Calls("unmake") :
    /\ obj[c.on].kind = "timer"
    /\ Put(c.on, [kind |-> "deleted timer", own |-> Tail(obj[c.on].own)])
    /\ Frees(c.on, <<Head(obj[c.on].own)>>)
(* A thread that deletes itself waits for the idle task                      *)
(* (prvCheckTasksWaitingTermination).                                        *)
ThreadExits ==
  /\ ~k.pendsv /\ pc[k.cur] = "user" /\ UNCHANGED <<k, pc, frame, program, heap>>
  /\ \E x \in Things : obj[x].kind = "thread" /\ Put(x, [obj[x] EXCEPT !.kind = "dead thread"])
Reap(kind) ==
  \E x \in Things : obj[x].kind = kind /\ Put(x, NoObject) /\ Frees(x, FromHeap(obj[x].own))
IdleFrees == k.cur = IdleTask /\ Reap("dead thread")
TimerTaskFrees == Calls("timerTask") # {} /\ Reap("deleted timer")

OwnerSteps ==
  \/ Make \/ Obtain \/ Supplied \/ Refused \/ Made \/ GiveBack
  \/ DeleteAtOnce \/ DeleteOne \/ DeleteTimer \/ ThreadExits \/ IdleFrees \/ TimerTaskFrees
-----------------------------------------------------------------------------
Owned(x) ==
  ToSet(FromHeap(IF x \in Task
                   THEN IF frame[x].op \in {"make", "unmake"} THEN frame[x].have ELSE <<>>
                   ELSE IF obj[x].kind = "none" THEN <<>> ELSE obj[x].own))
Owners == Task \cup Things
(* What the application has allocated for itself.                            *)
ForItself(b) == \A x \in Owners : b \notin Owned(x)

(* What belongs to an object, or to a call that is making or deleting one,   *)
(* is in use and belongs to nobody else: nothing is freed twice or while it  *)
(* is in use, and memory of the caller is never given to the heap.  And a    *)
(* program that allocates nothing for itself has nothing else in use:        *)
(* nothing is lost when a part is not to be had.                             *)
NothingLeaks ==
  /\ \A x \in Owners : Owned(x) \subseteq heap.used
  /\ \A x, y \in Owners : x # y => Owned(x) \cap Owned(y) = {}
  /\ (\A t \in Task : \A c \in program.calls[t] : c.op # "malloc") => \A b \in heap.used : ~ForItself(b)
(* The free bytes the heap reports are those of its free blocks.             *)
BytesCounted ==
  /\ heap.remaining = MapThenSumSet(LAMBDA b : b.size, heap.free)
  /\ heap.least <= heap.remaining
MemoryAccounted == NothingLeaks /\ BytesCounted
=============================================================================
