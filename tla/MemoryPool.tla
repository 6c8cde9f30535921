------------------------------ MODULE MemoryPool ------------------------------
(***************************************************************************)
(* Memory pools (osMemoryPool... in cmsis_os2.c): a semaphore that counts    *)
(* the free blocks, a list of the blocks given back, and the blocks never    *)
(* given out yet.  The semaphore is taken before the list is touched and     *)
(* given after, so the two disagree in between.                              *)
(***************************************************************************)
EXTENDS Queue

(* A queue object of the kind "pool".  "taken" is a reference: the blocks    *)
(* the application has.                                                      *)
NewPool(count) ==
  Joined(NewQueue("pool", count, count), [blocks |-> <<>>, created |-> 0, taken |-> {}])

osMemoryPoolAlloc(p, ticks) == [op |-> "take", on |-> p, ticks |-> ticks]
osMemoryPoolFree(p) == [op |-> "release", on |-> p]

(* What a pool says of itself: the semaphore counts, not the list.           *)
osMemoryPoolGetCapacity(o) == o.len
osMemoryPoolGetSpace(o) == uxQueueMessagesWaiting(o)
osMemoryPoolGetCount(o) == osMemoryPoolGetCapacity(o) - osMemoryPoolGetSpace(o)

(* AllocBlock, or CreateBlock when no block has been given back.             *)
None(o) == o.blocks = <<>> /\ o.created = o.len
WithoutBlock(o) ==
  IF o.blocks # <<>> THEN [o EXCEPT !.blocks = Tail(@), !.taken = @ \cup {Head(o.blocks)}]
  ELSE [o EXCEPT !.created = @ + 1, !.taken = @ \cup {o.created}]
(* Faulty variant: the block does not come back to the list.                 *)
FreeBlockLost(o, b) == [o EXCEPT !.taken = @ \ {b}]
FreeBlock(o, b) == [o EXCEPT !.blocks = <<b>> \o @, !.taken = @ \ {b}]

(* osMemoryPoolAlloc, once it has the semaphore.                             *)
Allot ==
  LET o == obj[Here.on]
  IN pc[k.cur] = "allot" /\ Returns("allot", k) /\ Put(Here.on, IF None(o) THEN o ELSE WithoutBlock(o))
(* osMemoryPoolFree; the semaphore is given in a step of its own.            *)
Free ==
  \E c \in Calls("release") : \E b \in obj[c.on].taken :
    /\ ~Full(obj[c.on])
    /\ Moves("user", "try", k) /\ Enter(Begin(Send(c.on, Nothing, "back", 0)))
    /\ Put(c.on, FreeBlock(obj[c.on], b))
AllocFromISR ==
  \E c \in Interrupt("alloc") :
    LET o == obj[c.on]
    IN /\ ~Empty(o) /\ o.rx < MaxLock
       /\ FromISR(IF o.rx = -1 THEN WakeOne(k, Tx(c.on)) ELSE k)
       /\ Put(c.on, WithoutBlock([TakeOut(o) EXCEPT !.rx = IF @ = -1 THEN @ ELSE @ + 1]))
FreeFromISR ==
  \E c \in Interrupt("release") : \E b \in obj[c.on].taken :
    LET o == FreeBlock(obj[c.on], b)
    IN /\ ~Full(o) /\ o.tx < MaxLock
       /\ FromISR(IF o.tx = -1 THEN WakeOne(k, Rx(c.on)) ELSE k)
       /\ Put(c.on, [CopyIn(o, Nothing, "back") EXCEPT !.tx = IF @ = -1 THEN @ ELSE @ + 1])

PoolSteps == Allot \/ Free \/ AllocFromISR \/ FreeFromISR
-----------------------------------------------------------------------------
(* A block is in one place: with the application, in the list, or not yet    *)
(* given out.  And whoever has the semaphore finds a block: the blocks that  *)
(* osMemoryPoolGetCount reports as in use cover those the application has    *)
(* and one for everybody who has the semaphore and not yet been to the list. *)
PoolBacked ==
  \A p \in Queues :
    obj[p].kind = "pool" =>
      LET o == obj[p]
          atList == {t \in Task : pc[t] = "allot" /\ frame[t].on = p}
      IN /\ IsInjective(o.blocks) /\ ToSet(o.blocks) \cap o.taken = {}
         /\ ToSet(o.blocks) \cup o.taken = 0 .. o.created - 1 /\ o.created <= o.len
         /\ Cardinality(o.taken) + Cardinality(atList) <= osMemoryPoolGetCount(o)
=============================================================================
