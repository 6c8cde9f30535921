--------------------------------- MODULE Heap ---------------------------------
(***************************************************************************)
(* The heap every object and every task comes from (heap_4.c): blocks that   *)
(* are free or in use, allocation from the first free block that is large    *)
(* enough, and free blocks joined with their neighbours.  Addresses and      *)
(* sizes count in units of portBYTE_ALIGNMENT, which is also the size of the *)
(* header every block starts with; the list of the free blocks, kept in the  *)
(* order of address, is the set of them.                                     *)
(***************************************************************************)
EXTENDS Integers

CONSTANTS
  HeapSize,  \* the units up to pxEnd
  Unit       \* portBYTE_ALIGNMENT, in bytes

ASSUME HeapAssumption == HeapSize \in Nat \ {0} /\ Unit \in Nat \ {0}

VARIABLE heap

After(b) == b.at + b.size
MinimumBlock == 2  \* heapMINIMUM_BLOCK_SIZE

(* prvHeapInit.                                                              *)
HeapInit ==
  heap = [free |-> {[at |-> 0, size |-> HeapSize]}, used |-> {},
          remaining |-> HeapSize, least |-> HeapSize]

(* Faulty variant: not joined with what comes behind it.                     *)
InsertBlockUnjoined(free, b) ==
  LET before == {c \in free : After(c) = b.at}
      from == IF before = {} THEN b.at ELSE (CHOOSE c \in before : TRUE).at
  IN (free \ before) \cup {[at |-> from, size |-> After(b) - from]}
(* prvInsertBlockIntoFreeList: joined with the free block that ends where it *)
(* begins and with the one that begins where it ends.                        *)
InsertBlock(free, b) ==
  LET before == {c \in free : After(c) = b.at}
      behind == {c \in free : c.at = After(b)}
      from == IF before = {} THEN b.at ELSE (CHOOSE c \in before : TRUE).at
      to == IF behind = {} THEN After(b) ELSE After(CHOOSE c \in behind : TRUE)
  IN (free \ (before \cup behind)) \cup {[at |-> from, size |-> to - from]}

(* pvPortMalloc of n bytes: the first free block that is large enough, the   *)
(* part of it that is taken, and the heap without that.                      *)
Wanted(n) == 1 + (n + Unit - 1) \div Unit
Fits(n) == {b \in heap.free : b.size >= Wanted(n)}
FirstFit(n, b) == b \in Fits(n) /\ \A c \in Fits(n) : b.at <= c.at
Split(n, b) == b.size - Wanted(n) > MinimumBlock
Taken(n, b) == IF Split(n, b) THEN [at |-> b.at, size |-> Wanted(n)] ELSE b
Remainder(n, b) == [at |-> b.at + Wanted(n), size |-> b.size - Wanted(n)]
Malloc(n, b) ==
  LET left == heap.remaining - Taken(n, b).size
      others == heap.free \ {b}
  IN /\ n > 0 /\ FirstFit(n, b) /\ Wanted(n) <= heap.remaining
     /\ heap' = [free |-> IF Split(n, b) THEN InsertBlock(others, Remainder(n, b)) ELSE others,
                 used |-> heap.used \cup {Taken(n, b)}, remaining |-> left,
                 least |-> IF left < heap.least THEN left ELSE heap.least]

(* vPortFree.                                                                *)
Freed(h, b) ==
  [h EXCEPT !.free = InsertBlock(@, b), !.used = @ \ {b}, !.remaining = @ + b.size]
FreeMemory(b) == b \in heap.used /\ heap' = Freed(heap, b)

HeapNext ==
  \/ \E n \in 1 .. HeapSize * Unit : \E b \in heap.free : Malloc(n, b)
  \/ \E b \in heap.used : FreeMemory(b)
HeapSpec == HeapInit /\ [][HeapNext]_heap
-----------------------------------------------------------------------------
(* Every unit of the heap is in one block, free or in use: no two blocks     *)
(* overlap, none is lost, and no two free blocks lie side by side unjoined.  *)
Apart(b, c) == After(b) <= c.at \/ After(c) <= b.at
Covers(all, x) == \E b \in all : b.at <= x /\ x < After(b)
HeapSound ==
  LET all == heap.free \cup heap.used
  IN /\ heap.free \cap heap.used = {}
     /\ \A b \in all : b.size > 0 /\ b.at >= 0 /\ After(b) <= HeapSize
     /\ \A b, c \in all : b # c => Apart(b, c)
     /\ \A x \in 0 .. HeapSize - 1 : Covers(all, x)
     /\ \A b, c \in heap.free : After(b) # c.at
=============================================================================
