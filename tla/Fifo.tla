--------------------------------- MODULE Fifo ---------------------------------
(***************************************************************************)
(* What queues and semaphores promise, whatever tasks and interrupts do: the *)
(* items of each come out once, in order, and are never more than it has     *)
(* room for.  An item may go to the front, and into a queue of one item it   *)
(* may replace the one that is there.                                        *)
(***************************************************************************)
EXTENDS Naturals, Sequences

CONSTANTS
  Queue,
  Item    \* what a queue can hold

VARIABLES
  room,   \* how many items each queue takes; none before it exists
  items,  \* the items in each queue, the next to come out first
  out     \* the item each queue handed out last

Becomes(q, s) == Len(s) <= room[q] /\ items' = [items EXCEPT ![q] = s]
HandsOut(q) == items[q] # <<>> /\ out' = [out EXCEPT ![q] = Head(items[q])]

Enqueue(q, i) == Becomes(q, Append(items[q], i)) /\ UNCHANGED <<room, out>>
Jump(q, i) == Becomes(q, <<i>> \o items[q]) /\ UNCHANGED <<room, out>>
Replace(q, i) == room[q] = 1 /\ Becomes(q, <<i>>) /\ UNCHANGED <<room, out>>
Dequeue(q) == HandsOut(q) /\ Becomes(q, Tail(items[q])) /\ UNCHANGED room
Peek(q) == HandsOut(q) /\ UNCHANGED <<room, items>>
Clear(q) == Becomes(q, <<>>) /\ UNCHANGED <<room, out>>
Create(q) ==
  /\ room[q] = 0 /\ room'[q] > 0 /\ Len(items'[q]) <= room'[q]
  /\ \A r \in Queue \ {q} : room'[r] = room[r] /\ items'[r] = items[r] /\ out'[r] = out[r]
Destroy(q) ==
  /\ room' = [room EXCEPT ![q] = 0] /\ items' = [items EXCEPT ![q] = <<>>]
  /\ \A r \in Queue \ {q} : out'[r] = out[r]

Init == \A q \in Queue : Len(items[q]) <= room[q]
Next ==
  \E q \in Queue :
    \/ \E i \in Item : Enqueue(q, i) \/ Jump(q, i) \/ Replace(q, i)
    \/ Dequeue(q) \/ Peek(q) \/ Clear(q) \/ Create(q) \/ Destroy(q)
Spec == Init /\ [][Next]_<<room, items, out>>
=============================================================================
