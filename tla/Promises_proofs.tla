---------------------------- MODULE Promises_proofs ----------------------------
(***************************************************************************)
(* What the services promise to whoever uses them, kept by every step of     *)
(* theirs: each queue is a bounded FIFO (Fifo), the heap stays sound, every  *)
(* block of it that is in use belongs to one object or call, and a memory    *)
(* pool has a block for whoever has its semaphore.                          *)
(***************************************************************************)
EXTENDS Services_proofs

-----------------------------------------------------------------------------
(* A queue, as Fifo has it.                                                  *)
Holdable == Items \cup {Token}
RoomOf(o) == IF o.kind = "none" THEN 0 ELSE o.len
OutOf(o) == IF o.kind = "queue" THEN o.out ELSE Token
Alike(o, o1) == RoomOf(o1) = RoomOf(o) /\ Contents(o1) = Contents(o) /\ OutOf(o1) = OutOf(o)
(* What may become of it in one step.                                        *)
Gains(o, o1) ==
  /\ RoomOf(o1) = RoomOf(o) /\ OutOf(o1) = OutOf(o) /\ Len(Contents(o1)) <= RoomOf(o)
  /\ \E i \in Holdable : \/ Contents(o1) = Append(Contents(o), i)
                         \/ Contents(o1) = <<i>> \o Contents(o)
                         \/ RoomOf(o) = 1 /\ Contents(o1) = <<i>>
HandsOver(o, o1) ==
  /\ RoomOf(o1) = RoomOf(o) /\ Contents(o) # <<>> /\ OutOf(o1) = Head(Contents(o))
  /\ \/ Contents(o1) = Contents(o)
     \/ Contents(o1) = Tail(Contents(o)) /\ Len(Contents(o1)) <= RoomOf(o)
Clears(o, o1) == RoomOf(o1) = RoomOf(o) /\ OutOf(o1) = OutOf(o) /\ Contents(o1) = <<>> /\ 0 <= RoomOf(o)
Appears(o, o1) == RoomOf(o) = 0 /\ RoomOf(o1) > 0 /\ Len(Contents(o1)) <= RoomOf(o1)
Disappears(o, o1) == RoomOf(o1) = 0 /\ Contents(o1) = <<>>
Evolves(o, o1) ==
  Alike(o, o1) \/ Gains(o, o1) \/ HandsOver(o, o1) \/ Clears(o, o1) \/ Appears(o, o1) \/ Disappears(o, o1)

rooms == [q \in Queues |-> IF obj[q].kind = "none" THEN 0 ELSE obj[q].len]
contents == [q \in Queues |-> Contents(obj[q])]
outs == [q \in Queues |-> IF obj[q].kind = "queue" THEN obj[q].out ELSE Token]
FifoStep == [Promise!Next]_<<rooms, contents, outs>>

LEMMA ObjectEvolves ==
  ASSUME ServicesInv, NEW q \in Queues, NEW o1, Put(q, o1), Evolves(obj[q], o1)
  PROVE  FifoStep
<1>1. q \in DOMAIN obj /\ obj' = [obj EXCEPT ![q] = o1] BY Running DEF Names, QueueObjects, Put
<1>2. obj'[q] = o1 /\ \A r \in Queues \ {q} : obj'[r] = obj[r] BY <1>1
<1>3. /\ rooms[q] = RoomOf(obj[q]) /\ contents[q] = Contents(obj[q]) /\ outs[q] = OutOf(obj[q])
      /\ rooms' = [rooms EXCEPT ![q] = RoomOf(o1)]
      /\ contents' = [contents EXCEPT ![q] = Contents(o1)]
      /\ outs' = [outs EXCEPT ![q] = OutOf(o1)]
  BY <1>2 DEF rooms, contents, outs, RoomOf, OutOf
<1>4. CASE Alike(obj[q], o1)
  <2>1. UNCHANGED rooms BY <1>3, <1>4 DEF Alike, rooms
  <2>2. UNCHANGED contents BY <1>3, <1>4 DEF Alike, contents
  <2>3. UNCHANGED outs BY <1>3, <1>4 DEF Alike, outs
  <2> QED BY <2>1, <2>2, <2>3 DEF FifoStep
<1>5. CASE Gains(obj[q], o1)
  <2>1. UNCHANGED <<rooms, outs>> BY <1>3, <1>5 DEF Gains, rooms, outs
  <2>2. PICK i \in Holdable :
          \/ Contents(o1) = Append(contents[q], i) \/ Contents(o1) = <<i>> \o contents[q]
          \/ rooms[q] = 1 /\ Contents(o1) = <<i>>
    BY <1>3, <1>5 DEF Gains
  <2>3. Promise!Becomes(q, Contents(o1)) BY <1>3, <1>5 DEF Gains, Promise!Becomes, rooms, contents
  <2>4. Promise!Enqueue(q, i) \/ Promise!Jump(q, i) \/ Promise!Replace(q, i)
    BY <2>1, <2>2, <2>3 DEF Promise!Enqueue, Promise!Jump, Promise!Replace, rooms, contents, outs
  <2> QED BY <2>4 DEF FifoStep, Promise!Next, Holdable
<1>6. CASE HandsOver(obj[q], o1)
  <2>1. Promise!HandsOut(q) /\ UNCHANGED rooms BY <1>3, <1>6 DEF HandsOver, Promise!HandsOut, rooms, contents, outs
  <2>2. CASE Contents(o1) = contents[q]
    <3>1. UNCHANGED contents BY <1>3, <2>2 DEF contents
    <3> QED BY <2>1, <3>1 DEF FifoStep, Promise!Next, Promise!Peek, rooms, contents
  <2>3. CASE Contents(o1) = Tail(contents[q]) /\ Len(Contents(o1)) <= rooms[q]
    <3>1. Promise!Becomes(q, Tail(contents[q])) BY <1>3, <2>3 DEF Promise!Becomes, rooms, contents
    <3> QED BY <2>1, <3>1 DEF FifoStep, Promise!Next, Promise!Dequeue, rooms, contents
  <2> QED BY <1>3, <1>6, <2>2, <2>3 DEF HandsOver
<1>7. CASE Clears(obj[q], o1)
  <2>1. UNCHANGED <<rooms, outs>> BY <1>3, <1>7 DEF Clears, rooms, outs
  <2>2. Promise!Becomes(q, <<>>) BY <1>3, <1>7 DEF Clears, Promise!Becomes, rooms, contents
  <2> QED BY <2>1, <2>2 DEF FifoStep, Promise!Next, Promise!Clear, rooms, outs
<1>8. CASE Appears(obj[q], o1)
  <2>1. rooms[q] = 0 /\ rooms'[q] > 0 /\ Len(contents'[q]) <= rooms'[q]
    BY <1>3, <1>8 DEF Appears, rooms, contents
  <2>2. \A r \in Queues \ {q} : rooms'[r] = rooms[r] /\ contents'[r] = contents[r] /\ outs'[r] = outs[r]
    BY <1>3 DEF rooms, contents, outs
  <2> QED BY <2>1, <2>2 DEF FifoStep, Promise!Next, Promise!Create, rooms, contents, outs
<1>9. CASE Disappears(obj[q], o1)
  <2>1. \A r \in Queues \ {q} : outs'[r] = outs[r] BY <1>3 DEF outs
  <2>2. rooms' = [rooms EXCEPT ![q] = 0] /\ contents' = [contents EXCEPT ![q] = <<>>]
    BY <1>3, <1>9 DEF Disappears
  <2> QED BY <2>1, <2>2 DEF FifoStep, Promise!Next, Promise!Destroy, rooms, contents, outs
<1> QED BY <1>4, <1>5, <1>6, <1>7, <1>8, <1>9 DEF Evolves
(* A step that leaves the queues alone.                                      *)
Untouched == \A q \in Queues : obj'[q] = obj[q]
LEMMA QueuesStay == ASSUME ServicesInv, Untouched PROVE FifoStep
<1>1. UNCHANGED rooms BY DEF rooms, Untouched
<1>2. UNCHANGED contents BY DEF contents, Untouched
<1>3. UNCHANGED outs BY DEF outs, Untouched
<1> QED BY <1>1, <1>2, <1>3 DEF FifoStep
(* A step that leaves all objects alone but those of a set.                  *)
Only(S) == \A x \in Names \ S : obj'[x] = obj[x]
LEMMA OnlyOne ==
  ASSUME ServicesInv, NEW S, UNCHANGED obj \/ \E x \in S : \E o1 : Put(x, o1)
  PROVE  Only(S)
<1>1. CASE UNCHANGED obj BY <1>1 DEF Only
<1>2. CASE \E x \in S : \E o1 : Put(x, o1)
  <2>1. PICK x \in S : \E o1 : obj' = [obj EXCEPT ![x] = o1] BY <1>2 DEF Put
  <2> QED BY <2>1, Running DEF Only
<1> QED BY <1>1, <1>2
LEMMA OnlyUntouched ==
  ASSUME NEW S, Only(S), S \cap Queues = {}
  PROVE  Untouched
BY DEF Only, Untouched, Names, QueueObjects

(* What is in a queue, by its places.                                        *)
LEMMA ContentsFacts ==
  ASSUME NEW o, Stocked(o, Items)
  PROVE  /\ Contents(o) \in Seq(Holdable) /\ Len(Contents(o)) = o.n /\ o.n \in Nat /\ o.n <= o.len /\ o.len \in Nat \ {0}
         /\ o.kind # "none" /\ RoomOf(o) = o.len
         /\ \A i \in 1 .. o.n : Contents(o)[i] = IF o.kind = "queue" THEN Inside(o, i) ELSE Token
<1>1. o.kind # "none" /\ o.n \in 0 .. o.len /\ o.len \in Nat \ {0} BY DEF Stocked, Some
<1>2. Contents(o) = [i \in 1 .. o.n |-> IF o.kind = "queue" THEN Inside(o, i) ELSE Token]
  BY <1>1 DEF Contents, Inside, Slot
<1>3. \A i \in 1 .. o.n : (IF o.kind = "queue" THEN Inside(o, i) ELSE Token) \in Holdable
  BY <1>1 DEF Stocked, InOrder, Inside, Slot, Holdable
<1> QED BY <1>1, <1>2, <1>3 DEF RoomOf
LEMMA AlikeObjects ==
  ASSUME NEW o, NEW o1, o1.kind = o.kind, o1.len = o.len, o1.n = o.n, o1.slots = o.slots, o1.read = o.read,
         o1.out = o.out
  PROVE  Alike(o, o1)
BY DEF Alike, RoomOf, Contents, OutOf
LEMMA GainedEvolves ==
  ASSUME NEW o, Stocked(o, Items), NEW o1, Stocked(o1, Items), NEW item, o.kind = "queue" => item \in Items,
         NEW pos \in {"back", "front", "overwrite"}, Admits(o, pos), CopiedIn(o, o1, item, pos)
  PROVE  Gains(o, o1)
<1> DEFINE i == IF o.kind = "queue" THEN item ELSE Token
           s == Contents(o)
           s1 == Contents(o1)
<1>1. i \in Holdable BY DEF Holdable
<1>2. o1.kind = o.kind /\ o1.len = o.len /\ o1.out = o.out /\ o1.n = IF pos = "overwrite" THEN 1 ELSE o.n + 1
  BY DEF CopiedIn, Others
<1>3. s \in Seq(Holdable) /\ Len(s) = o.n /\ s1 \in Seq(Holdable) /\ Len(s1) = o1.n /\ o1.n <= o.len
      /\ o.n \in Nat /\ o1.n \in Nat
  BY <1>2, ContentsFacts
<1>4. /\ \A j \in 1 .. o.n : s[j] = IF o.kind = "queue" THEN Inside(o, j) ELSE Token
      /\ \A j \in 1 .. o1.n : s1[j] = IF o.kind = "queue" THEN Inside(o1, j) ELSE Token
  BY <1>2, ContentsFacts
<1>5. RoomOf(o1) = RoomOf(o) /\ OutOf(o1) = OutOf(o) /\ RoomOf(o) = o.len
  BY <1>2, ContentsFacts DEF RoomOf, OutOf
<1> HIDE DEF s, s1
<1>6. CASE pos = "back"
  <2>1. s1[o.n + 1] = i /\ \A j \in 1 .. o.n : s1[j] = s[j] BY <1>2, <1>3, <1>4, <1>6 DEF CopiedIn
  <2> HIDE DEF i
  <2>2. s1 = Append(s, i) BY <1>1, <1>2, <1>3, <1>6, <2>1
  <2> QED BY <1>1, <1>3, <1>5, <2>2 DEF Gains, s, s1
<1>7. CASE pos = "front"
  <2>1. s1[1] = i /\ \A j \in 1 .. o.n : s1[j + 1] = s[j] BY <1>2, <1>3, <1>4, <1>7 DEF CopiedIn
  <2> HIDE DEF i
  <2>2. s1 = <<i>> \o s BY <1>1, <1>2, <1>3, <1>7, <2>1
  <2> QED BY <1>1, <1>3, <1>5, <2>2 DEF Gains, s, s1
<1>8. CASE pos = "overwrite"
  <2>1. s1[1] = i /\ o1.n = 1 BY <1>2, <1>3, <1>4, <1>8 DEF CopiedIn
  <2> HIDE DEF i
  <2>2. s1 = <<i>> BY <1>1, <1>3, <2>1
  <2>3. o.len = 1 BY <1>8 DEF Admits
  <2> QED BY <1>1, <1>3, <1>5, <2>2, <2>3 DEF Gains, s, s1
<1> QED BY <1>6, <1>7, <1>8
LEMMA TakenEvolves ==
  ASSUME NEW o, Stocked(o, Items), o.n # 0
  PROVE  HandsOver(o, TakeOut(o)) /\ HandsOver(o, Peeked(o))
<1> DEFINE o1 == TakeOut(o)
           o2 == Peeked(o)
<1>1. /\ Stocked(o1, Items) /\ CopiedOut(o, o1) /\ o1.n = o.n - 1
      /\ o.kind = "queue" => \A i \in 1 .. o.n - 1 : Inside(o1, i) = Inside(o, i + 1)
      /\ Stocked(o2, Items) /\ CopiedOut(o, o2) /\ o2.n = o.n
      /\ o.kind = "queue" => \A i \in 1 .. o.n : Inside(o2, i) = Inside(o, i)
  BY CopyOutFacts
<1> HIDE DEF o1, o2
<1> DEFINE s == Contents(o)
           s1 == Contents(o1)
           s2 == Contents(o2)
<1>2. /\ o1.kind = o.kind /\ o1.len = o.len /\ o2.kind = o.kind /\ o2.len = o.len
      /\ o.kind = "queue" => o1.out = Inside(o, 1) /\ o2.out = Inside(o, 1)
  BY <1>1 DEF CopiedOut, Others
<1>3. /\ s \in Seq(Holdable) /\ Len(s) = o.n /\ s1 \in Seq(Holdable) /\ Len(s1) = o.n - 1
      /\ s2 \in Seq(Holdable) /\ Len(s2) = o.n /\ o.n \in Nat \ {0} /\ o.n <= o.len /\ RoomOf(o) = o.len
      /\ RoomOf(o1) = o.len /\ RoomOf(o2) = o.len /\ o.len \in Nat
  BY <1>1, <1>2, ContentsFacts
<1>4. /\ \A j \in 1 .. o.n : s[j] = IF o.kind = "queue" THEN Inside(o, j) ELSE Token
      /\ \A j \in 1 .. o.n - 1 : s1[j] = IF o.kind = "queue" THEN Inside(o1, j) ELSE Token
      /\ \A j \in 1 .. o.n : s2[j] = IF o.kind = "queue" THEN Inside(o2, j) ELSE Token
  BY <1>1, <1>2, ContentsFacts
<1>5. s # <<>> /\ OutOf(o1) = s[1] /\ OutOf(o2) = s[1] BY <1>2, <1>3, <1>4 DEF OutOf
<1> HIDE DEF s, s1, s2
<1>6. Head(s) = s[1] BY <1>3, <1>5
<1>7. s2 = s BY <1>1, <1>3, <1>4
<1>8. s1 = Tail(s)
  <2>1. \A j \in 1 .. o.n - 1 : s1[j] = s[j + 1] BY <1>1, <1>3, <1>4
  <2>2. Tail(s) \in Seq(Holdable) /\ Len(Tail(s)) = o.n - 1 /\ \A j \in 1 .. o.n - 1 : Tail(s)[j] = s[j + 1]
    BY <1>3, <1>5
  <2> QED BY <1>3, <2>1, <2>2
<1> QED BY <1>3, <1>5, <1>6, <1>7, <1>8 DEF HandsOver, s, s1, s2, o1, o2

LEMMA QueuePut ==
  ASSUME ServicesInv, NEW q \in QueueObjects, NEW o1, Put(q, o1), q \in Queues => Evolves(obj[q], o1)
  PROVE  FifoStep
<1>1. CASE q \in Queues BY <1>1, ObjectEvolves
<1>2. CASE q \notin Queues
  <2>1. Only({q}) BY OnlyOne
  <2>2. {q} \cap Queues = {} BY <1>2
  <2> QED BY <2>1, <2>2, OnlyUntouched, QueuesStay
<1> QED BY <1>1, <1>2
LEMMA QueueAlike ==
  ASSUME ServicesInv, NEW q \in QueueObjects, NEW o1, Put(q, o1),
         o1.kind = obj[q].kind, o1.len = obj[q].len, o1.n = obj[q].n, o1.slots = obj[q].slots,
         o1.read = obj[q].read, o1.out = obj[q].out
  PROVE  FifoStep
BY AlikeObjects, QueuePut DEF Evolves
LEMMA AsideAlike ==
  ASSUME NEW o, NEW V, Stocked(o, V), NEW x \in {"tx", "rx", "rec", "holder"}, NEW v
  PROVE  LET o1 == [o EXCEPT ![x] = v]
         IN /\ o1.kind = o.kind /\ o1.len = o.len /\ o1.n = o.n /\ o1.slots = o.slots
            /\ o1.read = o.read /\ o1.out = o.out
<1>1. QueueFields \subseteq DOMAIN o BY DEF Stocked
<1> QED BY <1>1 DEF QueueFields
LEMMA AlikeThen ==
  ASSUME NEW o, NEW o2, NEW o1, Alike(o2, o1)
  PROVE  /\ Gains(o, o2) => Gains(o, o1)
         /\ HandsOver(o, o2) => HandsOver(o, o1)
BY Zenon DEF Alike, Gains, HandsOver

(* The steps.                                                                *)
LEMMA TriesPromised ==
  ASSUME ServicesInv, TryToSend \/ TryToReceive \/ TryToPeek \/ TryToTake
  PROVE  FifoStep
<1>1. CASE TryToSend
  <2>1. PICK f \in Trying : f.op = "send" /\ Can(f) /\ pc[k.cur] \in {"user", "try"}
                            /\ Put(f.on, CopyIn(obj[f.on], f.item, f.pos))
    BY <1>1 DEF TryToSend, Try
  <2>2. Queueing(f, obj, program) BY <2>1, Tryers
  <2>3. /\ f.on \in QueueObjects /\ Stocked(obj[f.on], Stock(f.on)) /\ Admits(obj[f.on], f.pos)
        /\ f.pos \in {"back", "front", "overwrite"} /\ (obj[f.on].kind = "queue" => f.item \in Stock(f.on))
    BY <2>1, <2>2, AskedStands
  <2> DEFINE o1 == CopyIn(obj[f.on], f.item, f.pos)
  <2>4. CopiedIn(obj[f.on], o1, f.item, f.pos) /\ Stocked(o1, Stock(f.on)) BY <2>3, CopyInFacts
  <2> HIDE DEF o1
  <2>5. f.on \in Queues => Gains(obj[f.on], o1)
    <3>1. f.on \in Queues => Stock(f.on) = Items BY Assumed DEF Stock
    <3> QED BY <2>3, <2>4, <3>1, GainedEvolves
  <2> QED BY <2>1, <2>3, <2>5, QueuePut DEF Evolves, o1
<1>2. CASE TryToReceive \/ TryToPeek \/ TryToTake
  <2>1. PICK f \in Trying : \E v :
          /\ f.op # "send" /\ Can(f) /\ pc[k.cur] \in {"user", "try"}
          /\ \/ Put(f.on, TakeOut(obj[f.on])) \/ Put(f.on, Peeked(obj[f.on]))
             \/ Put(f.on, [TakeOut(obj[f.on]) EXCEPT !.holder = v])
    BY <1>2 DEF TryToReceive, TryToPeek, TryToTake, Try
  <2>2. Queueing(f, obj, program) BY <2>1, Tryers
  <2> DEFINE o == obj[f.on]
  <2>3. f.on \in QueueObjects /\ Stocked(o, Stock(f.on)) /\ o.n # 0 BY <2>1, <2>2, AskedStands
  <2>4. f.on \in Queues => Stocked(o, Items)
    <3>1. f.on \in Queues => Stock(f.on) = Items BY Assumed DEF Stock
    <3> QED BY <2>3, <3>1
  <2>5. f.on \in Queues => HandsOver(o, TakeOut(o)) /\ HandsOver(o, Peeked(o))
    BY <2>3, <2>4, TakenEvolves
  <2>6. ASSUME NEW v PROVE f.on \in Queues => HandsOver(o, [TakeOut(o) EXCEPT !.holder = v])
    <3> DEFINE o2 == TakeOut(o)
               o1 == [o2 EXCEPT !["holder"] = v]
    <3>1. Stocked(o2, Stock(f.on)) BY <2>3, CopyOutFacts
    <3> HIDE DEF o2
    <3>2. /\ o1.kind = o2.kind /\ o1.len = o2.len /\ o1.n = o2.n /\ o1.slots = o2.slots
          /\ o1.read = o2.read /\ o1.out = o2.out
      BY <3>1, AsideAlike
    <3> HIDE DEF o1
    <3>3. Alike(o2, o1) BY <3>2, AlikeObjects
    <3> QED BY <2>5, <3>3, AlikeThen DEF o1, o2
  <2> QED BY <2>1, <2>3, <2>5, <2>6, QueuePut DEF Evolves
<1> QED BY <1>1, <1>2
LEMMA LocksPromised ==
  ASSUME ServicesInv, Lock \/ UnlockTx \/ UnlockRx
  PROVE  FifoStep
<1> DEFINE q == Here.on
<1>1. q \in QueueObjects /\ Stocked(obj[q], Stock(q))
  BY AtItsQueue, AtTheLocks DEF Lock, UnlockTx, UnlockRx
<1>2. PICK o1 : /\ Put(q, o1)
                /\ o1 \in {Locked(obj[q]), [obj[q] EXCEPT !.tx = -1], [obj[q] EXCEPT !.rx = -1]}
  BY DEF Lock, UnlockTx, UnlockRx
<1>3. QueueFields \subseteq DOMAIN obj[q] BY <1>1 DEF Stocked
<1>4. /\ o1.kind = obj[q].kind /\ o1.len = obj[q].len /\ o1.n = obj[q].n /\ o1.slots = obj[q].slots
      /\ o1.read = obj[q].read /\ o1.out = obj[q].out
  BY <1>2, <1>3 DEF Locked, QueueFields
<1> QED BY <1>1, <1>2, <1>4, QueueAlike
LEMMA CountsPromised ==
  ASSUME ServicesInv, TakeAgain \/ CountTake \/ GiveRecursive
  PROVE  FifoStep
<1>1. PICK q \in Queues : obj[q].kind # "none" /\ \E n : Put(q, [obj[q] EXCEPT !.rec = n])
  <2>1. CASE TakeAgain
    <3>1. PICK c \in Calls("take") :
            obj[c.on].kind = "recursive" /\ Put(c.on, [obj[c.on] EXCEPT !.rec = obj[c.on].rec + 1])
      BY <2>1 DEF TakeAgain
    <3>2. c.on \in Queues BY Called, QueueCallKnown DEF Timely
    <3> QED BY <3>1, <3>2
  <2>2. CASE CountTake
    <3>1. pc[k.cur] = "count" /\ Put(Here.on, [obj[Here.on] EXCEPT !.rec = obj[Here.on].rec + 1])
      BY <2>2 DEF CountTake
    <3>2. Here.on \in Queues /\ obj[Here.on].kind = "recursive"
      BY <3>1, Running DEF Places, AtQueue, AtTimers, StreamPlaces, Here, Taking
    <3> QED BY <3>1, <3>2
  <2>3. CASE GiveRecursive
    <3>1. PICK c \in Calls("send") :
            obj[c.on].kind = "recursive" /\ Put(c.on, [obj[c.on] EXCEPT !.rec = obj[c.on].rec - 1])
      BY <2>3 DEF GiveRecursive
    <3>2. c.on \in Queues BY Called, QueueCallKnown DEF Puts
    <3> QED BY <3>1, <3>2
  <2> QED BY <2>1, <2>2, <2>3
<1>2. PICK n : Put(q, [obj[q] EXCEPT !.rec = n]) BY <1>1
<1>3. q \in QueueObjects /\ Stocked(obj[q], Stock(q)) BY <1>1, Stands DEF QueueObjects
<1> DEFINE o1 == [obj[q] EXCEPT !["rec"] = n]
<1>4. /\ o1.kind = obj[q].kind /\ o1.len = obj[q].len /\ o1.n = obj[q].n /\ o1.slots = obj[q].slots
      /\ o1.read = obj[q].read /\ o1.out = obj[q].out
  BY <1>3, AsideAlike
<1>5. Put(q, o1) BY <1>2
<1> HIDE DEF o1
<1> QED BY <1>3, <1>4, <1>5, QueueAlike
LEMMA LivesPromised ==
  ASSUME ServicesInv, Reset \/ New \/ Delete
  PROVE  FifoStep
<1>1. CASE Reset
  <2>1. PICK c \in Calls("reset") : obj[c.on].kind # "none" /\ Put(c.on, Emptied(obj[c.on])) BY <1>1 DEF Reset
  <2>2. c.on \in Queues /\ c.on \in QueueObjects BY Called, QueueCallKnown DEF Plain, QueueObjects
  <2>3. Stocked(obj[c.on], Items) BY <2>1, <2>2, Stands, Assumed DEF Stock
  <2> DEFINE o == obj[c.on]
             o1 == Emptied(o)
  <2>4. Stocked(o1, Items) /\ o1.kind = o.kind /\ o1.len = o.len /\ o1.n = 0 /\ o1.out = o.out
    BY <2>3, EmptiedFacts
  <2> HIDE DEF o1
  <2>5. Contents(o1) \in Seq(Holdable) /\ Len(Contents(o1)) = 0 /\ RoomOf(o1) = RoomOf(o) /\ RoomOf(o) >= 0
    BY <2>3, <2>4, ContentsFacts
  <2>6. Clears(o, o1) BY <2>4, <2>5 DEF Clears, OutOf
  <2> QED BY <2>1, <2>2, <2>6, QueuePut DEF Evolves, o1
<1>2. CASE New
  <2>1. PICK c \in Calls("new") : /\ obj[c.on].kind = "none" /\ c.len > 0 /\ c.n <= c.len
                                  /\ Put(c.on, NewQueue(c.kind, c.len, c.n))
    BY <1>2 DEF New
  <2> DEFINE q == c.on
             o1 == NewQueue(c.kind, c.len, c.n)
  <2>2. c \in TaskCalls /\ c.op = "new" /\ k.cur \in Callers /\ c \in program.calls[k.cur] BY Called
  <2>3. c \in [op : {"new"}, on : Queues, kind : {"queue", "semaphore", "mutex", "recursive"}, len : Nat, n : Nat]
    BY <2>2, QueueCallKnown
  <2>4. c.len \in Some /\ c.n \in 0 .. c.len /\ q \in Queues BY <2>1, <2>3 DEF Some
  <2>5. c.kind = "queue" => c.n = 0
    <3>1. c \in AskedOf(program, q, {"new"}) BY <2>2 DEF AskedOf, Callers
    <3> QED BY <2>4, <3>1, Assumed DEF ServicesInv, Sensible, Suits
  <2>6. Stocked(o1, Items) BY <2>3, <2>4, <2>5, NewQueueStocked
  <2> HIDE DEF o1
  <2>7. RoomOf(o1) > 0 /\ Len(Contents(o1)) <= RoomOf(o1) BY <2>6, ContentsFacts
  <2>8. Appears(obj[q], o1) BY <2>1, <2>7 DEF Appears, RoomOf
  <2> QED BY <2>1, <2>4, <2>8, QueuePut DEF Evolves, QueueObjects, o1
<1>3. CASE Delete
  <2>1. PICK c \in Calls("delete") : Put(c.on, NoObject) BY <1>3 DEF Delete
  <2>2. c.on \in Queues BY Called, QueueCallKnown DEF Plain
  <2>3. Disappears(obj[c.on], NoObject) BY DEF Disappears, NoObject, RoomOf, Contents
  <2> QED BY <2>1, <2>2, <2>3, QueuePut DEF Evolves, QueueObjects
<1> QED BY <1>1, <1>2, <1>3

LEMMA InterruptsPromised ==
  ASSUME ServicesInv, SendFromISR \/ ReceiveFromISR \/ PeekFromISR
  PROVE  FifoStep
<1>1. CASE SendFromISR
  <2>1. PICK c \in Interrupt("send") : SendsFromISR(c.on, c.item, c.pos) BY <1>1 DEF SendFromISR
  <2> DEFINE q == c.on
             o == obj[q]
             o2 == CopyIn(o, c.item, c.pos)
             o1 == [o2 EXCEPT !["tx"] = IF o2.tx = -1 THEN o2.tx ELSE o2.tx + 1]
  <2>2. o.kind # "none" /\ (~Full(o) \/ c.pos = "overwrite") /\ Put(q, o1)
    BY <2>1 DEF SendsFromISR
  <2>3. q \in Queues /\ c.pos \in {"back", "front", "overwrite"} /\ (o.kind = "queue" => c.item \in Items)
        /\ (c.pos = "overwrite" => o.len = 1)
    <3>1. c \in program.isr /\ c.op = "send" BY DEF Interrupt
    <3>2. c \in Puts({0}) BY <3>1, InterruptKnown, InterruptSorts DEF ServicesInv
    <3>3. c.on \in Queues /\ c.pos \in {"back", "front", "overwrite"} /\ (c.item \in Items \/ c.item = Nothing)
      BY <3>2 DEF Puts
    <3>4. c \in Raised(program, c.on, {"send"}) /\ Suits(program, c.on)
      BY <3>1, <3>3, Assumed DEF ServicesInv, Sensible, Raised
    <3>5. QueueSound(obj[c.on], c.on, program) BY <3>3 DEF ServicesInv, ObjectsSound
    <3>6. PICK m \in Makes(program, c.on) : m.kind = o.kind /\ m.len = o.len
      BY <2>2, <3>5 DEF QueueSound, NoObject
    <3>7. o.kind = "queue" => c.item # Nothing BY <3>4, <3>6 DEF Suits
    <3>8. c.pos = "overwrite" => o.len = 1 BY <2>2, <3>4, <3>6 DEF Suits
    <3> QED BY <3>3, <3>7, <3>8
  <2>4. Stocked(o, Items) /\ q \in QueueObjects BY <2>2, <2>3, Stands, Assumed DEF Stock, QueueObjects
  <2>5. CopiedIn(o, o2, c.item, c.pos) /\ Stocked(o2, Items) BY <2>2, <2>3, <2>4, CopyInFacts DEF Admits
  <2> HIDE DEF o2
  <2>6. Gains(o, o2) BY <2>2, <2>3, <2>4, <2>5, GainedEvolves DEF Admits
  <2>7. /\ o1.kind = o2.kind /\ o1.len = o2.len /\ o1.n = o2.n /\ o1.slots = o2.slots
        /\ o1.read = o2.read /\ o1.out = o2.out
    BY <2>5, AsideAlike
  <2> HIDE DEF o1
  <2>8. Gains(o, o1) BY <2>6, <2>7, AlikeObjects, AlikeThen
  <2> QED BY <2>2, <2>4, <2>8, QueuePut DEF Evolves
<1>2. CASE ReceiveFromISR
  <2>1. PICK c \in Interrupt("receive") :
          LET o2 == TakeOut(obj[c.on])
          IN /\ obj[c.on].kind # "none" /\ ~Empty(obj[c.on])
             /\ Put(c.on, [o2 EXCEPT !["rx"] = IF o2.rx = -1 THEN o2.rx ELSE o2.rx + 1])
    BY <1>2 DEF ReceiveFromISR
  <2> DEFINE o == obj[c.on]
             o2 == TakeOut(o)
             o1 == [o2 EXCEPT !["rx"] = IF o2.rx = -1 THEN o2.rx ELSE o2.rx + 1]
  <2>2. c.on \in Queues /\ c.on \in QueueObjects
    BY InterruptKnown, InterruptSorts DEF ServicesInv, Interrupt, QueueObjects
  <2>3. Stocked(o, Items) /\ o.n # 0 BY <2>1, <2>2, Stands, Assumed DEF Stock, Empty
  <2>4. HandsOver(o, o2) /\ Stocked(o2, Items) BY <2>3, TakenEvolves, CopyOutFacts
  <2>5. Put(c.on, o1) BY <2>1
  <2> HIDE DEF o2
  <2>6. /\ o1.kind = o2.kind /\ o1.len = o2.len /\ o1.n = o2.n /\ o1.slots = o2.slots
        /\ o1.read = o2.read /\ o1.out = o2.out
    BY <2>4, AsideAlike
  <2> HIDE DEF o1
  <2>7. HandsOver(o, o1) BY <2>4, <2>6, AlikeObjects, AlikeThen
  <2> QED BY <2>2, <2>5, <2>7, QueuePut DEF Evolves
<1>3. CASE PeekFromISR
  <2>1. PICK c \in Interrupt("peek") : /\ obj[c.on].kind # "none" /\ ~Empty(obj[c.on])
                                       /\ Put(c.on, Peeked(obj[c.on]))
    BY <1>3 DEF PeekFromISR
  <2>2. c.on \in Queues /\ c.on \in QueueObjects
    BY InterruptKnown, InterruptSorts DEF ServicesInv, Interrupt, QueueObjects
  <2>3. Stocked(obj[c.on], Items) /\ obj[c.on].n # 0 BY <2>1, <2>2, Stands, Assumed DEF Stock, Empty
  <2>4. HandsOver(obj[c.on], Peeked(obj[c.on])) BY <2>3, TakenEvolves
  <2> QED BY <2>1, <2>2, <2>4, QueuePut DEF Evolves
<1> QED BY <1>1, <1>2, <1>3
LEMMA BlocksAlike ==
  ASSUME NEW o, NEW V, Stocked(o, V), NEW b
  PROVE  Alike(o, WithoutBlock(o)) /\ Alike(o, FreeBlock(o, b))
<1> DEFINE o1 == WithoutBlock(o)
           o2 == FreeBlock(o, b)
<1>1. QueueFields \subseteq DOMAIN o BY DEF Stocked
<1>2. \A f \in QueueFields : o1[f] = o[f] /\ o2[f] = o[f]
  <2>1. \A f \in QueueFields : f \notin {"blocks", "created", "taken"} BY DEF QueueFields
  <2> QED BY <1>1, <2>1 DEF WithoutBlock, FreeBlock
<1> HIDE DEF o1, o2
<1>3. /\ o1.kind = o.kind /\ o1.len = o.len /\ o1.n = o.n /\ o1.slots = o.slots /\ o1.read = o.read
      /\ o1.out = o.out
      /\ o2.kind = o.kind /\ o2.len = o.len /\ o2.n = o.n /\ o2.slots = o.slots /\ o2.read = o.read
      /\ o2.out = o.out
  BY <1>2 DEF QueueFields
<1>4. Alike(o, o1) /\ Alike(o, o2) BY <1>3, AlikeObjects
<1> QED BY <1>4 DEF o1, o2
LEMMA PoolsPromised == ASSUME ServicesInv, PoolSteps PROVE FifoStep
<1>1. CASE Allot
  <2>1. pc[k.cur] = "allot" /\ Put(Here.on, IF None(O) THEN O ELSE WithoutBlock(O)) BY <1>1 DEF Allot, O
  <2>2. Here.on \in QueueObjects /\ O.kind # "none"
    BY <2>1, Running DEF Places, AtQueue, AtTimers, StreamPlaces, Here, Taking, QueueObjects, O
  <2>3. Stocked(O, Stock(Here.on)) BY <2>2, Stands DEF O
  <2>4. Alike(O, O) /\ Alike(O, WithoutBlock(O)) BY <2>3, BlocksAlike DEF Alike
  <2> QED BY <2>1, <2>2, <2>4, QueuePut DEF Evolves, O
<1>2. CASE Free
  <2>1. PICK c \in Calls("release") : \E b : Put(c.on, FreeBlock(obj[c.on], b)) BY <1>2 DEF Free
  <2>2. c.on \in Queues /\ c \in AskedOf(program, c.on, {"release"})
    BY Called, QueueCallKnown DEF Plain, AskedOf, Callers
  <2>3. c.on \in QueueObjects /\ Stocked(obj[c.on], Stock(c.on)) BY <2>2, PoolStands
  <2>4. \A b : Alike(obj[c.on], FreeBlock(obj[c.on], b)) BY <2>3, BlocksAlike
  <2> QED BY <2>1, <2>3, <2>4, QueuePut DEF Evolves
<1>3. CASE AllocFromISR
  <2>1. PICK c \in Interrupt("alloc") :
          LET o2 == TakeOut(obj[c.on])
          IN /\ ~Empty(obj[c.on])
             /\ Put(c.on, WithoutBlock([o2 EXCEPT !["rx"] = IF o2.rx = -1 THEN o2.rx ELSE o2.rx + 1]))
    BY <1>3 DEF AllocFromISR
  <2>2. c.on \in Queues /\ c \in Raised(program, c.on, {"alloc", "release"})
    BY InterruptKnown, InterruptSorts DEF ServicesInv, Plain, Raised, Interrupt
  <2> DEFINE o == obj[c.on]
             o2 == TakeOut(o)
             o3 == [o2 EXCEPT !["rx"] = IF o2.rx = -1 THEN o2.rx ELSE o2.rx + 1]
             o1 == WithoutBlock(o3)
  <2>3. c.on \in QueueObjects /\ Stocked(o, Items) /\ o.n # 0
    BY <2>1, <2>2, PoolStands, Assumed DEF Stock, Empty
  <2>4. HandsOver(o, o2) /\ Stocked(o2, Items) BY <2>3, TakenEvolves, CopyOutFacts
  <2>5. Put(c.on, o1) BY <2>1
  <2> HIDE DEF o2
  <2>6. /\ o3.kind = o2.kind /\ o3.len = o2.len /\ o3.n = o2.n /\ o3.slots = o2.slots
        /\ o3.read = o2.read /\ o3.out = o2.out
    BY <2>4, AsideAlike
  <2>7. Stocked(o3, Items)
    <3> DEFINE n == IF o2.rx = -1 THEN o2.rx ELSE o2.rx + 1
    <3>1. n \in Int BY <2>4 DEF Stocked, Aside
    <3> HIDE DEF n
    <3>2. Stocked([o2 EXCEPT !.rx = n], Items) BY <2>4, <3>1, Relocks
    <3> QED BY <3>2 DEF n
  <2> HIDE DEF o3
  <2>8. HandsOver(o, o3) BY <2>4, <2>6, AlikeObjects, AlikeThen
  <2>9. HandsOver(o, o1) BY <2>7, <2>8, BlocksAlike, AlikeThen
  <2> QED BY <2>3, <2>5, <2>9, QueuePut DEF Evolves
<1>4. CASE FreeFromISR
  <2>1. PICK c \in Interrupt("release") : \E b :
          LET o3 == FreeBlock(obj[c.on], b)
              o2 == CopyIn(o3, Nothing, "back")
          IN /\ ~Full(o3) /\ Put(c.on, [o2 EXCEPT !["tx"] = IF o2.tx = -1 THEN o2.tx ELSE o2.tx + 1])
    BY <1>4 DEF FreeFromISR
  <2>2. c.on \in Queues /\ c \in Raised(program, c.on, {"alloc", "release"})
    BY InterruptKnown, InterruptSorts DEF ServicesInv, Plain, Raised, Interrupt
  <2>3. PICK b :
          LET o3 == FreeBlock(obj[c.on], b)
              o2 == CopyIn(o3, Nothing, "back")
          IN /\ ~Full(o3) /\ Put(c.on, [o2 EXCEPT !["tx"] = IF o2.tx = -1 THEN o2.tx ELSE o2.tx + 1])
    BY <2>1
  <2> DEFINE o == obj[c.on]
             o3 == FreeBlock(o, b)
             o2 == CopyIn(o3, Nothing, "back")
             o1 == [o2 EXCEPT !["tx"] = IF o2.tx = -1 THEN o2.tx ELSE o2.tx + 1]
  <2>4. c.on \in QueueObjects /\ Stocked(o, Items) /\ o.kind = "pool"
    BY <2>2, PoolStands, Assumed DEF Stock
  <2>5. Stocked(o3, Items) /\ o3.kind = "pool" /\ Alike(o, o3) BY <2>4, BlocksApart, BlocksAlike
  <2>6. ~Full(o3) /\ Put(c.on, o1) BY <2>3
  <2> HIDE DEF o3
  <2>7. Admits(o3, "back") BY <2>6 DEF Admits
  <2>8. CopiedIn(o3, o2, Nothing, "back") /\ Stocked(o2, Items) BY <2>5, <2>7, CopyInFacts
  <2> HIDE DEF o2
  <2>9. Gains(o3, o2) BY <2>5, <2>7, <2>8, GainedEvolves
  <2>10. /\ o1.kind = o2.kind /\ o1.len = o2.len /\ o1.n = o2.n /\ o1.slots = o2.slots
         /\ o1.read = o2.read /\ o1.out = o2.out
    BY <2>8, AsideAlike
  <2> HIDE DEF o1
  <2>11. Gains(o3, o1) BY <2>9, <2>10, AlikeObjects, AlikeThen
  <2>12. Gains(o, o1) BY <2>5, <2>11, Zenon DEF Alike, Gains
  <2> QED BY <2>4, <2>6, <2>12, QueuePut DEF Evolves
<1> QED BY <1>1, <1>2, <1>3, <1>4 DEF PoolSteps

(* The other objects' steps leave the queues alone.                          *)
LEMMA GroupsApart == ASSUME ServicesInv, GroupSteps PROVE Only(Groups)
<1>1. \/ \E op \in {"setBits", "clearBits", "waitBits", "sync", "newGroup", "deleteGroup"} :
           \E c \in Calls(op) : \E o1 : Put(c.on, o1)
      \/ pc[k.cur] = "woken" /\ \E o1 : Put(Here.on, o1)
  <2>1. CASE SetBitsStep BY <2>1 DEF SetBitsStep, OfGroup
  <2>2. CASE ClearBits BY <2>2 DEF ClearBits, OfGroup
  <2>3. CASE WaitBits BY <2>3 DEF WaitBits, OfGroup
  <2>4. CASE Sync BY <2>4 DEF Sync, OfGroup
  <2>5. CASE Woken BY <2>5 DEF Woken
  <2>6. CASE CreateGroup BY <2>6 DEF CreateGroup
  <2>7. CASE DeleteGroup BY <2>7 DEF DeleteGroup, OfGroup
  <2> QED BY <2>1, <2>2, <2>3, <2>4, <2>5, <2>6, <2>7 DEF GroupSteps
<1>2. pc[k.cur] = "woken" => Here.on \in Groups
  BY Running DEF Places, AtQueue, AtTimers, StreamPlaces, Here, Grouping
<1>3. \E x \in Groups : \E o1 : Put(x, o1) BY <1>1, <1>2, GroupCalled
<1> QED BY <1>3, OnlyOne
LEMMA StreamsApart == ASSUME ServicesInv, StreamSteps PROVE Only(Streams)
<1>1. CASE Room \/ Sleep \/ Slept \/ Forget \/ Expired \/ Measure \/ PutData \/ Tell \/ NotifyOther
             \/ Look \/ Length \/ Copy
  <2>1. pc[k.cur] \in StreamPlaces
    BY <1>1 DEF Room, Sleep, Slept, Forget, Expired, Measure, PutData, Tell, NotifyOther, Look, Length, Copy,
                At, StreamPlaces
  <2>2. UNCHANGED obj \/ \E o1 : Put(Here.on, o1)
    BY <1>1, Zenon DEF Room, Sleep, Slept, Forget, Expired, Measure, PutData, Tell, NotifyOther, Look, Length, Copy,
                Changes
  <2>3. Here.on \in Streams BY <2>1, Streamed
  <2> QED BY <2>2, <2>3, OnlyOne
<1>2. CASE StreamSend \/ StreamReceive \/ NextMessageLength \/ StreamReset \/ SetTriggerLevel \/ StreamCreate
             \/ StreamDelete
  <2>1. UNCHANGED obj \/ \E op \in {"get", "resetStream", "deleteStream", "trigger", "newStream"} :
                           \E c \in Calls(op) : \E o1 : Put(c.on, o1)
    BY <1>2, Zenon DEF StreamSend, StreamReceive, NextMessageLength, StreamReset, SetTriggerLevel, StreamCreate,
                StreamDelete, InStream
  <2>2. ASSUME NEW op \in {"get", "resetStream", "deleteStream", "trigger", "newStream"}, NEW c \in Calls(op)
        PROVE  c.on \in Streams
    <3>1. c \in TaskCalls /\ c.op = op BY Called
    <3>2. c.on \in Streams BY <3>1, StreamCallKnown DEF Transfers
    <3> QED BY <3>2
  <2> QED BY <2>1, <2>2, OnlyOne
<1>3. CASE StreamSendFromISR \/ StreamReceiveFromISR
  <2>1. \E op \in {"put", "get"} : \E c \in Interrupt(op) : \E o1 : Put(c.on, o1)
    BY <1>3, Zenon DEF StreamSendFromISR, StreamReceiveFromISR
  <2>2. ASSUME NEW op \in {"put", "get"}, NEW c \in Interrupt(op) PROVE c.on \in Streams
    <3>1. c \in InterruptCalls /\ c.op = op BY InterruptKnown DEF Interrupt, ServicesInv
    <3>2. c.on \in Streams BY <3>1, InterruptSorts
    <3> QED BY <3>2
  <2> QED BY <2>1, <2>2, OnlyOne
<1> QED BY <1>1, <1>2, <1>3 DEF StreamSteps
LEMMA TimersApart == ASSUME ServicesInv, TimerSteps PROVE Only({"timers", TimerQueue} \cup Groups)
<1> DEFINE S == {"timers", TimerQueue} \cup Groups
<1>1. "timers" \in S /\ TimerQueue \in S OBVIOUS
<1> HIDE DEF S
<1>2. CASE TimerLook \/ SwitchDone \/ SampleTime \/ SetReloadMode
  <2>1. \E o : Timed(o) BY <1>2 DEF TimerLook, SwitchDone, SampleTime, SetReloadMode
  <2> QED BY <1>1, <2>1, OnlyOne DEF Timed, Put
<1>3. CASE Await \/ SleepUntil \/ NextCommand \/ CommandFromISR \/ PendCallFromISR \/ SendCommand \/ PendCall
  <2>1. UNCHANGED obj \/ \E o : Put(TimerQueue, o)
    BY <1>3, Zenon DEF Await, SleepUntil, NextCommand, CommandFromISR, PendCallFromISR, SendCommand, PendCall, SendsFromISR
  <2> QED BY <1>1, <2>1, OnlyOne
<1>4. CASE SwitchOne \/ Expire \/ Act
  <2>1. \E b, o, message, to : SendsIf(b, o, message, to)
    BY <1>4, Zenon DEF SwitchOne, Expire, Act
  <2>2. PICK o, o2 : Timed(o) \/ obj' = [obj EXCEPT !["timers"] = o, ![TimerQueue] = o2]
    BY <2>1, Zenon DEF SendsIf, Sends
  <2>3. CASE Timed(o) BY <1>1, <2>3, OnlyOne DEF Timed, Put
  <2>4. CASE obj' = [obj EXCEPT !["timers"] = o, ![TimerQueue] = o2]
    <3>1. \A x \in Names \ S : x # "timers" /\ x # TimerQueue BY <1>1
    <3> QED BY <2>4, <3>1, Running DEF Only
  <2> QED BY <2>2, <2>3, <2>4
<1>5. CASE Call
  <2>1. pc[k.cur] = "call" /\ \E o : Put(Here.message.on, o) BY <1>5, Zenon DEF Call
  <2>2. Here.message \in Callbacks
    BY <2>1, Running DEF Places, AtQueue, AtTimers, StreamPlaces, Here
  <2>3. Here.message.on \in Groups BY <2>2 DEF Callbacks
  <2>4. Here.message.on \in S BY <2>3 DEF S
  <2>5. \E x \in S : \E o : Put(x, o) BY <2>1, <2>4, Zenon
  <2> QED BY <2>5, OnlyOne DEF S
<1> QED BY <1>2, <1>3, <1>4, <1>5 DEF TimerSteps, S
LEMMA OwnersApart == ASSUME ServicesInv, OwnerSteps \/ TaskMalloc \/ TaskFree PROVE Only(Things)
<1>1. CASE TaskMalloc \/ TaskFree \/ Make \/ Obtain \/ Supplied \/ Refused \/ GiveBack
  <2>1. UNCHANGED obj \/ \E x \in Things : \E o1 : Put(x, o1)
    BY <1>1, Zenon DEF TaskMalloc, TaskFree, HeapUse, Make, Obtain, Supplied, Refused, GiveBack, HeapCall
  <2> QED BY <2>1, OnlyOne
<1>2. CASE Made
  <2>1. pc[k.cur] = "obtain" /\ \E o1 : Put(Here.on, o1) BY <1>2 DEF Made
  <2>2. Here.on \in Things
    BY <2>1, Running DEF Places, AtQueue, AtTimers, StreamPlaces, Here, Owning
  <2> QED BY <2>1, <2>2, OnlyOne
<1>3. CASE DeleteAtOnce \/ DeleteOne \/ DeleteTimer
  <2>1. PICK c \in Calls("unmake") : \E o1 : Put(c.on, o1)
    BY <1>3, Zenon DEF DeleteAtOnce, DeleteOne, DeleteTimer
  <2>2. c.on \in Things BY Called, OtherCallKnown
  <2> QED BY <2>1, <2>2, OnlyOne
<1>4. CASE ThreadExits \/ IdleFrees \/ TimerTaskFrees
  <2>1. \E x \in Things : \E o1 : Put(x, o1)
    BY <1>4, Zenon DEF ThreadExits, IdleFrees, TimerTaskFrees, Reap
  <2> QED BY <2>1, OnlyOne
<1> QED BY <1>1, <1>2, <1>3, <1>4 DEF OwnerSteps

-----------------------------------------------------------------------------
LEMMA StepPromised == ASSUME ServicesInv, [Next]_serviceVars PROVE FifoStep
<1>0. ASSUME UNCHANGED obj PROVE FifoStep BY <1>0, QueuesStay DEF Untouched
<1>1. CASE UNCHANGED serviceVars BY <1>0, <1>1 DEF serviceVars
<1>2. CASE OwnerSteps \/ TaskMalloc \/ TaskFree
  <2>1. Things \cap Queues = {} BY Assumed
  <2> QED BY <1>2, <2>1, OwnersApart, OnlyUntouched, QueuesStay
<1>3. CASE OwnCode \/ Interrupts \/ Resume \/ YieldWithinAPI \/ Delay
  <2>1. UNCHANGED obj BY <1>3 DEF OwnCode, Interrupts, Resume, YieldWithinAPI, Delay, objectVars
  <2> QED BY <1>0, <2>1
<1>4. CASE QueueSteps
  <2>1. CASE TryInVain \/ TryAsserts \/ TryWaits \/ Suspend \/ Place \/ Final \/ DisinheritStep
    <3>1. UNCHANGED obj BY <2>1 DEF TryInVain, TryAsserts, TryWaits, Suspend, Place, Final, DisinheritStep
    <3> QED BY <1>0, <3>1
  <2> QED BY <1>4, <2>1, TriesPromised, LocksPromised, CountsPromised, LivesPromised, InterruptsPromised DEF QueueSteps
<1>5. CASE GroupSteps
  <2>1. Groups \cap Queues = {} BY Assumed
  <2> QED BY <1>5, <2>1, GroupsApart, OnlyUntouched, QueuesStay
<1>6. CASE StreamSteps
  <2>1. Streams \cap Queues = {} BY Assumed
  <2> QED BY <1>6, <2>1, StreamsApart, OnlyUntouched, QueuesStay
<1>7. CASE TimerSteps
  <2>1. ({"timers", TimerQueue} \cup Groups) \cap Queues = {} BY Assumed
  <2> QED BY <1>7, <2>1, TimersApart, OnlyUntouched, QueuesStay
<1>8. CASE PoolSteps BY <1>8, PoolsPromised
<1> QED BY <1>1, <1>2, <1>3, <1>4, <1>5, <1>6, <1>7, <1>8 DEF Next
LEMMA InitPromised == ASSUME ServicesInv PROVE Promise!Init
<1> SUFFICES ASSUME NEW q \in Queues PROVE Len(contents[q]) <= rooms[q]
  BY DEF Promise!Init, contents, rooms
<1>1. CASE obj[q].kind = "none" BY <1>1 DEF contents, rooms, Contents
<1>2. CASE obj[q].kind # "none"
  <2>1. Stocked(obj[q], Items) BY <1>2, Stands, Assumed DEF Stock, QueueObjects
  <2> QED BY <1>2, <2>1, ContentsFacts DEF contents, rooms
<1> QED BY <1>1, <1>2

(* A queue is a bounded FIFO: what has been put in comes out once and in      *)
(* order, whatever the tasks and the interrupts of any program do.           *)
THEOREM QueuesAreFifo == Spec => FifoKept
<1>1. Init => Promise!Init BY InitHolds1, InitPromised
<1>2. ServicesInv /\ [Next]_serviceVars => FifoStep BY StepPromised
<1> QED BY <1>1, <1>2, ServicesSound, PTL DEF Spec, FifoKept, Promise!Spec, FifoStep, rooms, contents, outs
-----------------------------------------------------------------------------
(* The heap: it stays sound whatever is allocated and freed, for every size  *)
(* of heap and every alignment.                                              *)
HeapBlock == [at : Int, size : Int]

(* The parts of HeapSound, for sets of free and of used blocks.              *)
WithinHeap(all) == \A b \in all : b.size > 0 /\ b.at >= 0 /\ After(b) <= HeapSize
Disjoint(all) == \A b, c \in all : b # c => Apart(b, c)
Covered(all) == \A x \in 0 .. HeapSize - 1 : Covers(all, x)
Tiles(all) == all \subseteq HeapBlock /\ WithinHeap(all) /\ Disjoint(all) /\ Covered(all)
NoneTouch(free) == \A b, c \in free : After(b) # c.at
Whole(free, used) == free \cap used = {} /\ Tiles(free \cup used) /\ NoneTouch(free)

(* A block b that is in neither list yet: prvInsertBlockIntoFreeList is      *)
(* called with it.                                                           *)
Loose(free, b, used) ==
  /\ b \notin free \cup used /\ free \cap used = {}
  /\ Tiles(free \cup {b} \cup used) /\ NoneTouch(free)

-----------------------------------------------------------------------------
(* At most one free block ends where b begins, at most one begins where b    *)
(* ends: two would overlap.                                                  *)
LEMMA OneNeighbour ==
  ASSUME NEW free, NEW p \in free, NEW q \in free,
         free \subseteq HeapBlock, WithinHeap(free), Disjoint(free),
         After(p) = After(q) \/ p.at = q.at
  PROVE  p = q
  BY DEF WithinHeap, Disjoint, Apart, After, HeapBlock

(* What the insertion makes of b and its neighbours: one block from the      *)
(* beginning of the first to the end of the last.                            *)
Before(free, b) == {c \in free : After(c) = b.at}
Behind(free, b) == {c \in free : c.at = After(b)}
Joins(free, b, new) ==
  /\ new \in HeapBlock
  /\ \/ Before(free, b) = {} /\ new.at = b.at
     \/ \E p \in free : Before(free, b) = {p} /\ new.at = p.at
  /\ \/ Behind(free, b) = {} /\ After(new) = After(b)
     \/ \E q \in free : Behind(free, b) = {q} /\ After(new) = After(q)

LEMMA InsertJoins ==
  ASSUME NEW free, NEW used, NEW b, Loose(free, b, used)
  PROVE  \E new : /\ Joins(free, b, new)
                  /\ InsertBlock(free, b) = (free \ (Before(free, b) \cup Behind(free, b))) \cup {new}
<1> DEFINE before == {c \in free : After(c) = b.at}
           behind == {c \in free : c.at = After(b)}
           first == CHOOSE c \in before : TRUE
           last == CHOOSE c \in behind : TRUE
           from == IF before = {} THEN b.at ELSE first.at
           to == IF behind = {} THEN After(b) ELSE After(last)
           new == [at |-> from, size |-> to - from]
<1>1. free \subseteq HeapBlock /\ b \in HeapBlock /\ WithinHeap(free) /\ Disjoint(free)
  BY DEF Loose, Tiles, WithinHeap, Disjoint
<1>2. before # {} => first \in free /\ before = {first}
  <2> SUFFICES ASSUME before # {} PROVE first \in free /\ before = {first}
    OBVIOUS
  <2>1. first \in before
    OBVIOUS
  <2>2. \A c \in before : c = first
    <3> SUFFICES ASSUME NEW c \in before PROVE c = first
      OBVIOUS
    <3>1. c \in free /\ first \in free /\ After(c) = After(first)
      BY <2>1
    <3> HIDE DEF before, first
    <3> QED BY <3>1, <1>1, OneNeighbour
  <2> QED BY <2>1, <2>2
<1>3. behind # {} => last \in free /\ behind = {last}
  <2> SUFFICES ASSUME behind # {} PROVE last \in free /\ behind = {last}
    OBVIOUS
  <2>1. last \in behind
    OBVIOUS
  <2>2. \A c \in behind : c = last
    <3> SUFFICES ASSUME NEW c \in behind PROVE c = last
      OBVIOUS
    <3>1. c \in free /\ last \in free /\ c.at = last.at
      BY <2>1
    <3> HIDE DEF behind, last
    <3> QED BY <3>1, <1>1, OneNeighbour
  <2> QED BY <2>1, <2>2
<1>4. before = Before(free, b) /\ behind = Behind(free, b)
  BY DEF Before, Behind
<1>5. InsertBlock(free, b) = (free \ (before \cup behind)) \cup {new}
  BY DEF InsertBlock
<1>6. Joins(free, b, new)
  <2> HIDE DEF before, behind, first, last
  <2>1. from \in Int /\ to \in Int
    BY <1>1, <1>2, <1>3 DEF HeapBlock, After
  <2>2. new \in HeapBlock /\ new.at = from /\ After(new) = to
    <3> HIDE DEF from, to
    <3> QED BY <2>1 DEF HeapBlock, After
  <2>3. \/ Before(free, b) = {} /\ new.at = b.at
        \/ \E p \in free : Before(free, b) = {p} /\ new.at = p.at
    <3>1. CASE before = {} BY <3>1, <2>2, <1>4
    <3>2. CASE before # {} BY <3>2, <2>2, <1>4, <1>2
    <3> QED BY <3>1, <3>2
  <2>4. \/ Behind(free, b) = {} /\ After(new) = After(b)
        \/ \E q \in free : Behind(free, b) = {q} /\ After(new) = After(q)
    <3>1. CASE behind = {} BY <3>1, <2>2, <1>4
    <3>2. CASE behind # {} BY <3>2, <2>2, <1>4, <1>3
    <3> QED BY <3>1, <3>2
  <2> HIDE DEF new
  <2> QED BY <2>2, <2>3, <2>4 DEF Joins
<1> QED BY <1>4, <1>5, <1>6

(* prvInsertBlockIntoFreeList makes a loose block part of a sound heap.      *)
LEMMA InsertSound ==
  ASSUME NEW free, NEW used, NEW b, Loose(free, b, used)
  PROVE  Whole(InsertBlock(free, b), used)
<1>1. PICK new : /\ Joins(free, b, new)
                 /\ InsertBlock(free, b) = (free \ (Before(free, b) \cup Behind(free, b))) \cup {new}
  BY InsertJoins
<1> DEFINE rest == free \ (Before(free, b) \cup Behind(free, b))
           all == rest \cup used
<1>2. /\ free \subseteq HeapBlock /\ used \subseteq HeapBlock /\ b \in HeapBlock
      /\ WithinHeap(free) /\ WithinHeap(used) /\ WithinHeap({b}) /\ NoneTouch(free)
      /\ Disjoint(free) /\ Disjoint(all) /\ b \notin free \cup used /\ free \cap used = {}
      /\ \A c \in free \cup used : Apart(b, c)
      /\ \A c \in all, d \in free \ rest : Apart(c, d)
      /\ Covered(free \cup {b} \cup used)
  BY DEF Loose, Tiles, WithinHeap, Disjoint, Apart
<1>3. new \in HeapBlock /\ new.at <= b.at /\ After(b) <= After(new)
  BY <1>1, <1>2 DEF Joins, WithinHeap, After, HeapBlock, Before, Behind
<1>4. WithinHeap({new})
  BY <1>1, <1>2, <1>3 DEF Joins, WithinHeap, After, HeapBlock, Before, Behind
<1>5. \A c \in all : Apart(c, new)
  <2> SUFFICES ASSUME NEW c \in all PROVE Apart(c, new)
    OBVIOUS
  <2>1. c \in HeapBlock /\ Apart(b, c) /\ c.size > 0 /\ b.size > 0
    BY <1>2 DEF WithinHeap
  <2>2. \/ new.at = b.at
        \/ \E p \in free \ rest : After(p) = b.at /\ new.at = p.at /\ p.size > 0 /\ Apart(c, p) /\ p \in HeapBlock
    BY <1>1, <1>2 DEF Joins, WithinHeap, Before
  <2>3. \/ After(new) = After(b)
        \/ \E q \in free \ rest : q.at = After(b) /\ After(new) = After(q) /\ q.size > 0 /\ Apart(c, q) /\ q \in HeapBlock
    BY <1>1, <1>2 DEF Joins, WithinHeap, Behind
  <2> QED BY <2>1, <2>2, <2>3, <1>2, <1>3 DEF Apart, After, HeapBlock
<1>6. Covered(all \cup {new})
  <2> SUFFICES ASSUME NEW x \in 0 .. HeapSize - 1 PROVE Covers(all \cup {new}, x)
    BY DEF Covered
  <2>1. PICK c \in free \cup {b} \cup used : c.at <= x /\ x < After(c)
    BY <1>2 DEF Covered, Covers
  <2>2. CASE c \in all
    BY <2>1, <2>2 DEF Covers
  <2>3. CASE c \notin all
    <3>1. c = b \/ c \in Before(free, b) \/ c \in Behind(free, b)
      BY <2>3
    <3>2. c \in HeapBlock /\ x \in Int /\ HeapSize \in Int
      BY <1>2, HeapAssumption
    <3>3. new.at <= c.at /\ After(c) <= After(new)
      BY <3>1, <3>2, <1>1, <1>2, <1>3 DEF Joins, Before, Behind, WithinHeap, After, HeapBlock
    <3>4. new.at <= x /\ x < After(new)
      BY <2>1, <3>2, <3>3, <1>3 DEF After, HeapBlock
    <3> QED BY <3>4 DEF Covers
  <2> QED BY <2>2, <2>3
<1>7. new \notin all
  BY <1>4, <1>5, <1>3 DEF Apart, WithinHeap, After, HeapBlock
<1>8. NoneTouch(rest \cup {new})
  <2>1. ASSUME NEW c \in rest PROVE After(c) # new.at
    BY <1>1, <1>2 DEF Joins, Before, NoneTouch
  <2>2. ASSUME NEW c \in rest PROVE After(new) # c.at
    BY <1>1, <1>2 DEF Joins, Behind, NoneTouch
  <2>3. After(new) # new.at
    BY <1>3, <1>4 DEF WithinHeap, After, HeapBlock
  <2> QED BY <2>1, <2>2, <2>3, <1>2 DEF NoneTouch
<1>9. WithinHeap(all \cup {new}) /\ all \cup {new} \subseteq HeapBlock
  BY <1>2, <1>3, <1>4 DEF WithinHeap
<1>10. Disjoint(all \cup {new})
  BY <1>2, <1>5 DEF Disjoint, Apart
<1> QED
  <2> (rest \cup {new}) \cup used = all \cup {new}
    OBVIOUS
  <2> (rest \cup {new}) \cap used = {}
    BY <1>2, <1>7
  <2> HIDE DEF rest, all
  <2> QED BY <1>1, <1>6, <1>8, <1>9, <1>10 DEF Whole, Tiles, rest

-----------------------------------------------------------------------------
Intact(h) ==
  /\ h \in [free : SUBSET HeapBlock, used : SUBSET HeapBlock, remaining : Int, least : Int]
  /\ Whole(h.free, h.used)
HeapInv == Intact(heap)

LEMMA IntactIsSound == HeapInv => HeapSound
BY DEF HeapInv, Intact, Whole, Tiles, WithinHeap, Disjoint, Covered, NoneTouch, HeapSound

(* The units a request takes, the header included.                           *)
LEMMA WantedPositive ==
  ASSUME NEW n \in Nat \ {0}
  PROVE  Wanted(n) \in Nat \ {0}
<1>1. (n + Unit - 1) \div Unit \in Nat
  <2>1. ASSUME NEW a \in Nat, NEW m \in Nat \ {0} PROVE a \div m \in Nat
    BY <2>1, Z3
  <2> QED BY <2>1, HeapAssumption
<1> QED BY <1>1 DEF Wanted

LEMMA HeapInitHolds == HeapInit => HeapInv
<1> SUFFICES ASSUME HeapInit PROVE HeapInv
  OBVIOUS
<1> DEFINE b == [at |-> 0, size |-> HeapSize]
<1>1. b \in HeapBlock /\ b.size > 0 /\ b.at = 0 /\ After(b) = HeapSize
  BY HeapAssumption DEF HeapBlock, After
<1>2. heap.free = {b} /\ heap.used = {} /\ heap.remaining \in Int /\ heap.least \in Int
  BY <1>1, HeapAssumption DEF HeapInit
<1> HIDE DEF b
<1>3. Covered({b})
  BY <1>1, HeapAssumption DEF Covered, Covers
<1>4. Whole({b}, {})
  BY <1>1, <1>3, HeapAssumption DEF Whole, Tiles, WithinHeap, Disjoint, NoneTouch
<1> QED BY <1>1, <1>2, <1>4 DEF HeapInv, HeapInit, Intact

(* vPortFree: the block that is freed is loose, for it was in use.           *)
LEMMA FreedIntact ==
  ASSUME NEW h, Intact(h), NEW b \in h.used
  PROVE  /\ Intact(Freed(h, b)) /\ Loose(h.free, b, h.used \ {b}) /\ b \in HeapBlock /\ b.size > 0
         /\ Freed(h, b).free = InsertBlock(h.free, b) /\ Freed(h, b).used = h.used \ {b}
         /\ Freed(h, b).remaining = h.remaining + b.size /\ Freed(h, b).least = h.least
<1> DEFINE i == Freed(h, b)
<1>1. h.free \cup {b} \cup (h.used \ {b}) = h.free \cup h.used
  OBVIOUS
<1>2. Loose(h.free, b, h.used \ {b}) /\ b.size > 0
  BY <1>1 DEF Intact, Whole, Loose, Tiles, WithinHeap
<1>3. Whole(InsertBlock(h.free, b), h.used \ {b})
  BY <1>2, InsertSound
<1>4. b \in HeapBlock /\ h.remaining + b.size \in Int /\ h.least \in Int
  BY DEF Intact, HeapBlock
<1>5. InsertBlock(h.free, b) \subseteq HeapBlock /\ h.used \ {b} \subseteq HeapBlock
  BY <1>3 DEF Whole, Tiles
<1>6. /\ i.free = InsertBlock(h.free, b) /\ i.used = h.used \ {b}
      /\ i.remaining = h.remaining + b.size /\ i.least = h.least
  BY DEF Freed, Intact
<1>7. i \in [free : SUBSET HeapBlock, used : SUBSET HeapBlock, remaining : Int, least : Int]
  <2>1. ASSUME NEW f \in SUBSET HeapBlock, NEW u \in SUBSET HeapBlock, NEW r \in Int
        PROVE  [h EXCEPT !.free = f, !.used = u, !.remaining = r]
                 \in [free : SUBSET HeapBlock, used : SUBSET HeapBlock, remaining : Int, least : Int]
    BY DEF Intact
  <2> DEFINE f == InsertBlock(h.free, b)
             u == h.used \ {b}
             r == h.remaining + b.size
  <2>2. f \in SUBSET HeapBlock /\ u \in SUBSET HeapBlock /\ r \in Int BY <1>4, <1>5
  <2>3. i = [h EXCEPT !.free = f, !.used = u, !.remaining = r] BY DEF Freed
  <2> HIDE DEF f, u, r, i
  <2> QED BY <2>1, <2>2, <2>3
<1> HIDE DEF i
<1>8. Intact(i) BY <1>3, <1>6, <1>7 DEF Intact
<1> QED BY <1>2, <1>4, <1>6, <1>8 DEF i

(* pvPortMalloc: a block that is split becomes one in use and one that is    *)
(* loose; a block that is not changes lists.                                 *)
LEMMA MallocPreserves ==
  ASSUME HeapInv, NEW n \in Nat, NEW b \in heap.free, Malloc(n, b)
  PROVE  /\ HeapInv' /\ b \in HeapBlock /\ b.size > 0 /\ heap'.used = heap.used \cup {Taken(n, b)}
         /\ Taken(n, b) \in HeapBlock \ heap.used /\ Taken(n, b).size > 0
         /\ Split(n, b) => /\ Loose(heap.free \ {b}, Remainder(n, b), heap.used \cup {Taken(n, b)})
                           /\ Remainder(n, b).size = b.size - Taken(n, b).size
<1> DEFINE others == heap.free \ {b}
           rest == Remainder(n, b)
           taken == Taken(n, b)
           used == heap.used \cup {taken}
           free == IF Split(n, b) THEN InsertBlock(others, rest) ELSE others
<1>1. Wanted(n) \in Nat \ {0} /\ b.size >= Wanted(n)
  BY WantedPositive DEF Malloc, FirstFit, Fits
<1>2. /\ b \in HeapBlock /\ heap.free \subseteq HeapBlock /\ heap.used \subseteq HeapBlock /\ b.size > 0 /\ b.at >= 0
      /\ After(b) <= HeapSize /\ heap.remaining \in Int /\ heap.least \in Int
  BY DEF HeapInv, Intact, Whole, Tiles, WithinHeap
<1>3. taken \in HeapBlock
  BY <1>1, <1>2 DEF HeapBlock, Taken
<1>4. /\ Whole(free, used) /\ taken \notin heap.used /\ taken.size > 0
      /\ Split(n, b) => Loose(others, rest, used) /\ rest.size = b.size - taken.size
  <2>1. CASE ~Split(n, b)
    <3>1. others \cup (heap.used \cup {b}) = heap.free \cup heap.used /\ b \notin heap.used
      BY DEF HeapInv, Intact, Whole
    <3>2. taken = b /\ free = others
      BY <2>1 DEF Taken
    <3> HIDE DEF taken, free
    <3> QED BY <1>2, <2>1, <3>1, <3>2 DEF HeapInv, Intact, Whole, NoneTouch
  <2>2. CASE Split(n, b)
    <3>1. /\ taken = [at |-> b.at, size |-> Wanted(n)]
          /\ taken.at = b.at /\ After(taken) = rest.at /\ After(rest) = After(b)
          /\ rest \in HeapBlock /\ taken.size > 0 /\ rest.size > 0 /\ rest.size = b.size - taken.size
      BY <2>2, <1>1, <1>2 DEF Taken, Remainder, Split, MinimumBlock, After, HeapBlock
    <3> HIDE DEF rest, taken
    <3>2. \A c \in others \cup heap.used : c \in HeapBlock /\ c.size > 0 /\ Apart(c, b)
      BY DEF HeapInv, Intact, Whole, Tiles, WithinHeap, Disjoint
    <3>3. \A c \in others \cup heap.used : Apart(c, rest) /\ Apart(c, taken) /\ Apart(rest, c) /\ Apart(taken, c)
      BY <3>1, <3>2, <1>2, <1>3 DEF Apart, After, HeapBlock
    <3>4. Apart(taken, rest) /\ Apart(rest, taken) /\ taken # rest
      BY <3>1, <1>3 DEF Apart, After, HeapBlock
    <3>5. rest \notin others \cup heap.used /\ taken \notin others \cup heap.used
      BY <3>1, <3>2, <3>3, <1>3 DEF Apart, After, HeapBlock
    <3> DEFINE all == others \cup {rest} \cup used
    <3>6. all \subseteq HeapBlock /\ WithinHeap(all)
      BY <3>1, <3>2, <1>2, <1>3, HeapAssumption DEF HeapInv, Intact, Whole, Tiles, WithinHeap, After, HeapBlock
    <3>7. Disjoint(all)
      BY <3>3, <3>4 DEF HeapInv, Intact, Whole, Tiles, Disjoint
    <3>8. Covered(all)
      <4> SUFFICES ASSUME NEW x \in 0 .. HeapSize - 1 PROVE Covers(all, x)
        BY DEF Covered
      <4>1. PICK c \in heap.free \cup heap.used : c.at <= x /\ x < After(c)
        BY DEF HeapInv, Intact, Whole, Tiles, Covered, Covers
      <4>2. CASE c # b
        BY <4>1, <4>2 DEF Covers
      <4>3. CASE c = b
        <5>1. x \in Int /\ rest.at \in Int
          BY <3>1, HeapAssumption DEF HeapBlock
        <5>2. (taken.at <= x /\ x < After(taken)) \/ (rest.at <= x /\ x < After(rest))
          BY <4>1, <4>3, <5>1, <3>1
        <5> QED BY <5>2 DEF Covers
      <4> QED BY <4>2, <4>3
    <3>9. Loose(others, rest, used)
      <4>1. others \cap used = {} /\ rest \notin others \cup used
        BY <3>4, <3>5 DEF HeapInv, Intact, Whole
      <4>2. NoneTouch(others)
        BY DEF HeapInv, Intact, Whole, NoneTouch
      <4> HIDE DEF others, used
      <4> QED BY <4>1, <4>2, <3>6, <3>7, <3>8 DEF Loose, Tiles
    <3>10. Whole(InsertBlock(others, rest), used)
      BY <3>9, InsertSound
    <3> QED BY <3>1, <3>5, <3>9, <3>10, <2>2
  <2> QED BY <2>1, <2>2
<1>5. free \subseteq HeapBlock /\ used \subseteq HeapBlock
  BY <1>4 DEF Whole, Tiles
<1>6. /\ heap'.free = free /\ heap'.used = used
      /\ heap' = [free |-> free, used |-> used, remaining |-> heap.remaining - taken.size,
                  least |-> IF heap.remaining - taken.size < heap.least
                              THEN heap.remaining - taken.size ELSE heap.least]
  BY DEF Malloc
<1>7. HeapInv'
  <2> HIDE DEF free, used, taken
  <2> QED BY <1>2, <1>3, <1>4, <1>5, <1>6 DEF HeapInv, Intact, HeapBlock
<1> HIDE DEF free
<1> QED BY <1>2, <1>3, <1>4, <1>6, <1>7

LEMMA HeapNextPreserves == HeapInv /\ [HeapNext]_heap => HeapInv'
<1> SUFFICES ASSUME HeapInv, [HeapNext]_heap PROVE HeapInv'
  OBVIOUS
<1>1. CASE \E n \in 1 .. HeapSize * Unit : \E b \in heap.free : Malloc(n, b)
  <2>1. PICK n \in 1 .. HeapSize * Unit, b \in heap.free : Malloc(n, b)
    BY <1>1
  <2>2. n \in Nat
    BY HeapAssumption
  <2> QED BY <2>1, <2>2, MallocPreserves
<1>2. CASE \E b \in heap.used : FreeMemory(b)
  BY <1>2, FreedIntact DEF FreeMemory, HeapInv
<1>3. CASE UNCHANGED heap
  BY <1>3 DEF HeapInv, Intact
<1> QED BY <1>1, <1>2, <1>3 DEF HeapNext

(* After any sequence of allocations and releases every unit of the heap is  *)
(* in exactly one block, and no two free blocks lie side by side unjoined    *)
(* (pvPortMalloc, vPortFree and prvInsertBlockIntoFreeList).                 *)
THEOREM HeapIsSound == HeapSpec => []HeapSound
<1> QED BY HeapInitHolds, HeapNextPreserves, IntactIsSound, PTL DEF HeapSpec

-----------------------------------------------------------------------------
(* The sum of the sizes of a finite set of blocks, whichever block is        *)
(* counted first.                                                            *)
Sizes(S) == MapThenSumSet(LAMBDA b : b.size, S)
Pick(s) == CHOOSE x \in s : TRUE
SumEq(f, S) == f = [s \in SUBSET S |-> IF s = {} THEN 0 ELSE Pick(s).size + f[s \ {Pick(s)}]]
LEMMA SizesExpanded ==
  ASSUME NEW S
  PROVE  Sizes(S) = (CHOOSE f : SumEq(f, S))[S]
BY SMT DEF Sizes, MapThenSumSet, MapThenFoldSet, SumEq, Pick
LEMMA OneLess ==
  ASSUME NEW S, IsFiniteSet(S), NEW s \in SUBSET S
  PROVE  /\ IsFiniteSet(s) /\ Cardinality(s) \in Nat /\ (s = {} <=> Cardinality(s) = 0)
         /\ \A x \in s : Cardinality(s \ {x}) = Cardinality(s) - 1
         /\ s # {} => Pick(s) \in s
<1>1. IsFiniteSet(s) BY FS_Subset
<1>2. Cardinality(s) \in Nat BY <1>1, FS_CardinalityType
<1>3. s = {} <=> Cardinality(s) = 0 BY <1>1, FS_EmptySet
<1>4. ASSUME NEW x \in s PROVE Cardinality(s \ {x}) = Cardinality(s) - 1
  BY <1>1, FS_RemoveElement
<1>5. s # {} => Pick(s) \in s BY DEF Pick
<1> QED BY <1>1, <1>2, <1>3, <1>4, <1>5
LEMMA SumExists ==
  ASSUME NEW S, IsFiniteSet(S)
  PROVE  \E f : SumEq(f, S)
<1> DEFINE UpTo(f, n) == \A s \in SUBSET S : Cardinality(s) <= n =>
             f[s] = IF s = {} THEN 0 ELSE Pick(s).size + f[s \ {Pick(s)}]
           D == {n \in Nat : \E f : UpTo(f, n)}
<1>0. \A s \in SUBSET S : /\ IsFiniteSet(s) /\ Cardinality(s) \in Nat /\ (s = {} <=> Cardinality(s) = 0)
                          /\ s # {} => Pick(s) \in s /\ Cardinality(s \ {Pick(s)}) = Cardinality(s) - 1
  BY OneLess
<1>1. 0 \in D
  <2> DEFINE z == [s \in SUBSET S |-> 0]
  <2>1. ASSUME NEW s \in SUBSET S, Cardinality(s) <= 0
        PROVE  z[s] = IF s = {} THEN 0 ELSE Pick(s).size + z[s \ {Pick(s)}]
    <3>0. Cardinality(s) \in Nat /\ (s = {} <=> Cardinality(s) = 0) BY OneLess
    <3>1. s = {} BY <2>1, <3>0
    <3> QED BY <3>1
  <2> HIDE DEF z
  <2>2. UpTo(z, 0) BY <2>1
  <2> QED BY <2>2
<1>2. ASSUME NEW n \in Nat, n \in D PROVE n + 1 \in D
  <2>1. PICK f : UpTo(f, n) BY <1>2
  <2> DEFINE g == [s \in SUBSET S |-> IF Cardinality(s) <= n THEN f[s] ELSE Pick(s).size + f[s \ {Pick(s)}]]
  <2>2. ASSUME NEW s \in SUBSET S, Cardinality(s) <= n + 1
        PROVE  g[s] = IF s = {} THEN 0 ELSE Pick(s).size + g[s \ {Pick(s)}]
    <3>1. s \ {Pick(s)} \in SUBSET S OBVIOUS
    <3>2. s # {} => g[s \ {Pick(s)}] = f[s \ {Pick(s)}] BY <1>0, <2>2, <3>1
    <3>3. CASE Cardinality(s) <= n
      <4>1. g[s] = f[s] BY <3>3
      <4> HIDE DEF g
      <4> QED BY <2>1, <3>2, <3>3, <4>1
    <3>4. CASE ~(Cardinality(s) <= n)
      <4>1. g[s] = Pick(s).size + f[s \ {Pick(s)}] BY <3>4
      <4>0. Cardinality(s) \in Nat /\ (s = {} <=> Cardinality(s) = 0) BY OneLess
      <4>2. s # {} BY <3>4, <4>0
      <4> HIDE DEF g
      <4> QED BY <3>2, <4>1, <4>2
    <3> QED BY <3>3, <3>4
  <2> HIDE DEF g
  <2>3. UpTo(g, n + 1) BY <2>2, Zenon
  <2>4. \E h : UpTo(h, n + 1) BY <2>3, Zenon
  <2> HIDE DEF UpTo
  <2> QED BY <2>4
<1> HIDE DEF D
<1>3. Nat \subseteq D BY <1>1, <1>2, EachWakes!SetInduction, Zenon
<1>4. Cardinality(S) \in Nat BY FS_CardinalityType
<1>5. PICK f : UpTo(f, Cardinality(S)) BY <1>3, <1>4 DEF D
<1> DEFINE g == [s \in SUBSET S |-> f[s]]
<1>6. \A s \in SUBSET S : Cardinality(s) <= Cardinality(S) BY FS_Subset
<1>7. \A s \in SUBSET S : f[s] = IF s = {} THEN 0 ELSE Pick(s).size + f[s \ {Pick(s)}] BY <1>5, <1>6
<1>8. g = [s \in SUBSET S |-> IF s = {} THEN 0 ELSE Pick(s).size + g[s \ {Pick(s)}]]
  <2>1. \A s \in SUBSET S : s \ {Pick(s)} \in SUBSET S OBVIOUS
  <2>2. \A s \in SUBSET S : g[s] = IF s = {} THEN 0 ELSE Pick(s).size + g[s \ {Pick(s)}]
    BY <1>7, <2>1
  <2>3. g = [s \in SUBSET S |-> g[s]] OBVIOUS
  <2> HIDE DEF g
  <2> QED BY <2>2, <2>3
<1> HIDE DEF g
<1> QED BY <1>8 DEF SumEq
LEMMA SumUnique ==
  ASSUME NEW S, NEW f, SumEq(f, S), NEW R \in SUBSET S, NEW g, SumEq(g, R), IsFiniteSet(S)
  PROVE  \A s \in SUBSET R : f[s] = g[s]
<1> DEFINE D == {n \in Nat : \A s \in SUBSET R : Cardinality(s) <= n => f[s] = g[s]}
<1>0. \A s \in SUBSET R : /\ IsFiniteSet(s) /\ Cardinality(s) \in Nat /\ (s = {} <=> Cardinality(s) = 0)
                          /\ s # {} => Pick(s) \in s /\ Cardinality(s \ {Pick(s)}) = Cardinality(s) - 1
  <2>1. IsFiniteSet(R) BY FS_Subset
  <2> QED BY <2>1, OneLess
<1>1. ASSUME NEW s \in SUBSET R
      PROVE  /\ f[s] = IF s = {} THEN 0 ELSE Pick(s).size + f[s \ {Pick(s)}]
             /\ g[s] = IF s = {} THEN 0 ELSE Pick(s).size + g[s \ {Pick(s)}]
             /\ s \ {Pick(s)} \in SUBSET R
  BY DEF SumEq
<1>2. 0 \in D
  <2>1. ASSUME NEW s \in SUBSET R, Cardinality(s) <= 0 PROVE f[s] = g[s]
    <3>0. Cardinality(s) \in Nat /\ (s = {} <=> Cardinality(s) = 0) BY <1>0
    <3>1. s = {} BY <2>1, <3>0
    <3> QED BY <1>1, <3>1
  <2> QED BY <2>1
<1>3. ASSUME NEW n \in Nat, n \in D PROVE n + 1 \in D
  <2>1. ASSUME NEW s \in SUBSET R, Cardinality(s) <= n + 1 PROVE f[s] = g[s]
    <3>1. CASE s = {} BY <1>1, <3>1
    <3>2. CASE s # {}
      <4>1. Cardinality(s \ {Pick(s)}) <= n /\ s \ {Pick(s)} \in SUBSET R BY <1>0, <2>1, <3>2
      <4>2. f[s \ {Pick(s)}] = g[s \ {Pick(s)}] BY <1>3, <4>1
      <4> QED BY <1>1, <3>2, <4>2
    <3> QED BY <3>1, <3>2
  <2> QED BY <2>1
<1> HIDE DEF D
<1>4. Nat \subseteq D BY <1>2, <1>3, EachWakes!SetInduction, Zenon
<1>5. ASSUME NEW s \in SUBSET R PROVE f[s] = g[s]
  <2>1. Cardinality(s) \in Nat BY <1>0
  <2> QED BY <1>4, <2>1 DEF D
<1> QED BY <1>5

LEMMA SizesAdd ==
  ASSUME NEW S, IsFiniteSet(S), S \subseteq HeapBlock
  PROVE  /\ Sizes(S) \in Int /\ Sizes({}) = 0
         /\ \A x \in S : Sizes(S) = x.size + Sizes(S \ {x})
<1> DEFINE h(R) == CHOOSE f : SumEq(f, R)
           f == h(S)
           Adds(s) == f[s] \in Int /\ \A x \in s : f[s] = x.size + f[s \ {x}]
           D == {n \in Nat : \A s \in SUBSET S : Cardinality(s) <= n => Adds(s)}
<1>1. \A R \in SUBSET S : SumEq(h(R), R) /\ Sizes(R) = h(R)[R]
  <2> TAKE R \in SUBSET S
  <2>1. IsFiniteSet(R) BY FS_Subset
  <2>2. \E e : SumEq(e, R) BY <2>1, SumExists
  <2> QED BY <2>2, SizesExpanded, Zenon
<1>2. SumEq(f, S) BY <1>1
<1> HIDE DEF h, f
<1>3. \A s \in SUBSET S : f[s] = IF s = {} THEN 0 ELSE Pick(s).size + f[s \ {Pick(s)}]
  BY <1>2 DEF SumEq
<1>4. 0 \in D
  <2>1. ASSUME NEW s \in SUBSET S, Cardinality(s) <= 0 PROVE Adds(s)
    <3>1. Cardinality(s) \in Nat /\ (s = {} <=> Cardinality(s) = 0) BY OneLess
    <3>2. s = {} BY <2>1, <3>1
    <3>3. f[{}] = 0 BY <1>3, <3>2
    <3> QED BY <3>2, <3>3
  <2> QED BY <2>1
<1>5. ASSUME NEW n \in Nat, n \in D PROVE n + 1 \in D
  <2>1. ASSUME NEW s \in SUBSET S, Cardinality(s) <= n + 1 PROVE Adds(s)
    <3>1. Cardinality(s) \in Nat /\ \A x \in s : Cardinality(s \ {x}) = Cardinality(s) - 1 BY OneLess
    <3>2. \A x \in s : Adds(s \ {x})
      <4> TAKE x \in s
      <4>1. Cardinality(s \ {x}) <= n /\ s \ {x} \in SUBSET S BY <2>1, <3>1
      <4> HIDE DEF Adds
      <4> QED BY <1>5, <4>1
    <3>3. CASE s = {}
      <4>1. f[{}] = 0 BY <1>3, <3>3
      <4> QED BY <3>3, <4>1
    <3>4. CASE s # {}
      <4> DEFINE c == Pick(s)
      <4>1. c \in s BY <3>4, OneLess
      <4>2. f[s] = c.size + f[s \ {c}] BY <1>3, <3>4
      <4> HIDE DEF c
      <4>3. c.size \in Int BY <4>1 DEF HeapBlock
      <4>4. f[s \ {c}] \in Int BY <3>2, <4>1
      <4>5. ASSUME NEW x \in s PROVE f[s] = x.size + f[s \ {x}]
        <5>1. CASE x = c BY <4>2, <5>1
        <5>2. CASE x # c
          <6> DEFINE r == (s \ {c}) \ {x}
          <6>1. f[s \ {c}] = x.size + f[r] BY <3>2, <4>1, <5>2
          <6>2. r = (s \ {x}) \ {c} OBVIOUS
          <6>3. f[s \ {x}] = c.size + f[r] BY <3>2, <4>1, <5>2, <6>2
          <6>4. f[r] \in Int
            <7>1. c \in s \ {x} BY <4>1, <5>2
            <7>2. Cardinality(s \ {x}) <= n /\ s \ {x} \in SUBSET S BY <2>1, <3>1
            <7>3. Cardinality(r) = Cardinality(s \ {x}) - 1 BY <6>2, <7>1, <7>2, OneLess
            <7>4. Cardinality(r) <= n /\ r \in SUBSET S BY <3>1, <7>2, <7>3
            <7> HIDE DEF Adds, r
            <7>5. Adds(r) BY <1>5, <7>4
            <7> QED BY <7>5 DEF Adds
          <6>5. x.size \in Int BY DEF HeapBlock
          <6> HIDE DEF r
          <6> QED BY <4>2, <4>3, <6>1, <6>3, <6>4, <6>5
        <5> QED BY <5>1, <5>2
      <4>6. f[s] \in Int BY <4>2, <4>3, <4>4
      <4> QED BY <4>5, <4>6, Zenon
    <3> QED BY <3>3, <3>4
  <2> HIDE DEF Adds
  <2> QED BY <2>1
<1> HIDE DEF D
<1>6. Nat \subseteq D BY <1>4, <1>5, EachWakes!SetInduction, Zenon
<1>7. Adds(S)
  <2>1. Cardinality(S) \in Nat /\ S \in SUBSET S BY OneLess
  <2> HIDE DEF Adds
  <2>2. Cardinality(S) \in D BY <1>6, <2>1
  <2> QED BY <2>1, <2>2 DEF D
<1>8. \A x \in S : f[S \ {x}] = Sizes(S \ {x})
  <2> TAKE x \in S
  <2> DEFINE R == S \ {x}
  <2>1. R \in SUBSET S OBVIOUS
  <2> HIDE DEF R
  <2>2. f[R] = h(R)[R] BY <1>1, <1>2, <2>1, SumUnique
  <2> QED BY <1>1, <2>1, <2>2 DEF R
<1>9. Sizes({}) = 0
  <2>1. {} \in SUBSET S OBVIOUS
  <2>2. h({})[{}] = 0 BY <1>1, <2>1 DEF SumEq
  <2> QED BY <1>1, <2>1, <2>2
<1>10. Sizes(S) = f[S] BY <1>1 DEF f
<1> QED BY <1>7, <1>8, <1>9, <1>10

-----------------------------------------------------------------------------
(* Whose memory it is.  A parcel is what somebody has of the heap, together   *)
(* with what came from elsewhere: no block is in it twice.                   *)
Blocks(s) == {s[i] : i \in DOMAIN s} \ {Outside}
Parcel(s) ==
  /\ s \in Seq(HeapBlock \cup {Outside})
  /\ \A i, j \in DOMAIN s : i # j /\ s[i] = s[j] => s[i] = Outside
(* What each owner has, h, when so many blocks are in use: no block is with   *)
(* two of them.                                                              *)
Dealt(h, used) ==
  /\ \A x \in Owners : Parcel(h[x]) /\ Blocks(h[x]) \subseteq used
  /\ \A x, y \in Owners : x # y => Blocks(h[x]) \cap Blocks(h[y]) = {}
AllDealt(h, used) == \A b \in used : \E x \in Owners : b \in Blocks(h[x])

Making == {"make", "unmake"}
OfCall(f) == IF f.op \in Making THEN f.have ELSE <<>>
OfObject(o) == IF o.kind = "none" THEN <<>> ELSE o.own
Held == [x \in Owners |-> IF x \in Task THEN OfCall(frame[x]) ELSE OfObject(obj[x])]
(* A call that makes an object.                                              *)
Wants(f, t, o, p) ==
  /\ f.want \in Seq(Some \cup {Outside, Nothing}) /\ f.kind # "none"
  /\ f.kind = "timer" /\ f.next = "obtain" => f.have # <<>> \/ f.want # <<>>
  /\ o[f.on].kind = "none" /\ \E c \in p.calls[t] : c.op = "make" /\ c.on = f.on
Frugal == \A t \in Task : \A c \in program.calls[t] : c.op # "malloc"
OwnersSound ==
  /\ \A t \in Task : frame[t].op = "make" => Wants(frame[t], t, obj, program)
  /\ \A x \in Things : obj[x].kind # "none" =>
       DOMAIN obj[x] = {"kind", "own"} /\ (obj[x].kind = "timer" => obj[x].own # <<>>)
Accounted(h) ==
  /\ Intact(h) /\ IsFiniteSet(h.free) /\ h.remaining = Sizes(h.free) /\ h.least <= h.remaining
MemoryInv ==
  /\ Accounted(heap) /\ Dealt(Held, heap.used) /\ (Frugal => AllDealt(Held, heap.used)) /\ OwnersSound

LEMMA OutsideApart == Outside \notin HeapBlock
BY ServicesAssumption DEF HeapBlock
LEMMA EmptyParcel == Parcel(<<>>) /\ Blocks(<<>>) = {}
BY DEF Parcel, Blocks
LEMMA ParcelKnown ==
  ASSUME NEW s, Parcel(s)
  PROVE  /\ s \in Seq(HeapBlock \cup {Outside}) /\ Blocks(s) \subseteq HeapBlock
         /\ \A i \in 1 .. Len(s) : s[i] \in HeapBlock \cup {Outside} /\ (s[i] # Outside => s[i] \in Blocks(s))
BY DEF Parcel, Blocks
LEMMA ParcelAppended ==
  ASSUME NEW s, Parcel(s), NEW b \in (HeapBlock \ Blocks(s)) \cup {Outside}
  PROVE  Parcel(Append(s, b)) /\ Blocks(Append(s, b)) = Blocks(s) \cup ({b} \ {Outside})
<1> DEFINE s1 == Append(s, b)
           n == Len(s)
<1>1. s \in Seq(HeapBlock \cup {Outside}) /\ n \in Nat /\ DOMAIN s = 1 .. n BY DEF Parcel
<1>2. s1 \in Seq(HeapBlock \cup {Outside}) /\ DOMAIN s1 = 1 .. n + 1 /\ s1[n + 1] = b
      /\ \A i \in 1 .. n : s1[i] = s[i]
  BY <1>1
<1> HIDE DEF s1, n
<1>3. Blocks(s1) = Blocks(s) \cup ({b} \ {Outside})
  <2>1. \A i \in 1 .. n + 1 : i \in 1 .. n \/ i = n + 1 BY <1>1
  <2>2. \A i \in 1 .. n : i \in 1 .. n + 1 BY <1>1
  <2>3. n + 1 \in 1 .. n + 1 BY <1>1
  <2> QED BY <1>1, <1>2, <2>1, <2>2, <2>3 DEF Blocks
<1>4. ASSUME NEW i \in 1 .. n + 1, NEW j \in 1 .. n + 1, i # j, s1[i] = s1[j] PROVE s1[i] = Outside
  <2>1. CASE i \in 1 .. n /\ j \in 1 .. n BY <1>1, <1>2, <1>4, <2>1 DEF Parcel
  <2>2. CASE i = n + 1
    <3>1. j \in 1 .. n BY <1>1, <1>4, <2>2
    <3> QED BY <1>1, <1>2, <1>4, <2>2, <3>1 DEF Blocks
  <2>3. CASE j = n + 1
    <3>1. i \in 1 .. n BY <1>1, <1>4, <2>3
    <3> QED BY <1>1, <1>2, <1>4, <2>3, <3>1 DEF Blocks
  <2> QED BY <1>1, <2>1, <2>2, <2>3
<1> QED BY <1>2, <1>3, <1>4 DEF Parcel, s1
LEMMA ParcelOpened ==
  ASSUME NEW s, Parcel(s), s # <<>>
  PROVE  /\ Parcel(Tail(s)) /\ Parcel(<<Head(s)>>) /\ Head(s) \in HeapBlock \cup {Outside}
         /\ Blocks(<<Head(s)>>) = {Head(s)} \ {Outside} /\ Head(s) \notin Blocks(Tail(s))
         /\ Blocks(s) = Blocks(Tail(s)) \cup ({Head(s)} \ {Outside})
<1> DEFINE s1 == Tail(s)
           n == Len(s)
           b == Head(s)
<1>1. s \in Seq(HeapBlock \cup {Outside}) /\ n \in Nat \ {0} /\ DOMAIN s = 1 .. n BY DEF Parcel
<1>2. /\ s1 \in Seq(HeapBlock \cup {Outside}) /\ DOMAIN s1 = 1 .. n - 1 /\ s[1] = b
      /\ \A i \in 1 .. n - 1 : s1[i] = s[i + 1]
  BY <1>1
<1>3. \A i \in 1 .. n - 1 : i + 1 \in 1 .. n /\ i + 1 # 1 BY <1>1
<1>4. \A i \in 1 .. n : i = 1 \/ (i - 1 \in 1 .. n - 1 /\ (i - 1) + 1 = i) BY <1>1
<1>5. 1 \in 1 .. n /\ b \in HeapBlock \cup {Outside} BY <1>1
<1> HIDE DEF s1, n, b
<1>6. \A i, j \in 1 .. n : i # j /\ s[i] = s[j] => s[i] = Outside BY <1>1 DEF Parcel
<1>7. Parcel(s1)
  <2>1. ASSUME NEW i \in 1 .. n - 1, NEW j \in 1 .. n - 1, i # j, s1[i] = s1[j] PROVE s1[i] = Outside
    <3>1. i + 1 # j + 1 BY <2>1, <1>1
    <3> QED BY <1>2, <1>3, <1>6, <2>1, <3>1
  <2> QED BY <1>2, <2>1 DEF Parcel
<1>8. b \notin Blocks(s1)
  <2>1. ASSUME NEW i \in 1 .. n - 1, s1[i] = b PROVE b = Outside BY <1>2, <1>3, <1>5, <1>6, <2>1
  <2> QED BY <1>2, <2>1 DEF Blocks
<1>9. Blocks(s) = Blocks(s1) \cup ({b} \ {Outside})
  <2>1. ASSUME NEW i \in 1 .. n PROVE s[i] = b \/ \E j \in 1 .. n - 1 : s[i] = s1[j] BY <1>2, <1>4
  <2>2. ASSUME NEW j \in 1 .. n - 1 PROVE \E i \in 1 .. n : s1[j] = s[i] BY <1>2, <1>3
  <2>3. Blocks(s) = {s[i] : i \in 1 .. n} \ {Outside} /\ Blocks(s1) = {s1[i] : i \in 1 .. n - 1} \ {Outside}
    BY <1>1, <1>2 DEF Blocks
  <2> QED BY <1>2, <1>5, <2>1, <2>2, <2>3
<1>10. Parcel(<<b>>) /\ Blocks(<<b>>) = {b} \ {Outside} BY <1>5 DEF Parcel, Blocks
<1> QED BY <1>5, <1>7, <1>8, <1>9, <1>10 DEF s1, b

(* FromHeap takes what came from elsewhere out of a parcel.                  *)
Keep(s, b) == IF b = Outside THEN s ELSE Append(s, b)
Keeping == INSTANCE Folding WITH Step <- Keep
LEMMA ParcelFromHeap ==
  ASSUME NEW s, Parcel(s)
  PROVE  /\ Parcel(FromHeap(s)) /\ Blocks(FromHeap(s)) = Blocks(s) /\ ToSet(FromHeap(s)) = Blocks(s)
         /\ FromHeap(s) \in Seq(HeapBlock)
<1> DEFINE n == Len(s)
           r == FromHeap(s)
           UpTo(i) == {s[j] : j \in 1 .. i} \ {Outside}
<1>1. s \in Seq(HeapBlock \cup {Outside}) /\ n \in Nat /\ DOMAIN s = 1 .. n BY DEF Parcel
<1>2. r = Keeping!Fold(<<>>, s)
  BY SMT DEF FromHeap, Keep, FoldLeft, MapThenFoldSet, Max, Keeping!Fold, Keeping!Greatest
<1> HIDE DEF n, r
<1>3. Keeping!Unrolled(<<>>, n, s, Keeping!Fold(<<>>, s)) BY <1>1, Keeping!FoldTrace, Zenon
<1>4. PICK g : g[0] = <<>> /\ (\A i \in 1 .. n : g[i] = Keep(g[i - 1], s[i])) /\ r = g[n]
  BY <1>2, <1>3, Zenon DEF Keeping!Unrolled
<1> DEFINE Clean(i) == Parcel(g[i]) /\ Blocks(g[i]) = UpTo(i) /\ g[i] \in Seq(HeapBlock)
           D == {i \in Nat : i <= n => Clean(i)}
<1>5. 0 \in D
  <2>1. UpTo(0) = {} /\ <<>> \in Seq(HeapBlock) OBVIOUS
  <2> HIDE DEF UpTo
  <2>2. Clean(0) BY <1>4, <2>1, EmptyParcel
  <2> HIDE DEF Clean
  <2> QED BY <2>2
<1>6. ASSUME NEW i \in Nat, i \in D PROVE i + 1 \in D
  <2>1. SUFFICES ASSUME i + 1 <= n PROVE Clean(i + 1) OBVIOUS
  <2>2. Clean(i) BY <1>1, <1>6, <2>1
  <2>3. i + 1 \in 1 .. n /\ (i + 1) - 1 = i BY <1>1, <2>1
  <2>4. g[i + 1] = Keep(g[i], s[i + 1]) BY <1>4, <2>3
  <2>5. UpTo(i + 1) = UpTo(i) \cup ({s[i + 1]} \ {Outside})
    <3>1. \A j \in 1 .. i + 1 : j \in 1 .. i \/ j = i + 1 BY <2>3
    <3>2. \A j \in 1 .. i : j \in 1 .. i + 1 BY <2>3
    <3>3. i + 1 \in 1 .. i + 1 BY <2>3
    <3> QED BY <3>1, <3>2, <3>3
  <2>6. CASE s[i + 1] = Outside BY <2>2, <2>4, <2>5, <2>6 DEF Keep
  <2>7. CASE s[i + 1] # Outside
    <3>1. s[i + 1] \in HeapBlock BY <1>1, <2>3, <2>7
    <3>2. s[i + 1] \notin UpTo(i)
      <4>1. ASSUME NEW j \in 1 .. i, s[j] = s[i + 1] PROVE FALSE
        <5>1. j \in 1 .. n /\ j # i + 1 BY <1>1, <2>3
        <5> QED BY <1>1, <2>3, <2>7, <4>1, <5>1 DEF Parcel
      <4> QED BY <4>1
    <3>3. s[i + 1] \in (HeapBlock \ Blocks(g[i])) \cup {Outside} BY <2>2, <3>1, <3>2
    <3>4. g[i + 1] = Append(g[i], s[i + 1]) BY <2>4, <2>7 DEF Keep
    <3>5. Parcel(g[i + 1]) /\ Blocks(g[i + 1]) = Blocks(g[i]) \cup ({s[i + 1]} \ {Outside})
      BY <2>2, <3>3, <3>4, ParcelAppended
    <3>6. g[i + 1] \in Seq(HeapBlock) BY <2>2, <3>1, <3>4
    <3> HIDE DEF UpTo
    <3> QED BY <2>2, <2>5, <3>5, <3>6
  <2> QED BY <2>6, <2>7
<1> HIDE DEF D
<1>7. Nat \subseteq D BY <1>5, <1>6, Keeping!SetInduction, Zenon
<1>8. Clean(n)
  <2>1. n \in D /\ n <= n BY <1>1, <1>7
  <2> HIDE DEF Clean
  <2> QED BY <2>1 DEF D
<1>9. UpTo(n) = Blocks(s) BY <1>1 DEF Blocks
<1>10. ToSet(r) = Blocks(s)
  <2>1. \A i \in DOMAIN r : r[i] # Outside BY <1>4, <1>8, OutsideApart
  <2> QED BY <1>4, <1>8, <1>9, <2>1 DEF ToSet, Blocks
<1> QED BY <1>4, <1>8, <1>9, <1>10 DEF r

-----------------------------------------------------------------------------
(* The bytes that are free.                                                  *)
LEMMA SizesWith ==
  ASSUME NEW S, IsFiniteSet(S), S \subseteq HeapBlock, NEW b \in HeapBlock \ S
  PROVE  Sizes(S \cup {b}) = b.size + Sizes(S) /\ IsFiniteSet(S \cup {b}) /\ Sizes(S) \in Int
<1> DEFINE other == S \cup {b}
<1>1. IsFiniteSet(other) /\ other \subseteq HeapBlock /\ b \in other BY FS_AddElement
<1>2. other \ {b} = S OBVIOUS
<1> HIDE DEF other
<1>3. Sizes(other) = b.size + Sizes(other \ {b}) BY <1>1, SizesAdd
<1> QED BY <1>1, <1>2, <1>3, SizesAdd DEF other
LEMMA SizesWithout ==
  ASSUME NEW S, IsFiniteSet(S), S \subseteq HeapBlock, NEW b \in S
  PROVE  /\ Sizes(S) = b.size + Sizes(S \ {b}) /\ Sizes(S \ {b}) \in Int /\ b.size \in Int
         /\ IsFiniteSet(S \ {b}) /\ S \ {b} \subseteq HeapBlock
<1> DEFINE other == S \ {b}
<1>1. IsFiniteSet(other) /\ other \subseteq HeapBlock BY FS_Subset
<1>2. Sizes(S) = b.size + Sizes(other) BY SizesAdd
<1> HIDE DEF other
<1>3. Sizes(other) \in Int BY <1>1, SizesAdd
<1> QED BY <1>1, <1>2, <1>3 DEF other, HeapBlock
LEMMA InsertSizes ==
  ASSUME NEW free, NEW used, NEW b, Loose(free, b, used), IsFiniteSet(free)
  PROVE  Sizes(InsertBlock(free, b)) = Sizes(free) + b.size /\ IsFiniteSet(InsertBlock(free, b))
<1>1. PICK new : /\ Joins(free, b, new)
                 /\ InsertBlock(free, b) = (free \ (Before(free, b) \cup Behind(free, b))) \cup {new}
  BY InsertJoins
<1> DEFINE rest == free \ (Before(free, b) \cup Behind(free, b))
           mid == free \ Before(free, b)
<1>2. /\ free \subseteq HeapBlock /\ b \in HeapBlock /\ b.size > 0 /\ new \in HeapBlock
      /\ \A c \in free : c.size > 0 /\ c \in HeapBlock /\ Apart(b, c)
  BY <1>1 DEF Loose, Tiles, WithinHeap, Disjoint, Joins
<1>3. /\ \A c \in Before(free, b) : c \in free /\ After(c) = b.at
      /\ \A c \in Behind(free, b) : c \in free /\ c.at = After(b)
  BY DEF Before, Behind
<1>4. new.at <= b.at /\ After(b) <= After(new)
  BY <1>1, <1>2, <1>3 DEF Joins, After, HeapBlock
<1>5. new \notin rest
  BY <1>2, <1>4 DEF Apart, After, HeapBlock
<1>6. Before(free, b) \cap Behind(free, b) = {}
  BY <1>2, <1>3 DEF After, HeapBlock
<1>7. /\ Sizes(free) \in Int /\ Sizes(mid) \in Int /\ IsFiniteSet(mid) /\ mid \subseteq HeapBlock
      /\ Sizes(free) = Sizes(mid) + (b.at - new.at) /\ new.at \in Int /\ b.at \in Int
  <2>1. CASE Before(free, b) = {} /\ new.at = b.at
    <3>1. mid = free BY <2>1
    <3> HIDE DEF mid
    <3> QED BY <1>2, <2>1, <3>1, SizesAdd DEF HeapBlock
  <2>2. CASE \E p \in free : Before(free, b) = {p} /\ new.at = p.at
    <3>1. PICK p \in free : Before(free, b) = {p} /\ new.at = p.at BY <2>2
    <3>2. mid = free \ {p} /\ After(p) = b.at BY <1>3, <3>1
    <3>3. p.size = b.at - new.at /\ new.at \in Int /\ b.at \in Int BY <1>2, <3>1, <3>2 DEF After, HeapBlock
    <3> HIDE DEF mid
    <3>4. Sizes(free) = p.size + Sizes(mid) /\ Sizes(mid) \in Int /\ IsFiniteSet(mid) /\ mid \subseteq HeapBlock
      BY <1>2, <3>2, SizesWithout
    <3> QED BY <3>3, <3>4
  <2> QED BY <1>1, <2>1, <2>2 DEF Joins
<1>8. /\ Sizes(rest) \in Int /\ IsFiniteSet(rest) /\ rest \subseteq HeapBlock
      /\ Sizes(mid) = Sizes(rest) + (After(new) - After(b)) /\ After(new) \in Int /\ After(b) \in Int
  <2>0. After(new) \in Int /\ After(b) \in Int BY <1>2 DEF After, HeapBlock
  <2>1. CASE Behind(free, b) = {} /\ After(new) = After(b)
    <3>1. rest = mid BY <2>1
    <3> HIDE DEF mid, rest
    <3> QED BY <1>7, <2>0, <2>1, <3>1
  <2>2. CASE \E q \in free : Behind(free, b) = {q} /\ After(new) = After(q)
    <3>1. PICK q \in free : Behind(free, b) = {q} /\ After(new) = After(q) BY <2>2
    <3>2. rest = mid \ {q} /\ q.at = After(b) /\ q \in mid BY <1>3, <1>6, <3>1
    <3>3. q.size = After(new) - After(b) BY <1>2, <3>1, <3>2 DEF After, HeapBlock
    <3> HIDE DEF mid, rest
    <3>4. Sizes(mid) = q.size + Sizes(rest) /\ Sizes(rest) \in Int /\ IsFiniteSet(rest) /\ rest \subseteq HeapBlock
      BY <1>7, <3>2, SizesWithout
    <3> QED BY <2>0, <3>3, <3>4
  <2> QED BY <1>1, <2>1, <2>2 DEF Joins
<1> HIDE DEF mid, rest
<1>9. Sizes(rest \cup {new}) = new.size + Sizes(rest) /\ IsFiniteSet(rest \cup {new})
  BY <1>2, <1>5, <1>8, SizesWith
<1>10. new.size = b.size + (b.at - new.at) + (After(new) - After(b)) /\ new.size \in Int /\ b.size \in Int
  BY <1>2 DEF After, HeapBlock
<1>11. Sizes(rest \cup {new}) = Sizes(free) + b.size BY <1>7, <1>8, <1>9, <1>10
<1> QED BY <1>1, <1>9, <1>11 DEF rest

LEMMA FreedAccounts ==
  ASSUME NEW h, Accounted(h), NEW b \in h.used
  PROVE  Accounted(Freed(h, b)) /\ Freed(h, b).used = h.used \ {b}
<1> DEFINE i == Freed(h, b)
<1>1. /\ Intact(i) /\ Loose(h.free, b, h.used \ {b}) /\ b \in HeapBlock /\ b.size > 0
      /\ i.free = InsertBlock(h.free, b) /\ i.used = h.used \ {b}
      /\ i.remaining = h.remaining + b.size /\ i.least = h.least
  BY FreedIntact DEF Accounted
<1>2. Sizes(i.free) = Sizes(h.free) + b.size /\ IsFiniteSet(i.free) BY <1>1, InsertSizes DEF Accounted
<1>3. h.remaining \in Int /\ h.least \in Int /\ b.size \in Int BY <1>1 DEF Accounted, Intact, HeapBlock
<1> HIDE DEF i
<1> QED BY <1>1, <1>2, <1>3 DEF Accounted, i
LEMMA MallocAccounts ==
  ASSUME Accounted(heap), NEW n \in Nat, NEW b \in heap.free, Malloc(n, b)
  PROVE  /\ Accounted(heap)' /\ heap'.used = heap.used \cup {Taken(n, b)}
         /\ Taken(n, b) \in HeapBlock \ heap.used
<1> DEFINE taken == Taken(n, b)
           others == heap.free \ {b}
           rest == Remainder(n, b)
           left == heap.remaining - taken.size
<1>1. /\ HeapInv' /\ b \in HeapBlock /\ b.size > 0 /\ heap'.used = heap.used \cup {taken}
      /\ taken \in HeapBlock \ heap.used /\ taken.size > 0
      /\ Split(n, b) => Loose(others, rest, heap.used \cup {taken}) /\ rest.size = b.size - taken.size
  BY MallocPreserves DEF Accounted, HeapInv
<1>2. heap.free \subseteq HeapBlock /\ heap.remaining \in Int /\ heap.least \in Int BY DEF Accounted, Intact
<1>3. /\ heap'.free = IF Split(n, b) THEN InsertBlock(others, rest) ELSE others
      /\ heap'.remaining = left /\ heap'.least = IF left < heap.least THEN left ELSE heap.least
  BY DEF Malloc
<1>4. ~Split(n, b) => taken = b BY DEF Taken
<1>5. taken.size \in Int /\ b.size \in Int BY <1>1 DEF HeapBlock
<1> HIDE DEF taken, rest
<1>6. Sizes(heap.free) = b.size + Sizes(others) /\ IsFiniteSet(others) /\ Sizes(others) \in Int
  BY <1>2, SizesWithout DEF Accounted
<1> HIDE DEF others
<1>7. Sizes(heap'.free) = Sizes(heap.free) - taken.size /\ IsFiniteSet(heap'.free)
  <2>1. CASE Split(n, b)
    <3>1. Sizes(InsertBlock(others, rest)) = Sizes(others) + rest.size /\ IsFiniteSet(InsertBlock(others, rest))
      BY <1>1, <1>6, <2>1, InsertSizes
    <3>2. heap'.free = InsertBlock(others, rest) BY <1>3, <2>1
    <3>3. rest.size = b.size - taken.size BY <1>1, <2>1
    <3> QED BY <1>5, <1>6, <3>1, <3>2, <3>3
  <2>2. CASE ~Split(n, b)
    <3>1. heap'.free = others /\ taken = b BY <1>3, <1>4, <2>2
    <3> QED BY <1>5, <1>6, <3>1
  <2> QED BY <2>1, <2>2
<1>8. heap'.remaining = Sizes(heap'.free) /\ heap'.least <= heap'.remaining
  BY <1>2, <1>3, <1>5, <1>7 DEF Accounted
<1> QED BY <1>1, <1>7, <1>8 DEF Accounted, HeapInv, taken

(* All the blocks of a parcel are freed, one after the other.                *)
Freeing == INSTANCE Folding WITH Step <- Freed
LEMMA AllFreed ==
  ASSUME NEW s, Parcel(s), s \in Seq(HeapBlock), Accounted(heap), Blocks(s) \subseteq heap.used
  PROVE  LET h == FoldLeft(Freed, heap, s)
         IN Accounted(h) /\ h.used = heap.used \ Blocks(s)
<1> DEFINE n == Len(s)
           r == FoldLeft(Freed, heap, s)
           UpTo(i) == {s[j] : j \in 1 .. i}
<1>1. s \in Seq(HeapBlock) /\ n \in Nat /\ DOMAIN s = 1 .. n OBVIOUS
<1>2. r = Freeing!Fold(heap, s)
  BY SMT DEF FoldLeft, MapThenFoldSet, Max, Freeing!Fold, Freeing!Greatest
<1> HIDE DEF n, r
<1>3. Freeing!Unrolled(heap, n, s, Freeing!Fold(heap, s)) BY <1>1, Freeing!FoldTrace, Zenon
<1>4. PICK g : g[0] = heap /\ (\A i \in 1 .. n : g[i] = Freed(g[i - 1], s[i])) /\ r = g[n]
  BY <1>2, <1>3, Zenon DEF Freeing!Unrolled
<1> DEFINE Done(i) == Accounted(g[i]) /\ g[i].used = heap.used \ UpTo(i)
           D == {i \in Nat : i <= n => Done(i)}
<1>5. 0 \in D
  <2>1. UpTo(0) = {} OBVIOUS
  <2> HIDE DEF UpTo
  <2>2. Done(0) BY <1>4, <2>1
  <2> HIDE DEF Done
  <2> QED BY <2>2
<1>6. ASSUME NEW i \in Nat, i \in D PROVE i + 1 \in D
  <2>1. SUFFICES ASSUME i + 1 <= n PROVE Done(i + 1) OBVIOUS
  <2>2. Done(i) BY <1>1, <1>6, <2>1
  <2>3. i + 1 \in 1 .. n /\ (i + 1) - 1 = i BY <1>1, <2>1
  <2>4. g[i + 1] = Freed(g[i], s[i + 1]) BY <1>4, <2>3
  <2>5. UpTo(i + 1) = UpTo(i) \cup {s[i + 1]}
    <3>1. \A j \in 1 .. i + 1 : j \in 1 .. i \/ j = i + 1 BY <2>3
    <3>2. \A j \in 1 .. i : j \in 1 .. i + 1 BY <2>3
    <3>3. i + 1 \in 1 .. i + 1 BY <2>3
    <3> QED BY <3>1, <3>2, <3>3
  <2>6. s[i + 1] \in HeapBlock /\ s[i + 1] # Outside BY <1>1, <2>3, OutsideApart
  <2>7. s[i + 1] \notin UpTo(i)
    <3>1. ASSUME NEW j \in 1 .. i, s[j] = s[i + 1] PROVE FALSE
      <4>1. j \in 1 .. n /\ j # i + 1 BY <1>1, <2>3
      <4> QED BY <1>1, <2>3, <2>6, <3>1, <4>1 DEF Parcel
    <3> QED BY <3>1
  <2>8. s[i + 1] \in heap.used BY <1>1, <2>3, <2>6 DEF Blocks
  <2> HIDE DEF UpTo
  <2>9. s[i + 1] \in g[i].used BY <2>2, <2>7, <2>8
  <2>10. Accounted(g[i + 1]) /\ g[i + 1].used = g[i].used \ {s[i + 1]} BY <2>2, <2>4, <2>9, FreedAccounts
  <2> QED BY <2>2, <2>5, <2>10
<1> HIDE DEF D
<1>7. Nat \subseteq D BY <1>5, <1>6, Freeing!SetInduction, Zenon
<1>8. Done(n)
  <2>1. n \in D /\ n <= n BY <1>1, <1>7
  <2> HIDE DEF Done
  <2> QED BY <2>1 DEF D
<1>9. UpTo(n) = Blocks(s)
  <2>1. \A i \in 1 .. n : s[i] # Outside BY <1>1, OutsideApart
  <2> QED BY <1>1, <2>1 DEF Blocks
<1> QED BY <1>4, <1>8, <1>9 DEF r

(* What changes hands: x and y have what they had, with the new blocks and    *)
(* without those that are gone.                                              *)
LEMMA Redealt ==
  ASSUME NEW h, NEW used, Dealt(h, used), NEW x \in Owners, NEW y \in Owners, NEW h1,
         \A z \in Owners \ {x, y} : h1[z] = h[z],
         Parcel(h1[x]), Parcel(h1[y]), x # y => Blocks(h1[x]) \cap Blocks(h1[y]) = {},
         NEW new, new \cap used = {}, NEW gone,
         \A z \in Owners \ {x, y} : Blocks(h[z]) \cap gone = {},
         Blocks(h1[x]) \cup Blocks(h1[y]) \subseteq (Blocks(h[x]) \cup Blocks(h[y]) \cup new) \ gone
  PROVE  /\ Dealt(h1, (used \cup new) \ gone)
         /\ (Blocks(h[x]) \cup Blocks(h[y]) \cup new) \ gone \subseteq Blocks(h1[x]) \cup Blocks(h1[y])
              /\ AllDealt(h, used) => AllDealt(h1, (used \cup new) \ gone)
<1>1. ASSUME NEW z \in Owners PROVE Parcel(h1[z]) /\ Blocks(h1[z]) \subseteq (used \cup new) \ gone
  <2>1. CASE z \in {x, y} BY <2>1 DEF Dealt
  <2>2. CASE z \notin {x, y} BY <2>2 DEF Dealt
  <2> QED BY <2>1, <2>2
<1>2. ASSUME NEW z \in Owners, NEW w \in Owners, z # w PROVE Blocks(h1[z]) \cap Blocks(h1[w]) = {}
  <2>1. ASSUME NEW u \in Owners \ {x, y}, NEW v \in {x, y} PROVE Blocks(h1[u]) \cap Blocks(h1[v]) = {}
    <3>1. Blocks(h1[u]) = Blocks(h[u]) /\ u # x /\ u # y BY <2>1
    <3>2. Blocks(h[u]) \subseteq used /\ Blocks(h[u]) \cap Blocks(h[x]) = {} /\ Blocks(h[u]) \cap Blocks(h[y]) = {}
      BY <3>1 DEF Dealt
    <3> QED BY <2>1, <3>1, <3>2
  <2>2. CASE z \in {x, y} /\ w \in {x, y} BY <1>2, <2>2
  <2>3. CASE z \notin {x, y} /\ w \in {x, y} BY <2>1, <2>3
  <2>4. CASE z \in {x, y} /\ w \notin {x, y} BY <2>1, <2>4
  <2>5. CASE z \notin {x, y} /\ w \notin {x, y} BY <1>2, <2>5 DEF Dealt
  <2> QED BY <2>2, <2>3, <2>4, <2>5
<1>3. ASSUME (Blocks(h[x]) \cup Blocks(h[y]) \cup new) \ gone \subseteq Blocks(h1[x]) \cup Blocks(h1[y]),
             AllDealt(h, used), NEW b \in (used \cup new) \ gone
      PROVE  \E z \in Owners : b \in Blocks(h1[z])
  <2>1. CASE b \in new BY <1>3, <2>1
  <2>2. CASE b \in used
    <3>1. PICK z \in Owners : b \in Blocks(h[z]) BY <1>3, <2>2 DEF AllDealt
    <3>2. CASE z \in {x, y} BY <1>3, <3>1, <3>2
    <3>3. CASE z \notin {x, y} BY <3>1, <3>3
    <3> QED BY <3>2, <3>3
  <2> QED BY <2>1, <2>2
<1> QED BY <1>1, <1>2, <1>3 DEF Dealt, AllDealt

-----------------------------------------------------------------------------
(* The other services leave what is made here alone, and the frames of the    *)
(* calls that make and delete it.                                            *)
LEMMA QueuesApart == ASSUME ServicesInv, QueueSteps \/ PoolSteps PROVE Only(QueueObjects)
<1> DEFINE S == QueueObjects
<1>1. CASE TryToSend \/ TryToReceive \/ TryToPeek \/ TryToTake
  <2>1. PICK f \in Trying : pc[k.cur] \in {"user", "try"} /\ \E o1 : Put(f.on, o1)
    BY <1>1 DEF TryToSend, TryToReceive, TryToPeek, TryToTake, Try
  <2>2. f.on \in S BY <2>1, Tryers DEF Queueing, Asks
  <2> QED BY <2>1, <2>2, OnlyOne
<1>2. CASE TryInVain \/ TryAsserts \/ TryWaits \/ Suspend \/ Place \/ Final \/ DisinheritStep
  <2>1. UNCHANGED obj BY <1>2 DEF TryInVain, TryAsserts, TryWaits, Suspend, Place, Final, DisinheritStep
  <2> QED BY <2>1, OnlyOne
<1>3. CASE Lock \/ UnlockTx \/ UnlockRx
  <2>1. Here.on \in S BY <1>3, AtItsQueue, AtTheLocks DEF Lock, UnlockTx, UnlockRx
  <2>2. \E o1 : Put(Here.on, o1) BY <1>3 DEF Lock, UnlockTx, UnlockRx
  <2> QED BY <2>1, <2>2, OnlyOne
<1>4. CASE CountTake \/ Allot
  <2>1. pc[k.cur] \in {"count", "allot"} /\ \E o1 : Put(Here.on, o1) BY <1>4 DEF CountTake, Allot
  <2>2. Here.on \in S
    BY <2>1, Running DEF Places, AtQueue, AtTimers, StreamPlaces, Here, Taking, QueueObjects
  <2> QED BY <2>1, <2>2, OnlyOne
<1>5. CASE TakeAgain \/ GiveRecursive \/ Reset \/ New \/ Delete \/ Free
  <2>1. \E op \in {"take", "send", "reset", "new", "delete", "release"} : \E c \in Calls(op) : \E o1 : Put(c.on, o1)
    BY <1>5, Zenon DEF TakeAgain, GiveRecursive, Reset, New, Delete, Free
  <2>2. ASSUME NEW op \in {"take", "send", "reset", "new", "delete", "release"}, NEW c \in Calls(op) PROVE c.on \in S
    BY <2>2, Called, QueueCallKnown DEF Puts, Timely, Plain, QueueObjects
  <2> QED BY <2>1, <2>2, OnlyOne
<1>6. CASE SendFromISR \/ ReceiveFromISR \/ PeekFromISR \/ AllocFromISR \/ FreeFromISR
  <2>1. \E op \in {"send", "receive", "peek", "alloc", "release"} : \E c \in Interrupt(op) : \E o1 : Put(c.on, o1)
    BY <1>6, Zenon DEF SendFromISR, SendsFromISR, ReceiveFromISR, PeekFromISR, AllocFromISR, FreeFromISR
  <2>2. ASSUME NEW op \in {"send", "receive", "peek", "alloc", "release"}, NEW c \in Interrupt(op) PROVE c.on \in S
    BY <2>2, InterruptKnown, InterruptSorts DEF ServicesInv, Interrupt, Puts, Plain, QueueObjects
  <2> QED BY <2>1, <2>2, OnlyOne
<1> QED BY <1>1, <1>2, <1>3, <1>4, <1>5, <1>6 DEF QueueSteps, PoolSteps

(* Where a call that makes or deletes an object is.                           *)
Busy == {"resume", "obtain", "giveBack"}
LEMMA MakerKnown ==
  ASSUME NEW l, NEW f, NEW t, NEW o, NEW p, Places(l, f, t, o, p), f.op \in Making
  PROVE  l \in Busy /\ Owning(f)
<1>1. f.op \notin {"none", "send", "receive", "peek", "take", "delay", "malloc", "free", "setBits", "waitBits", "sync",
                   "deleteGroup", "put", "get", "timer"}
  BY DEF Making
<1>2. ~Queueing(f, o, p) /\ ~Passing(f) /\ ~Grouping(f) /\ ~Streaming(f, o) /\ ~Tending(f) /\ ~Taking(f) /\ f # NoCall
  BY <1>1 DEF Queueing, Passing, Grouping, Streaming, Tending, Taking, NoCall
<1>3. Resumable(f, t, o, p) => Owning(f) BY <1>2 DEF Resumable
<1>4. Owning(f) => ~f.blocks BY DEF Owning
<1> QED BY <1>2, <1>3, <1>4 DEF Places, AtQueue, AtTimers, Busy, Making
Quiet == \A t \in Task : frame'[t] = frame[t] \/ (frame[t].op \notin Making /\ frame'[t].op \notin Making)
QuietMove ==
  \E from, to, next :
    /\ from \notin Busy /\ Moves(from, to, next)
    /\ UNCHANGED frame \/ Leave \/ \E f : Enter(f) /\ (to \notin Busy \/ f.op \notin Making)
LEMMA MovesQuietly == ASSUME ServicesInv, ServicesInv', QuietMove PROVE Quiet
<1>1. PICK from, to, next :
        /\ from \notin Busy /\ Moves(from, to, next)
        /\ UNCHANGED frame \/ Leave \/ \E f : Enter(f) /\ (to \notin Busy \/ f.op \notin Making)
  BY DEF QuietMove
<1>2. k.cur \in Task /\ DOMAIN pc = Task /\ DOMAIN frame = Task BY Running
<1>3. pc[k.cur] = from /\ pc'[k.cur] = to BY <1>1, <1>2 DEF Moves
<1>4. frame[k.cur].op \notin Making BY <1>1, <1>2, <1>3, MakerKnown DEF ServicesInv, Control
<1>5. CASE UNCHANGED frame BY <1>5 DEF Quiet
<1>6. CASE Leave
  <2>1. frame' = [frame EXCEPT ![k.cur] = NoCall] /\ NoCall.op \notin Making BY <1>6 DEF Leave, NoCall, Making
  <2> QED BY <1>2, <1>4, <2>1 DEF Quiet
<1>7. CASE \E f : Enter(f) /\ (to \notin Busy \/ f.op \notin Making)
  <2>1. PICK f : frame' = [frame EXCEPT ![k.cur] = f] /\ (to \notin Busy \/ f.op \notin Making) BY <1>7 DEF Enter
  <2>2. Places(pc'[k.cur], frame'[k.cur], k.cur, obj', program') BY <1>2 DEF ServicesInv, Control
  <2>3. frame'[k.cur] = f BY <1>2, <2>1
  <2>4. f.op \notin Making BY <1>3, <2>1, <2>2, <2>3, MakerKnown
  <2> QED BY <1>2, <1>4, <2>1, <2>4 DEF Quiet
<1> QED BY <1>1, <1>5, <1>6, <1>7

(* None of the other services' steps is at a call that makes or deletes.     *)
OtherPlaces == {"user", "try", "suspend", "lock", "place", "unlockTx", "unlockRx", "final", "disinherit", "count", "allot",
              "asserted", "woken", "await", "sleepUntil", "switch", "commands", "command", "act", "call", "expire",
              "yield"} \cup StreamPlaces
LEMMA OtherPlacesKnown == OtherPlaces \cap Busy = {}
BY DEF OtherPlaces, Busy, StreamPlaces
LEMMA GoesQuietly ==
  ASSUME NEW from \in OtherPlaces, NEW to, NEW next, Moves(from, to, next),
         \/ UNCHANGED frame
         \/ Leave
         \/ \E f : Enter(f) /\ (to \in OtherPlaces \/ f.op \notin Making)
  PROVE  QuietMove
BY OtherPlacesKnown DEF QuietMove
LEMMA QueuesQuiet == ASSUME ServicesInv, QueueSteps PROVE QuietMove \/ UNCHANGED frame
<1>1. CASE TryToSend \/ TryToReceive \/ TryToPeek
  BY <1>1, GoesQuietly DEF TryToSend, TryToReceive, TryToPeek, Try, OtherPlaces
<1>2. CASE TryToTake
  <2>1. PICK f \in Trying :
          \E next : /\ Try(Then(obj[f.on]), next)
                    /\ IF Then(obj[f.on]) = "user" THEN Leave ELSE Enter([op |-> "take", on |-> f.on])
    BY <1>2 DEF TryToTake
  <2>2. Then(obj[f.on]) \in OtherPlaces BY DEF Then, OtherPlaces
  <2> QED BY <2>1, <2>2, GoesQuietly DEF Try, OtherPlaces
<1>3. CASE TryInVain \/ TryAsserts \/ TryWaits
  BY <1>3, GoesQuietly DEF TryInVain, TryAsserts, TryWaits, Try, OtherPlaces
<1>4. CASE Suspend \/ UnlockTx \/ UnlockRx
  BY <1>4, GoesQuietly DEF Suspend, UnlockTx, UnlockRx, Goes, OtherPlaces
<1>5. CASE Lock \/ Place
  BY <1>5, GoesQuietly DEF Lock, Place, OtherPlaces
<1>6. CASE Final \/ DisinheritStep \/ CountTake
  BY <1>6, GoesQuietly DEF Final, DisinheritStep, CountTake, Goes, Returns, OtherPlaces
<1>7. CASE GiveRecursive
  BY <1>7, GoesQuietly DEF GiveRecursive, OtherPlaces
<1>8. CASE TakeAgain \/ Reset \/ New \/ Delete BY <1>8 DEF TakeAgain, Reset, New, Delete
<1>9. CASE SendFromISR \/ ReceiveFromISR \/ PeekFromISR
  BY <1>9 DEF SendFromISR, SendsFromISR, ReceiveFromISR, PeekFromISR, FromISR
<1> QED BY <1>1, <1>2, <1>3, <1>4, <1>5, <1>6, <1>7, <1>8, <1>9 DEF QueueSteps
LEMMA PoolsQuiet == ASSUME ServicesInv, PoolSteps PROVE QuietMove \/ UNCHANGED frame
<1>1. CASE Allot BY <1>1, GoesQuietly DEF Allot, Returns, OtherPlaces
<1>2. CASE Free BY <1>2, GoesQuietly DEF Free, OtherPlaces
<1>3. CASE AllocFromISR \/ FreeFromISR BY <1>3 DEF AllocFromISR, FreeFromISR, FromISR
<1> QED BY <1>1, <1>2, <1>3 DEF PoolSteps
LEMMA GroupsQuiet == ASSUME ServicesInv, GroupSteps PROVE QuietMove \/ UNCHANGED frame
<1>1. ASSUME NEW op \in {"setBits", "waitBits", "sync", "deleteGroup"}, NEW c \in OfGroup(op), NEW next, NEW b
      PROVE  GroupFrame(c, next, b).op \notin Making
  <2>1. c.op = op /\ c \in TaskCalls BY <1>1, Called DEF OfGroup
  <2>2. "op" \in DOMAIN c BY <2>1, GroupCallKnown
  <2> QED BY <2>1, <2>2 DEF GroupFrame, Joined, Making
<1>2. CASE SetBitsStep \/ DeleteGroup BY <1>1, <1>2, GoesQuietly DEF SetBitsStep, DeleteGroup, OtherPlaces
<1>3. CASE WaitBits \/ Sync BY <1>1, <1>3, GoesQuietly DEF WaitBits, Sync, OtherPlaces
<1>4. CASE Woken BY <1>4, GoesQuietly DEF Woken, Returns, OtherPlaces
<1>5. CASE ClearBits \/ CreateGroup BY <1>5 DEF ClearBits, CreateGroup
<1> QED BY <1>2, <1>3, <1>4, <1>5 DEF GroupSteps
LEMMA StreamsQuiet == ASSUME ServicesInv, StreamSteps PROVE QuietMove \/ UNCHANGED frame
<1>1. CASE StreamSend \/ StreamReceive
  BY <1>1, GoesQuietly DEF StreamSend, StreamReceive, OtherPlaces, StreamPlaces
<1>2. CASE Room \/ Expired \/ Measure \/ Look \/ Length
  BY <1>2, GoesQuietly DEF Room, Expired, Measure, Look, Length, Goes, Returns, OtherPlaces, StreamPlaces
<1>3. CASE Sleep \/ Slept \/ Forget \/ PutData \/ Copy \/ Tell \/ NotifyOther
  BY <1>3, GoesQuietly DEF Sleep, Slept, Forget, PutData, Copy, Tell, NotifyOther, Goes, Returns, OtherPlaces, StreamPlaces
<1>4. CASE NextMessageLength \/ StreamReset \/ SetTriggerLevel \/ StreamCreate \/ StreamDelete
  BY <1>4 DEF NextMessageLength, StreamReset, SetTriggerLevel, StreamCreate, StreamDelete
<1>5. CASE StreamSendFromISR \/ StreamReceiveFromISR BY <1>5 DEF StreamSendFromISR, StreamReceiveFromISR, FromISR
<1> QED BY <1>1, <1>2, <1>3, <1>4, <1>5 DEF StreamSteps
LEMMA TimersQuiet == ASSUME ServicesInv, TimerSteps PROVE QuietMove \/ UNCHANGED frame
<1>1. CASE TimerLook
  <2>1. \E to, next, f : Moves("user", to, next) /\ Enter(f) /\ f.op = "timer" BY <1>1 DEF TimerLook
  <2> QED BY <2>1, GoesQuietly DEF Making, OtherPlaces
<1>2. CASE SwitchOne \/ Expire \/ Act \/ Call BY <1>2 DEF SwitchOne, Expire, Act, Call
<1>3. CASE SwitchDone \/ SleepUntil BY <1>3, GoesQuietly DEF SwitchDone, SleepUntil, Goes, OtherPlaces
<1>4. CASE Await \/ SampleTime BY <1>4, GoesQuietly DEF Await, SampleTime, OtherPlaces
<1>5. CASE NextCommand BY <1>5, GoesQuietly DEF NextCommand, Returns, OtherPlaces
<1>6. CASE SendCommand \/ PendCall BY <1>6, GoesQuietly DEF SendCommand, PendCall, OtherPlaces
<1>7. CASE CommandFromISR \/ PendCallFromISR BY <1>7 DEF CommandFromISR, PendCallFromISR, SendsFromISR, FromISR
<1>8. CASE SetReloadMode BY <1>8 DEF SetReloadMode
<1> QED BY <1>1, <1>2, <1>3, <1>4, <1>5, <1>6, <1>7, <1>8 DEF TimerSteps
LEMMA DelayQuiet == ASSUME ServicesInv, Delay PROVE QuietMove
<1> DEFINE f == [op |-> "delay", on |-> Nothing, next |-> "user", blocks |-> TRUE]
<1>1. f.op \notin Making BY DEF Making
<1>2. \E next : Moves("user", "resume", next) /\ Enter(f) BY DEF Delay
<1> HIDE DEF f
<1> QED BY <1>1, <1>2, GoesQuietly DEF OtherPlaces
LEMMA ResumeQuiet == ASSUME ServicesInv, Resume \/ YieldWithinAPI PROVE Quiet
<1>1. \E to : GoesOn(to) /\ (to = "user" => Here.next = "user" \/ (Here.blocks /\ to = "yield"))
  BY DEF Resume, YieldWithinAPI
<1>2. CASE UNCHANGED frame BY <1>2 DEF Quiet
<1>3. CASE ~UNCHANGED frame
  <2>1. Leave /\ Here.next = "user" BY <1>1, <1>3 DEF GoesOn
  <2>2. k.cur \in Task /\ DOMAIN frame = Task /\ Places(pc[k.cur], Here, k.cur, obj, program) BY Running DEF Here
  <2>3. ~Owning(Here) BY <2>1 DEF Owning
  <2>4. Here.op \notin Making BY <2>2, <2>3, MakerKnown
  <2>5. frame' = [frame EXCEPT ![k.cur] = NoCall] /\ NoCall.op \notin Making BY <2>1 DEF Leave, NoCall, Making
  <2> QED BY <2>2, <2>4, <2>5 DEF Quiet, Here
<1> QED BY <1>2, <1>3

-----------------------------------------------------------------------------
(* A step of the services that make and delete: task t goes on with frame f1 *)
(* and thing x becomes o1, and nobody else's are touched.                    *)
Trades(t, f1, x, o1) ==
  /\ t \in Task /\ frame'[t] = f1 /\ (\A u \in Task \ {t} : frame'[u] = frame[u])
  /\ x \in Things /\ obj'[x] = o1 /\ (\A y \in Things \ {x} : obj'[y] = obj[y])
  /\ program' = program
LEMMA OwnersKnown == \A t \in Task, x \in Things : t \in Owners /\ x \in Owners /\ t # x /\ x \notin Task
BY ServicesAssumption DEF Owners
LEMMA HeldAt ==
  /\ \A t \in Task : Held[t] = OfCall(frame[t])
  /\ \A x \in Things : Held[x] = OfObject(obj[x])
<1>1. \A z \in Owners : Held[z] = IF z \in Task THEN OfCall(frame[z]) ELSE OfObject(obj[z]) BY DEF Held
<1> QED BY <1>1, OwnersKnown DEF Owners
LEMMA Reheld ==
  ASSUME NEW t, NEW f1, NEW x, NEW o1, Trades(t, f1, x, o1)
  PROVE  /\ \A z \in Owners \ {t, x} : Held'[z] = Held[z]
         /\ Held[t] = OfCall(frame[t]) /\ Held'[t] = OfCall(f1)
         /\ Held[x] = OfObject(obj[x]) /\ Held'[x] = OfObject(o1)
         /\ t \in Owners /\ x \in Owners /\ t # x
<1>1. \A z \in Owners : Held'[z] = IF z \in Task THEN OfCall(frame'[z]) ELSE OfObject(obj'[z])
  BY DEF Held, OfCall, OfObject
<1>2. \A z \in Owners : Held[z] = IF z \in Task THEN OfCall(frame[z]) ELSE OfObject(obj[z])
  BY DEF Held
<1>3. \A z \in Owners : z \in Task \/ z \in Things BY DEF Owners
<1> QED BY <1>1, <1>2, <1>3, OwnersKnown DEF Trades
LEMMA OwnersKept ==
  ASSUME ServicesInv, OwnersSound, NEW t, NEW f1, NEW x, NEW o1, Trades(t, f1, x, o1),
         f1.op = "make" => Wants(f1, t, obj', program'),
         o1.kind # "none" => DOMAIN o1 = {"kind", "own"} /\ (o1.kind = "timer" => o1.own # <<>>),
         \A u \in Task \ {t} : frame[u].op = "make" /\ frame[u].on = x => o1.kind = "none"
  PROVE  OwnersSound'
<1>1. ASSUME NEW u \in Task, frame'[u].op = "make" PROVE Wants(frame[u], u, obj, program)'
  <2>1. CASE u = t BY <1>1, <2>1 DEF Trades
  <2>2. CASE u # t
    <3>1. frame'[u] = frame[u] /\ Wants(frame[u], u, obj, program) /\ program' = program BY <1>1, <2>2 DEF Trades, OwnersSound
    <3>2. frame[u].on \in Things
      <4>1. Places(pc[u], frame[u], u, obj, program) BY DEF ServicesInv, Control
      <4>2. frame[u].op \in Making BY <1>1, <3>1 DEF Making
      <4> QED BY <4>1, <4>2, MakerKnown DEF Owning
    <3>3. obj'[frame[u].on].kind = "none"
      <4>1. CASE frame[u].on = x BY <1>1, <2>2, <3>1, <4>1 DEF Trades
      <4>2. CASE frame[u].on # x BY <3>1, <3>2, <4>2 DEF Trades, Wants
      <4> QED BY <4>1, <4>2
    <3> QED BY <3>1, <3>3 DEF Wants
  <2> QED BY <2>1, <2>2
<1>2. ASSUME NEW y \in Things, obj'[y].kind # "none"
      PROVE  DOMAIN obj'[y] = {"kind", "own"} /\ (obj'[y].kind = "timer" => obj'[y].own # <<>>)
  <2>1. CASE y = x BY <1>2, <2>1 DEF Trades
  <2>2. CASE y # x BY <1>2, <2>2 DEF Trades, OwnersSound
  <2> QED BY <2>1, <2>2
<1> QED BY <1>1, <1>2 DEF OwnersSound
LEMMA Traded ==
  ASSUME ServicesInv, MemoryInv, NEW t, NEW f1, NEW x, NEW o1, Trades(t, f1, x, o1),
         Parcel(OfCall(f1)), Parcel(OfObject(o1)), Blocks(OfCall(f1)) \cap Blocks(OfObject(o1)) = {},
         NEW new, new \cap heap.used = {},
         NEW gone, gone \subseteq Blocks(OfCall(frame[t])) \cup Blocks(OfObject(obj[x])),
         Blocks(OfCall(f1)) \cup Blocks(OfObject(o1))
           = (Blocks(OfCall(frame[t])) \cup Blocks(OfObject(obj[x])) \cup new) \ gone,
         Accounted(heap'), heap'.used = (heap.used \cup new) \ gone,
         OwnersSound'
  PROVE  MemoryInv'
<1> DEFINE h == Held
           h1 == Held'
           used == heap.used
<1>1. /\ \A z \in Owners \ {t, x} : h1[z] = h[z]
      /\ h[t] = OfCall(frame[t]) /\ h1[t] = OfCall(f1) /\ h[x] = OfObject(obj[x]) /\ h1[x] = OfObject(o1)
      /\ t \in Owners /\ x \in Owners /\ t # x
  BY Reheld
<1>2. Dealt(h, used) /\ (Frugal => AllDealt(h, used)) BY DEF MemoryInv
<1>3. Accounted(heap)' BY DEF Accounted
<1>4. Frugal' <=> Frugal BY DEF Frugal, Trades
<1>5. heap'.used = (used \cup new) \ gone /\ new \cap used = {} OBVIOUS
<1>6. MemoryInv' <=> Dealt(h1, heap'.used) /\ (Frugal' => AllDealt(h1, heap'.used))
  BY <1>3 DEF MemoryInv, Dealt, AllDealt
<1> HIDE DEF h, h1, used
<1>7. \A z \in Owners \ {t, x} : Blocks(h[z]) \cap gone = {} BY <1>1, <1>2 DEF Dealt
<1>8. Parcel(h1[t]) /\ Parcel(h1[x]) /\ Blocks(h1[t]) \cap Blocks(h1[x]) = {} BY <1>1
<1>9. Blocks(h1[t]) \cup Blocks(h1[x]) = (Blocks(h[t]) \cup Blocks(h[x]) \cup new) \ gone BY <1>1
<1> DEFINE now == (used \cup new) \ gone
<1>10. /\ t \in Owners /\ x \in Owners /\ Dealt(h, used) /\ Parcel(h1[t]) /\ Parcel(h1[x]) /\ new \cap used = {}
       /\ \A z \in Owners \ {t, x} : h1[z] = h[z]
       /\ t # x => Blocks(h1[t]) \cap Blocks(h1[x]) = {}
       /\ \A z \in Owners \ {t, x} : Blocks(h[z]) \cap gone = {}
       /\ Blocks(h1[t]) \cup Blocks(h1[x]) \subseteq (Blocks(h[t]) \cup Blocks(h[x]) \cup new) \ gone
       /\ (Blocks(h[t]) \cup Blocks(h[x]) \cup new) \ gone \subseteq Blocks(h1[t]) \cup Blocks(h1[x])
  BY <1>1, <1>2, <1>5, <1>7, <1>8, <1>9
<1>11. Dealt(h1, now)
  BY <1>10, Redealt, Zenon
<1>12. AllDealt(h, used) => AllDealt(h1, now)
  BY <1>10, Redealt, Zenon
<1> QED BY <1>2, <1>4, <1>5, <1>6, <1>11, <1>12

LEMMA OneOwner ==
  ASSUME ServicesInv, MemoryInv
  PROVE  /\ k.cur \in Task /\ Dealt(Held, heap.used) /\ OwnersSound /\ Accounted(heap) /\ heap.used \subseteq HeapBlock
         /\ \A t \in Task : Parcel(OfCall(frame[t])) /\ Blocks(OfCall(frame[t])) \subseteq heap.used
         /\ \A x \in Things : Parcel(OfObject(obj[x])) /\ Blocks(OfObject(obj[x])) \subseteq heap.used
         /\ \A t \in Task, x \in Things : Blocks(OfCall(frame[t])) \cap Blocks(OfObject(obj[x])) = {}
<1>1. k.cur \in Task /\ Dealt(Held, heap.used) /\ OwnersSound /\ Accounted(heap) BY Running DEF MemoryInv
<1>2. heap.used \subseteq HeapBlock BY <1>1 DEF Accounted, Intact
<1>3. \A t \in Task : t \in Owners /\ Held[t] = OfCall(frame[t]) BY HeldAt DEF Owners
<1>4. \A x \in Things : x \in Owners /\ Held[x] = OfObject(obj[x]) BY HeldAt DEF Owners
<1>5. \A t \in Task, x \in Things : t # x BY OwnersKnown
<1> QED BY <1>1, <1>2, <1>3, <1>4, <1>5 DEF Dealt
(* The call at hand.                                                         *)
LEMMA Calling ==
  ASSUME ServicesInv, MemoryInv, pc[k.cur] \in {"obtain", "giveBack"}
  PROVE  /\ Here.on \in Things /\ Owning(Here) /\ OfCall(Here) = Here.have /\ Parcel(Here.have)
         /\ Blocks(Here.have) \subseteq heap.used
         /\ pc[k.cur] = "obtain" => Here.op = "make" /\ Here.next = "obtain"
         /\ Here.op = "make" => Wants(Here, k.cur, obj, program) /\ OfObject(obj[Here.on]) = <<>>
<1>1. Owning(Here) /\ Here.on \in Things /\ (pc[k.cur] = "obtain" => Here.op = "make" /\ Here.next = "obtain")
  BY Owner
<1>2. OfCall(Here) = Here.have BY <1>1 DEF OfCall, Owning, Making
<1>3. k.cur \in Task /\ OwnersSound /\ Parcel(OfCall(Here)) /\ Blocks(OfCall(Here)) \subseteq heap.used
  BY OneOwner DEF Here
<1>4. Here.op = "make" => Wants(Here, k.cur, obj, program) BY <1>3 DEF OwnersSound, Here
<1>5. Wants(Here, k.cur, obj, program) => OfObject(obj[Here.on]) = <<>> BY DEF Wants, OfObject
<1> QED BY <1>1, <1>2, <1>3, <1>4, <1>5
(* A step of a call that leaves the thing as it is.                           *)
LEMMA Enters ==
  ASSUME ServicesInv, NEW f, Enter(f), NEW x \in Things, UNCHANGED <<obj, program>>
  PROVE  Trades(k.cur, f, x, obj[x])
BY Running DEF Enter, Trades
LEMMA Leaving ==
  ASSUME ServicesInv, Leave, NEW x \in Things, NEW o1, Put(x, o1), UNCHANGED program
  PROVE  Trades(k.cur, NoCall, x, o1)
<1>1. Things \subseteq Names BY DEF Names
<1> QED BY <1>1, Running DEF Leave, Trades, Put
LEMMA Entering ==
  ASSUME ServicesInv, NEW f, Enter(f), NEW x \in Things, NEW o1, Put(x, o1), UNCHANGED program
  PROVE  Trades(k.cur, f, x, o1)
<1>1. Things \subseteq Names BY DEF Names
<1> QED BY <1>1, Running DEF Enter, Trades, Put

LEMMA SameHands ==
  ASSUME ServicesInv, MemoryInv, NEW t, NEW f1, NEW x, NEW o1, Trades(t, f1, x, o1),
         Parcel(OfCall(f1)), Parcel(OfObject(o1)), Blocks(OfCall(f1)) \cap Blocks(OfObject(o1)) = {},
         Blocks(OfCall(f1)) \cup Blocks(OfObject(o1)) = Blocks(OfCall(frame[t])) \cup Blocks(OfObject(obj[x])),
         UNCHANGED heap, OwnersSound'
  PROVE  MemoryInv'
<1> DEFINE none == {}
<1>1. none \cap heap.used = {} /\ none \subseteq Blocks(OfCall(frame[t])) \cup Blocks(OfObject(obj[x])) OBVIOUS
<1>2. Accounted(heap') /\ heap'.used = (heap.used \cup none) \ none BY OneOwner
<1>3. Blocks(OfCall(f1)) \cup Blocks(OfObject(o1))
        = (Blocks(OfCall(frame[t])) \cup Blocks(OfObject(obj[x])) \cup none) \ none
  OBVIOUS
<1> HIDE DEF none
<1> QED BY <1>1, <1>2, <1>3, Traded, Zenon
LEMMA MakeCallKnown ==
  ASSUME NEW c \in TaskCalls, c.op = "make"
  PROVE  \/ c \in [op : {"make"}, on : Things, kind : {"thread"}, stack : Some, tcb : Some, given : {"all", "none", "some"}]
         \/ c \in [op : {"make"}, on : Things, kind : {"timer"}, callb : Some, bytes : Some, given : {"all", "none", "some"}]
         \/ c \in [op : {"make"}, on : Things, kind : {"pool"}, bytes : Some, array : Some,
                   given : {"all", "none", "array", "block"}]
         \/ c \in [op : {"make"}, on : Things, kind : {"queue", "mutex", "semaphore", "group", "stream"}, bytes : Some,
                   given : {"all", "none", "some"}]
BY DEF TaskCalls, QueueCalls, GroupCalls, StreamCalls, Transfers, TimerCalls, Commanded, MemoryCalls, Puts, Timely, Plain
LEMMA PartsKnown ==
  ASSUME NEW c \in TaskCalls, c.op = "make"
  PROVE  /\ c.on \in Things /\ c.kind # "none" /\ Parts(c) \in Seq(Some \cup {Outside, Nothing})
         /\ c.kind = "timer" => Parts(c) # <<>>
<1> DEFINE P == Some \cup {Outside, Nothing}
<1>0. \A b \in P : <<b>> \in Seq(P) /\ \A d \in P : <<b, d>> \in Seq(P) OBVIOUS
<1>1. CASE c \in [op : {"make"}, on : Things, kind : {"thread"}, stack : Some, tcb : Some, given : {"all", "none", "some"}]
  <2>1. c.stack \in P /\ c.tcb \in P /\ Outside \in P /\ Nothing \in P /\ c.given \in {"all", "none", "some"}
        /\ c.kind = "thread" /\ c.on \in Things
    BY <1>1
  <2>2. Parts(c) = ThreadParts(c) BY <2>1 DEF Parts
  <2> HIDE DEF P
  <2>3. Parts(c) \in Seq(P) BY <1>0, <2>1, <2>2 DEF ThreadParts, xTaskCreate, xTaskCreateStatic
  <2> QED BY <2>1, <2>3 DEF P
<1>2. CASE c \in [op : {"make"}, on : Things, kind : {"timer"}, callb : Some, bytes : Some,
                  given : {"all", "none", "some"}]
  <2>1. c.callb \in P /\ c.bytes \in P /\ Outside \in P /\ Nothing \in P /\ c.given \in {"all", "none", "some"}
        /\ c.kind = "timer" /\ c.on \in Things
    BY <1>2
  <2>2. Parts(c) = TimerParts(c) BY <2>1 DEF Parts
  <2> DEFINE own == CASE c.given = "all" -> xTimerCreateStatic
                      [] c.given = "none" -> xTimerCreate(c)
                      [] c.given = "some" -> <<Nothing>>
  <2>3. TimerParts(c) = <<c.callb>> \o own BY DEF TimerParts
  <2>4. \E b \in P : own = <<b>> BY <2>1 DEF xTimerCreate, xTimerCreateStatic
  <2> HIDE DEF own
  <2>5. PICK b \in P : own = <<b>> BY <2>4
  <2> DEFINE first == <<c.callb>>
  <2> HIDE DEF P
  <2>6. first \in Seq(P) /\ own \in Seq(P) /\ Len(first) = 1 /\ Len(own) = 1 BY <1>0, <2>1, <2>5
  <2> HIDE DEF first
  <2> HIDE DEF own
  <2>7. first \o own \in Seq(P) /\ Len(first \o own) = 2 BY <2>6, ConcatProperties
  <2>8. Parts(c) \in Seq(P) /\ Parts(c) # <<>> BY <2>2, <2>3, <2>7 DEF first
  <2> QED BY <2>1, <2>8 DEF P
<1>3. CASE c \in [op : {"make"}, on : Things, kind : {"pool"}, bytes : Some, array : Some,
                  given : {"all", "none", "array", "block"}]
  <2>1. c.bytes \in P /\ c.array \in P /\ Outside \in P /\ c.kind = "pool" /\ c.on \in Things BY <1>3
  <2>2. Parts(c) = PoolParts(c) BY <2>1 DEF Parts
  <2> HIDE DEF P
  <2>3. Parts(c) \in Seq(P) BY <1>0, <2>1, <2>2 DEF PoolParts
  <2> QED BY <2>1, <2>3 DEF P
<1>4. CASE c \in [op : {"make"}, on : Things, kind : {"queue", "mutex", "semaphore", "group", "stream"}, bytes : Some,
                  given : {"all", "none", "some"}]
  <2>1. c.bytes \in P /\ Outside \in P /\ Nothing \in P /\ c.given \in {"all", "none", "some"}
        /\ c.kind \in {"queue", "mutex", "semaphore", "group", "stream"} /\ c.on \in Things
    BY <1>4
  <2>2. Parts(c) \in {<<Outside>>, <<Outside, Outside>>, <<c.bytes>>, <<Nothing>>}
    BY <2>1 DEF Parts, OneBlock, xQueueCreateMutexStatic, xQueueCreateCountingSemaphoreStatic, xQueueGenericCreateStatic,
                xEventGroupCreateStatic, xStreamBufferGenericCreateStatic
  <2> HIDE DEF P
  <2>3. Parts(c) \in Seq(P) BY <1>0, <2>1, <2>2
  <2> QED BY <2>1, <2>3 DEF P
<1> QED BY <1>1, <1>2, <1>3, <1>4, MakeCallKnown
LEMMA MakeDeals == ASSUME ServicesInv, MemoryInv, Make PROVE MemoryInv'
<1>1. PICK c \in Calls("make") :
        /\ obj[c.on].kind = "none" /\ Moves("user", "obtain", k) /\ UNCHANGED <<obj, heap>>
        /\ Enter([op |-> "make", on |-> c.on, kind |-> c.kind, want |-> Parts(c), have |-> <<>>,
                  next |-> "obtain", blocks |-> FALSE])
  BY DEF Make
<1> DEFINE f == [op |-> "make", on |-> c.on, kind |-> c.kind, want |-> Parts(c), have |-> <<>>,
                 next |-> "obtain", blocks |-> FALSE]
           t == k.cur
<1>2. c \in TaskCalls /\ c.op = "make" /\ c \in program.calls[t] BY Called DEF Calls
<1>3. /\ c.on \in Things /\ c.kind # "none" /\ Parts(c) \in Seq(Some \cup {Outside, Nothing})
      /\ c.kind = "timer" => Parts(c) # <<>>
  BY <1>2, PartsKnown
<1>4. /\ f.op = "make" /\ f.have = <<>> /\ f.want = Parts(c) /\ f.kind = c.kind /\ f.on = c.on OBVIOUS
<1>5. Enter(f) /\ UNCHANGED <<obj, program, heap>> /\ pc[t] = "user" BY <1>1 DEF Moves
<1> HIDE DEF f
<1>6. t \in Task /\ OwnersSound /\ Accounted(heap) BY OneOwner
<1> HIDE DEF t
<1>7. frame[t].op \notin Making
  <2>1. Places(pc[t], frame[t], t, obj, program) BY <1>6 DEF ServicesInv, Control
  <2> QED BY <1>5, <2>1, MakerKnown DEF Busy
<1>8. OfCall(frame[t]) = <<>> /\ OfCall(f) = <<>> BY <1>4, <1>7 DEF OfCall
<1>9. Trades(t, f, c.on, obj[c.on]) BY <1>3, <1>5, Enters DEF t
<1>10. OfObject(obj[c.on]) = <<>> BY <1>1 DEF OfObject
<1>11. Wants(f, t, obj', program') BY <1>1, <1>2, <1>3, <1>4, <1>5 DEF Wants
<1>12. OwnersSound' BY <1>1, <1>6, <1>9, <1>11, OwnersKept
<1>13. /\ Parcel(OfCall(f)) /\ Parcel(OfObject(obj[c.on])) /\ UNCHANGED heap
       /\ Blocks(OfCall(f)) = {} /\ Blocks(OfObject(obj[c.on])) = {} /\ Blocks(OfCall(frame[t])) = {}
  BY <1>5, <1>8, <1>10, EmptyParcel
<1> QED BY <1>9, <1>12, <1>13, SameHands

(* A part is obtained, or supplied by the caller.                             *)
Given(part) == [Here EXCEPT !.want = Tail(@), !.have = Append(@, part), !.next = "obtain"]
Failing == [Here EXCEPT !.have = OnFailure(@), !.next = "giveBack"]
LEMMA AskedKnown ==
  ASSUME ServicesInv, MemoryInv, Asked
  PROVE  /\ pc[k.cur] = "obtain" /\ Here.op = "make" /\ Here.on \in Things /\ OfObject(obj[Here.on]) = <<>>
         /\ Parcel(Here.have) /\ OfCall(Here) = Here.have /\ Blocks(Here.have) \subseteq heap.used
         /\ Wants(Here, k.cur, obj, program) /\ Here.want # <<>>
         /\ Head(Here.want) \in Some \cup {Outside, Nothing}
<1>1. pc[k.cur] = "obtain" /\ Here.want # <<>> BY DEF Asked
<1>2. /\ Here.on \in Things /\ OfCall(Here) = Here.have /\ Parcel(Here.have) /\ Blocks(Here.have) \subseteq heap.used
      /\ Here.op = "make" /\ Wants(Here, k.cur, obj, program) /\ OfObject(obj[Here.on]) = <<>>
  BY <1>1, Calling
<1>3. Here.want \in Seq(Some \cup {Outside, Nothing}) BY <1>2 DEF Wants
<1>4. Head(Here.want) \in Some \cup {Outside, Nothing} BY <1>1, <1>3
<1> QED BY <1>1, <1>2, <1>4
LEMMA GivenKnown ==
  ASSUME ServicesInv, MemoryInv, Asked, NEW part, Enter(Given(part)), UNCHANGED <<obj, program>>
  PROVE  /\ Trades(k.cur, Given(part), Here.on, obj[Here.on]) /\ OfCall(Given(part)) = Append(Here.have, part)
         /\ OwnersSound'
<1> DEFINE f == Given(part)
           t == k.cur
           x == Here.on
           h == Here
           o == obj
<1>1. /\ h.op = "make" /\ x \in Things /\ Wants(h, t, obj, program) /\ h.want # <<>> /\ x = h.on /\ h = frame[t]
      /\ Parcel(h.have) /\ OfObject(obj[x]) = <<>>
  BY AskedKnown DEF Here
<1>2. {"op", "on", "have", "next", "kind", "want"} \subseteq DOMAIN h BY <1>1, AskedKnown, Owner DEF Owning
<1>3. /\ f.op = "make" /\ f.on = x /\ f.kind = h.kind /\ f.want = Tail(h.want)
      /\ f.have = Append(h.have, part) /\ f.next = "obtain"
  BY <1>1, <1>2 DEF Given
<1>4. Enter(f) OBVIOUS
<1> HIDE DEF f
<1>5. Trades(t, f, x, obj[x]) BY <1>1, <1>4, Enters
<1>6. OfCall(f) = Append(h.have, part) BY <1>3 DEF OfCall, Making
<1> DEFINE want == h.want
           have == h.have
<1>7. Tail(want) \in Seq(Some \cup {Outside, Nothing}) /\ Append(have, part) # <<>>
  <2>1. want \in Seq(Some \cup {Outside, Nothing}) /\ want # <<>> /\ have \in Seq(HeapBlock \cup {Outside})
    BY <1>1 DEF Wants, Parcel
  <2> HIDE DEF want, have
  <2>2. Tail(want) \in Seq(Some \cup {Outside, Nothing}) BY <2>1
  <2>3. Append(have, part) # <<>> BY <2>1
  <2> QED BY <2>2, <2>3
<1>8. Wants(f, t, obj', program') BY <1>1, <1>3, <1>7 DEF Wants
<1>9. t \in Task /\ OwnersSound BY OneOwner
<1> HIDE DEF t, x, h
<1>10. obj[x].kind = "none" BY <1>1 DEF Wants
<1>11. OwnersSound' BY <1>5, <1>8, <1>9, <1>10, OwnersKept
<1> QED BY <1>5, <1>6, <1>11 DEF f, t, x, h
LEMMA SuppliedDeals == ASSUME ServicesInv, MemoryInv, Supplied PROVE MemoryInv'
<1> DEFINE f == Given(Outside)
           t == k.cur
           x == Here.on
<1>1. Asked /\ Enter(f) /\ UNCHANGED <<obj, program, heap>> BY DEF Supplied, Has, Given, Moves
<1>2. Trades(t, f, x, obj[x]) /\ OfCall(f) = Append(Here.have, Outside) /\ OwnersSound' BY <1>1, GivenKnown
<1>3. Parcel(Here.have) /\ OfCall(frame[t]) = Here.have /\ OfObject(obj[x]) = <<>> BY <1>1, AskedKnown DEF Here
<1> DEFINE have == Here.have
           more == Append(have, Outside)
<1>4. Parcel(more) /\ Blocks(more) = Blocks(have)
  <2>1. Outside \in (HeapBlock \ Blocks(have)) \cup {Outside} /\ Parcel(have) BY <1>3
  <2> HIDE DEF have
  <2> QED BY <2>1, ParcelAppended
<1> HIDE DEF f, t, x
<1>5. /\ Parcel(OfCall(f)) /\ Parcel(OfObject(obj[x])) /\ Blocks(OfObject(obj[x])) = {}
      /\ Blocks(OfCall(f)) = Blocks(OfCall(frame[t]))
  BY <1>2, <1>3, <1>4, EmptyParcel
<1> QED BY <1>1, <1>2, <1>5, SameHands
LEMMA FailureDeals ==
  ASSUME ServicesInv, MemoryInv, Asked, Enter(Failing), UNCHANGED <<obj, program, heap>>
  PROVE  MemoryInv'
<1> DEFINE f == Failing
           t == k.cur
           x == Here.on
           h == Here
<1>1. /\ h.op = "make" /\ x \in Things /\ Wants(h, t, obj, program) /\ x = h.on /\ h = frame[t]
      /\ Parcel(h.have) /\ OfObject(obj[x]) = <<>> /\ OfCall(h) = h.have
  BY AskedKnown DEF Here
<1>2. {"op", "on", "have", "next", "kind", "want"} \subseteq DOMAIN h BY <1>1, AskedKnown, Owner DEF Owning
<1>3. /\ f.op = "make" /\ f.on = x /\ f.kind = h.kind /\ f.want = h.want
      /\ f.have = FromHeap(h.have) /\ f.next = "giveBack"
  BY <1>1, <1>2 DEF Failing, OnFailure
<1>4. Enter(f) OBVIOUS
<1> HIDE DEF f
<1>5. Trades(t, f, x, obj[x]) BY <1>1, <1>4, Enters
<1>6. OfCall(f) = FromHeap(h.have) BY <1>3 DEF OfCall, Making
<1>7. Parcel(OfCall(f)) /\ Blocks(OfCall(f)) = Blocks(h.have) BY <1>1, <1>6, ParcelFromHeap
<1>8. Wants(f, t, obj', program') BY <1>1, <1>3 DEF Wants
<1>9. t \in Task /\ OwnersSound BY OneOwner
<1> HIDE DEF t, x, h
<1>10. obj[x].kind = "none" BY <1>1 DEF Wants
<1>11. OwnersSound' BY <1>5, <1>8, <1>9, <1>10, OwnersKept
<1>12. OfCall(frame[t]) = h.have BY <1>1
<1> QED BY <1>1, <1>5, <1>7, <1>11, <1>12, EmptyParcel, SameHands
LEMMA RefusedDeals == ASSUME ServicesInv, MemoryInv, Refused PROVE MemoryInv'
<1>1. Asked /\ Enter(Failing) /\ UNCHANGED <<obj, program, heap>> BY DEF Refused, GoesBack, Failing, Moves
<1> QED BY <1>1, FailureDeals
LEMMA ObtainDeals == ASSUME ServicesInv, MemoryInv, Obtain PROVE MemoryInv'
<1> DEFINE n == Head(Here.want)
           t == k.cur
           x == Here.on
<1>1. Asked /\ n \notin {Outside, Nothing} /\ UNCHANGED <<obj, program>> BY DEF Obtain, HeapCall, Moves
<1>2. n \in Nat BY <1>1, AskedKnown DEF Some
<1>3. CASE Fits(n) = {}
  <2>1. Enter(Failing) /\ UNCHANGED heap BY <1>3 DEF Obtain, GoesBack, Failing
  <2> QED BY <1>1, <2>1, FailureDeals
<1>4. CASE Fits(n) # {}
  <2>1. PICK b \in heap.free : Malloc(n, b) /\ Enter(Given(Taken(n, b))) BY <1>4 DEF Obtain, Has, Given
  <2> DEFINE part == Taken(n, b)
             f == Given(part)
  <2>2. Accounted(heap) BY OneOwner
  <2> HIDE DEF n
  <2>3. Accounted(heap)' /\ heap'.used = heap.used \cup {part} /\ part \in HeapBlock \ heap.used
    BY <1>2, <2>1, <2>2, MallocAccounts
  <2> HIDE DEF part
  <2>4. Trades(t, f, x, obj[x]) /\ OfCall(f) = Append(Here.have, part) /\ OwnersSound'
    BY <1>1, <2>1, GivenKnown DEF part
  <2>5. /\ Parcel(Here.have) /\ OfCall(frame[t]) = Here.have /\ OfObject(obj[x]) = <<>>
        /\ Blocks(Here.have) \subseteq heap.used
    BY <1>1, AskedKnown DEF Here
  <2>6. part \in (HeapBlock \ Blocks(Here.have)) \cup {Outside} /\ part # Outside BY <2>3, <2>5, OutsideApart
  <2>7. Parcel(OfCall(f)) /\ Blocks(OfCall(f)) = Blocks(Here.have) \cup {part}
    BY <2>4, <2>5, <2>6, ParcelAppended
  <2> DEFINE new == {part}
             none == {}
  <2>8. new \cap heap.used = {} /\ none \subseteq Blocks(OfCall(frame[t])) \cup Blocks(OfObject(obj[x])) BY <2>3
  <2>9. Accounted(heap') /\ heap'.used = (heap.used \cup new) \ none BY <2>3 DEF Accounted
  <2>10. Parcel(OfObject(obj[x])) /\ Blocks(OfCall(f)) \cap Blocks(OfObject(obj[x])) = {} BY <2>5, EmptyParcel
  <2>11. Blocks(OfCall(f)) \cup Blocks(OfObject(obj[x]))
           = (Blocks(OfCall(frame[t])) \cup Blocks(OfObject(obj[x])) \cup new) \ none
    BY <2>5, <2>7, EmptyParcel
  <2> HIDE DEF new, none, f, t, x
  <2> QED BY <2>4, <2>7, <2>8, <2>9, <2>10, <2>11, Traded, Zenon
<1> QED BY <1>3, <1>4

(* What has been obtained becomes the thing's own, and what is to be freed   *)
(* the call's that deletes it.                                                *)
LEMMA MadeDeals == ASSUME ServicesInv, MemoryInv, Made PROVE MemoryInv'
<1> DEFINE t == k.cur
           x == Here.on
           h == Here
           o1 == [kind |-> h.kind, own |-> h.have]
<1>1. pc[k.cur] = "obtain" /\ h.want = <<>> /\ Put(x, o1) /\ Leave /\ UNCHANGED <<program, heap>>
  BY DEF Made, Returns, Moves
<1>2. /\ x \in Things /\ OfCall(h) = h.have /\ Parcel(h.have) /\ h.op = "make" /\ h.next = "obtain"
      /\ Wants(h, t, obj, program) /\ OfObject(obj[x]) = <<>> /\ h = frame[t] /\ x = h.on
  BY <1>1, Calling DEF Here
<1>3. Trades(t, NoCall, x, o1)
  <2> HIDE DEF o1
  <2> QED BY <1>1, <1>2, Leaving
<1>4. DOMAIN o1 = {"kind", "own"} /\ o1.kind = h.kind /\ o1.own = h.have OBVIOUS
<1> HIDE DEF o1
<1>5. h.kind # "none" /\ (h.kind = "timer" => h.have # <<>>) BY <1>1, <1>2 DEF Wants
<1>6. OfObject(o1) = h.have BY <1>4, <1>5 DEF OfObject
<1>7. OfCall(NoCall) = <<>> BY DEF OfCall, NoCall, Making
<1>8. t \in Task /\ OwnersSound BY OneOwner
<1> HIDE DEF t, x, h
<1>9. ASSUME NEW u \in Task \ {t}, frame[u].op = "make", frame[u].on = x PROVE o1.kind = "none"
  <2>1. Wants(frame[u], u, obj, program) BY <1>8, <1>9 DEF OwnersSound
  <2>2. PICK c \in program.calls[u] : c.op = "make" /\ c.on = x BY <1>9, <2>1 DEF Wants
  <2>3. PICK d \in program.calls[t] : d.op = "make" /\ d.on = x BY <1>2 DEF Wants
  <2>4. OneMaker(program) BY Assumed DEF ServicesInv, Sensible
  <2>5. u = t BY <1>8, <2>2, <2>3, <2>4 DEF OneMaker
  <2> QED BY <2>5
<1>10. NoCall.op # "make" BY DEF NoCall
<1>11. OwnersSound' BY <1>3, <1>4, <1>5, <1>8, <1>9, <1>10, OwnersKept
<1>12. /\ Parcel(OfCall(NoCall)) /\ Parcel(OfObject(o1)) /\ Blocks(OfCall(NoCall)) = {}
       /\ Blocks(OfObject(o1)) = Blocks(OfCall(frame[t])) /\ Blocks(OfObject(obj[x])) = {} /\ UNCHANGED heap
  BY <1>1, <1>2, <1>6, <1>7, EmptyParcel
<1> QED BY <1>3, <1>11, <1>12, SameHands
LEMMA Leftover ==
  ASSUME ServicesInv, MemoryInv, NEW t, NEW f1, NEW x, NEW o1, Trades(t, f1, x, o1), f1.op # "make",
         \/ o1 = NoObject
         \/ /\ DOMAIN o1 = {"kind", "own"} /\ (o1.kind = "timer" => o1.own # <<>>)
            /\ obj[x].kind # "none"
         \/ o1 = obj[x]
  PROVE  OwnersSound'
<1>1. OwnersSound BY OneOwner
<1>2. ASSUME NEW u \in Task, frame[u].op = "make", frame[u].on = x PROVE obj[x].kind = "none"
  <2>1. Wants(frame[u], u, obj, program) BY <1>1, <1>2 DEF OwnersSound
  <2> QED BY <1>2, <2>1 DEF Wants
<1>3. x \in Things /\ t \in Task BY DEF Trades
<1>4. o1.kind # "none" => DOMAIN o1 = {"kind", "own"} /\ (o1.kind = "timer" => o1.own # <<>>)
  <2>1. CASE o1 = NoObject
    <3>1. o1.kind = "none" BY <2>1 DEF NoObject
    <3> QED BY <3>1
  <2>2. CASE o1 = obj[x] BY <1>1, <1>3, <2>2, Zenon DEF OwnersSound
  <2> QED BY <2>1, <2>2, Zenon
<1>5. \A u \in Task \ {t} : frame[u].op = "make" /\ frame[u].on = x => o1.kind = "none"
  BY <1>2 DEF NoObject
<1> QED BY <1>1, <1>4, <1>5, OwnersKept
LEMMA GiveBackDeals == ASSUME ServicesInv, MemoryInv, GiveBack PROVE MemoryInv'
<1> DEFINE t == k.cur
           x == Here.on
           h == Here
<1>1. pc[k.cur] = "giveBack" /\ UNCHANGED <<obj, program>> BY DEF GiveBack, Returns, HeapCall, Moves
<1>2. /\ x \in Things /\ OfCall(h) = h.have /\ Parcel(h.have) /\ h = frame[t] /\ x = h.on /\ h.op \in Making
      /\ Blocks(h.have) \subseteq heap.used /\ (h.op = "make" => Wants(h, t, obj, program))
      /\ {"op", "on", "have", "next", "blocks"} \subseteq DOMAIN h
      /\ h.op = "make" => {"kind", "want"} \subseteq DOMAIN h
  BY <1>1, Calling DEF Here, Owning, Making
<1>3. t \in Task /\ OwnersSound /\ Accounted(heap) /\ Parcel(OfObject(obj[x]))
      /\ Blocks(OfCall(frame[t])) \cap Blocks(OfObject(obj[x])) = {}
  BY <1>2, OneOwner
<1>4. CASE h.have = <<>>
  <2>1. Leave /\ UNCHANGED heap BY <1>4 DEF GiveBack, Returns
  <2>2. Trades(t, NoCall, x, obj[x])
    <3>1. Things \subseteq Names BY DEF Names
    <3> QED BY <1>1, <1>2, <2>1, Running DEF Leave, Trades
  <2>3. NoCall.op # "make" /\ OfCall(NoCall) = <<>> BY DEF OfCall, NoCall, Making
  <2> HIDE DEF t, x, h
  <2>4. OwnersSound' BY <2>2, <2>3, Leftover
  <2>5. /\ Parcel(OfCall(NoCall)) /\ Blocks(OfCall(NoCall)) = {} /\ Blocks(OfCall(frame[t])) = {} /\ UNCHANGED heap
    BY <1>2, <1>4, <2>1, <2>3, EmptyParcel
  <2> QED BY <1>3, <2>2, <2>4, <2>5, SameHands
<1>5. CASE h.have # <<>>
  <2> DEFINE f == [h EXCEPT !.have = Tail(@), !.next = "giveBack"]
             b == Head(h.have)
             have == h.have
  <2>1. Enter(f) /\ FreeMemory(b) BY <1>5 DEF GiveBack
  <2>2. /\ f.op = h.op /\ f.on = x /\ f.have = Tail(h.have) /\ f.next = "giveBack"
        /\ h.op = "make" => f.kind = h.kind /\ f.want = h.want
    BY <1>2
  <2> HIDE DEF f
  <2>3. Trades(t, f, x, obj[x]) BY <1>1, <1>2, <2>1, Enters
  <2>4. OfCall(f) = Tail(have) BY <1>2, <2>2 DEF OfCall
  <2>5. f.op = "make" => Wants(f, t, obj', program') BY <1>1, <1>2, <2>2 DEF Wants
  <2>6. obj[x].kind # "none" => h.op # "make" BY <1>2 DEF Wants
  <2>7. ASSUME NEW u \in Task \ {t}, frame[u].op = "make", frame[u].on = x PROVE obj[x].kind = "none"
    <3>1. Wants(frame[u], u, obj, program) BY <1>3, <2>7 DEF OwnersSound
    <3> QED BY <2>7, <3>1 DEF Wants
  <2>8. obj[x].kind # "none" => DOMAIN obj[x] = {"kind", "own"} /\ (obj[x].kind = "timer" => obj[x].own # <<>>)
    BY <1>2, <1>3 DEF OwnersSound
  <2>9. Parcel(have) /\ have # <<>> /\ Blocks(have) = Blocks(OfCall(frame[t])) /\ Blocks(have) \subseteq heap.used
    BY <1>2, <1>5
  <2> HIDE DEF t, x, h, have
  <2>10. OwnersSound' BY <1>3, <2>3, <2>5, <2>7, <2>8, OwnersKept
  <2>11. /\ Parcel(Tail(have)) /\ Head(have) \notin Blocks(Tail(have)) /\ Head(have) \in HeapBlock \cup {Outside}
         /\ Blocks(have) = Blocks(Tail(have)) \cup ({Head(have)} \ {Outside})
    BY <2>9, ParcelOpened
  <2>12. b = Head(have) BY DEF b, have
  <2> HIDE DEF b
  <2>13. b \in heap.used /\ heap' = Freed(heap, b) BY <2>1 DEF FreeMemory
  <2>14. b # Outside BY <2>13, OneOwner, OutsideApart
  <2>15. Accounted(heap') /\ heap'.used = heap.used \ {b} BY <1>3, <2>13, FreedAccounts
  <2> DEFINE none == {}
             gone == {b}
  <2>16. none \cap heap.used = {} /\ gone \subseteq Blocks(OfCall(frame[t])) \cup Blocks(OfObject(obj[x]))
    BY <2>9, <2>11, <2>12, <2>14
  <2>17. Parcel(OfCall(f)) /\ Blocks(OfCall(f)) \cap Blocks(OfObject(obj[x])) = {}
    BY <1>3, <2>4, <2>9, <2>11
  <2>18. Blocks(OfCall(f)) \cup Blocks(OfObject(obj[x]))
           = (Blocks(OfCall(frame[t])) \cup Blocks(OfObject(obj[x])) \cup none) \ gone
    BY <1>3, <2>4, <2>9, <2>11, <2>12, <2>14
  <2>19. Accounted(heap') /\ heap'.used = (heap.used \cup none) \ gone BY <2>15
  <2> HIDE DEF none, gone
  <2> QED BY <1>3, <2>3, <2>10, <2>16, <2>17, <2>18, <2>19, Traded, Zenon
<1> QED BY <1>4, <1>5

LEMMA AtHome ==
  ASSUME ServicesInv, MemoryInv, pc[k.cur] = "user"
  PROVE  OfCall(frame[k.cur]) = <<>> /\ frame[k.cur].op \notin Making
<1>1. frame[k.cur].op \notin Making BY Running, MakerKnown DEF Busy
<1> QED BY <1>1 DEF OfCall
LEMMA FreesDeals ==
  ASSUME ServicesInv, MemoryInv, NEW x \in Things, NEW o1, NEW blocks, Put(x, o1), Frees(x, blocks),
         obj[x].kind # "none", Parcel(blocks), Parcel(OfObject(o1)), Blocks(blocks) \cap Blocks(OfObject(o1)) = {},
         Blocks(blocks) \cup Blocks(OfObject(o1)) = Blocks(obj[x].own),
         o1 = NoObject \/ (DOMAIN o1 = {"kind", "own"} /\ o1.kind # "timer")
  PROVE  MemoryInv'
<1> DEFINE f == [op |-> "unmake", on |-> x, have |-> blocks, next |-> "giveBack", blocks |-> FALSE]
           t == k.cur
<1>1. pc[k.cur] = "user" /\ Enter(f) /\ UNCHANGED <<program, heap>> BY DEF Frees, Moves
<1>2. f.op = "unmake" /\ f.have = blocks OBVIOUS
<1> HIDE DEF f
<1>3. Trades(t, f, x, o1) BY <1>1, Entering
<1>4. OfCall(frame[t]) = <<>> BY <1>1, AtHome
<1>5. OfCall(f) = blocks BY <1>2 DEF OfCall, Making
<1> HIDE DEF t
<1>6. f.op # "make" BY <1>2
<1>7. \/ o1 = NoObject
      \/ /\ DOMAIN o1 = {"kind", "own"} /\ (o1.kind = "timer" => o1.own # <<>>)
         /\ obj[x].kind # "none"
  OBVIOUS
<1>8. OwnersSound' BY <1>3, <1>6, <1>7, Leftover
<1>9. OfObject(obj[x]) = obj[x].own BY DEF OfObject
<1>10. /\ Parcel(OfCall(f)) /\ Blocks(OfCall(f)) \cap Blocks(OfObject(o1)) = {} /\ UNCHANGED heap
       /\ Blocks(OfCall(f)) \cup Blocks(OfObject(o1)) = Blocks(OfCall(frame[t])) \cup Blocks(OfObject(obj[x]))
  BY <1>1, <1>4, <1>5, <1>9, EmptyParcel
<1> QED BY <1>3, <1>8, <1>10, SameHands
LEMMA OwnKnown ==
  ASSUME ServicesInv, MemoryInv, NEW x \in Things, obj[x].kind # "none"
  PROVE  /\ Parcel(obj[x].own) /\ Blocks(obj[x].own) \subseteq heap.used /\ DOMAIN obj[x] = {"kind", "own"}
         /\ Parcel(FromHeap(obj[x].own)) /\ Blocks(FromHeap(obj[x].own)) = Blocks(obj[x].own)
         /\ FromHeap(obj[x].own) \in Seq(HeapBlock)
         /\ obj[x].kind = "timer" => obj[x].own # <<>>
<1>1. OfObject(obj[x]) = obj[x].own BY DEF OfObject
<1>2. Parcel(obj[x].own) /\ Blocks(obj[x].own) \subseteq heap.used BY <1>1, OneOwner
<1>3. DOMAIN obj[x] = {"kind", "own"} /\ (obj[x].kind = "timer" => obj[x].own # <<>>)
  BY OneOwner, Zenon DEF OwnersSound
<1> QED BY <1>2, <1>3, ParcelFromHeap
LEMMA GoneDeals ==
  ASSUME ServicesInv, MemoryInv, NEW x \in Things, Put(x, NoObject), Frees(x, FromHeap(obj[x].own)),
         obj[x].kind # "none"
  PROVE  MemoryInv'
<1> DEFINE blocks == FromHeap(obj[x].own)
<1>1. Parcel(blocks) /\ Blocks(blocks) = Blocks(obj[x].own) BY OwnKnown
<1>2. OfObject(NoObject) = <<>> BY DEF OfObject, NoObject
<1>3. Parcel(OfObject(NoObject)) /\ Blocks(OfObject(NoObject)) = {} BY <1>2, EmptyParcel
<1> HIDE DEF blocks
<1> QED BY <1>1, <1>3, FreesDeals DEF blocks
LEMMA DeletesDeal == ASSUME ServicesInv, MemoryInv, DeleteOne \/ DeleteTimer \/ IdleFrees \/ TimerTaskFrees PROVE MemoryInv'
<1>1. CASE DeleteOne
  <2>1. PICK c \in Calls("unmake") :
          obj[c.on].kind # "none" /\ Put(c.on, NoObject) /\ Frees(c.on, FromHeap(obj[c.on].own))
    BY <1>1 DEF DeleteOne
  <2>2. c \in TaskCalls /\ c.op = "unmake" BY Called
  <2>3. c.on \in Things BY <2>2, OtherCallKnown
  <2> QED BY <2>1, <2>3, GoneDeals
<1>2. CASE \E kind \in {"dead thread", "deleted timer"} : Reap(kind)
  <2>1. PICK x \in Things : obj[x].kind # "none" /\ Put(x, NoObject) /\ Frees(x, FromHeap(obj[x].own))
    BY <1>2 DEF Reap
  <2> QED BY <2>1, GoneDeals
<1>3. CASE DeleteTimer
  <2>1. PICK c \in Calls("unmake") :
          /\ obj[c.on].kind = "timer"
          /\ Put(c.on, [kind |-> "deleted timer", own |-> Tail(obj[c.on].own)])
          /\ Frees(c.on, <<Head(obj[c.on].own)>>)
    BY <1>3 DEF DeleteTimer
  <2>2. c \in TaskCalls /\ c.op = "unmake" BY Called
  <2>3. c.on \in Things BY <2>2, OtherCallKnown
  <2> DEFINE x == c.on
             own == obj[x].own
             o1 == [kind |-> "deleted timer", own |-> Tail(own)]
             blocks == <<Head(own)>>
  <2>4. Parcel(own) /\ own # <<>> /\ obj[x].kind # "none" BY <2>1, <2>3, OwnKnown
  <2>5. DOMAIN o1 = {"kind", "own"} /\ o1.kind = "deleted timer" /\ o1.own = Tail(own) OBVIOUS
  <2>6. Put(x, o1) /\ Frees(x, blocks) /\ x \in Things BY <2>1, <2>3
  <2> HIDE DEF o1, own
  <2>7. /\ Parcel(Tail(own)) /\ Parcel(blocks) /\ Blocks(blocks) = {Head(own)} \ {Outside}
        /\ Head(own) \notin Blocks(Tail(own)) /\ Blocks(own) = Blocks(Tail(own)) \cup ({Head(own)} \ {Outside})
    BY <2>4, ParcelOpened
  <2>8. OfObject(o1) = Tail(own) BY <2>5 DEF OfObject
  <2> HIDE DEF x, blocks
  <2>9. /\ Parcel(OfObject(o1)) /\ Blocks(blocks) \cap Blocks(OfObject(o1)) = {}
        /\ Blocks(blocks) \cup Blocks(OfObject(o1)) = Blocks(obj[x].own)
        /\ DOMAIN o1 = {"kind", "own"} /\ o1.kind # "timer"
    BY <2>5, <2>7, <2>8 DEF own
  <2> QED BY <2>4, <2>6, <2>7, <2>9, FreesDeals
<1> QED BY <1>1, <1>2, <1>3 DEF IdleFrees, TimerTaskFrees

LEMMA ThreadExitsDeals == ASSUME ServicesInv, MemoryInv, ThreadExits PROVE MemoryInv'
<1>1. PICK x \in Things : obj[x].kind = "thread" /\ Put(x, [obj[x] EXCEPT !.kind = "dead thread"])
  BY DEF ThreadExits
<1> DEFINE o1 == [obj[x] EXCEPT !.kind = "dead thread"]
           t == k.cur
           f == frame[t]
<1>2. /\ Parcel(obj[x].own) /\ DOMAIN obj[x] = {"kind", "own"} BY <1>1, OwnKnown
<1>3. DOMAIN o1 = {"kind", "own"} /\ o1.kind = "dead thread" /\ o1.own = obj[x].own BY <1>2
<1>4. Put(x, o1) /\ UNCHANGED <<pc, frame, program, heap>> /\ pc[t] = "user" BY <1>1 DEF ThreadExits
<1> HIDE DEF o1
<1>5. Trades(t, f, x, o1)
  <2>1. Things \subseteq Names BY DEF Names
  <2> QED BY <1>4, <2>1, Running DEF Trades, Put
<1>6. OfCall(f) = <<>> /\ f.op \notin Making BY <1>4, AtHome
<1>7. OfObject(o1) = obj[x].own /\ OfObject(obj[x]) = obj[x].own BY <1>1, <1>3 DEF OfObject
<1>8. f.op # "make" BY <1>6 DEF Making
<1> HIDE DEF f, t
<1>9. \/ o1 = NoObject
      \/ /\ DOMAIN o1 = {"kind", "own"} /\ (o1.kind = "timer" => o1.own # <<>>)
         /\ obj[x].kind # "none"
  BY <1>1, <1>3
<1>10. OwnersSound' BY <1>5, <1>8, <1>9, Leftover
<1>11. /\ Parcel(OfCall(f)) /\ Parcel(OfObject(o1)) /\ Blocks(OfCall(f)) = {} /\ UNCHANGED heap
       /\ Blocks(OfObject(o1)) = Blocks(OfObject(obj[x])) /\ OfCall(frame[t]) = <<>>
  BY <1>2, <1>4, <1>6, <1>7, EmptyParcel DEF f
<1>12. OfCall(frame[t]) = OfCall(f) BY DEF f
<1>13. /\ Blocks(OfCall(f)) \cap Blocks(OfObject(o1)) = {}
       /\ Blocks(OfCall(f)) \cup Blocks(OfObject(o1)) = Blocks(OfCall(frame[t])) \cup Blocks(OfObject(obj[x]))
  BY <1>11, <1>12
<1> QED BY <1>5, <1>10, <1>11, <1>13, SameHands, Zenon
LEMMA DeleteAtOnceDeals == ASSUME ServicesInv, MemoryInv, DeleteAtOnce PROVE MemoryInv'
<1>1. PICK c \in Calls("unmake") :
        /\ obj[c.on].kind \in {"thread", "pool"} /\ Moves("user", "user", ResumeAll(SuspendAll(k)))
        /\ UNCHANGED frame /\ Put(c.on, NoObject)
        /\ heap' = FoldLeft(Freed, heap, FromHeap(obj[c.on].own))
  BY DEF DeleteAtOnce
<1> DEFINE x == c.on
           t == k.cur
           f == frame[t]
           s == FromHeap(obj[x].own)
<1>2. c \in TaskCalls /\ c.op = "unmake" BY Called
<1>3. x \in Things BY <1>2, OtherCallKnown
<1>4. /\ Parcel(s) /\ Blocks(s) = Blocks(obj[x].own) /\ s \in Seq(HeapBlock) /\ Blocks(s) \subseteq heap.used
  BY <1>1, <1>3, OwnKnown
<1>5. heap' = FoldLeft(Freed, heap, s) /\ Put(x, NoObject) /\ UNCHANGED <<frame, program>> /\ pc[t] = "user"
  BY <1>1 DEF Moves
<1> HIDE DEF s
<1>6. Accounted(heap') /\ heap'.used = heap.used \ Blocks(s) BY <1>4, <1>5, OneOwner, AllFreed
<1>7. Trades(t, f, x, NoObject)
  <2>1. Things \subseteq Names BY DEF Names
  <2> QED BY <1>3, <1>5, <2>1, Running DEF Trades, Put
<1>8. OfCall(f) = <<>> /\ f.op # "make" BY <1>5, AtHome DEF Making
<1>9. OfObject(NoObject) = <<>> /\ OfObject(obj[x]) = obj[x].own BY <1>1 DEF OfObject, NoObject
<1> HIDE DEF f, t, x
<1>10. OwnersSound' BY <1>7, <1>8, Leftover
<1> DEFINE none == {}
           gone == Blocks(s)
<1>11. none \cap heap.used = {} /\ gone \subseteq Blocks(OfCall(frame[t])) \cup Blocks(OfObject(obj[x]))
  BY <1>4, <1>9
<1>12. /\ Parcel(OfCall(f)) /\ Parcel(OfObject(NoObject)) /\ Blocks(OfCall(f)) \cap Blocks(OfObject(NoObject)) = {}
  BY <1>8, <1>9, EmptyParcel
<1>13. Blocks(OfCall(f)) \cup Blocks(OfObject(NoObject))
         = (Blocks(OfCall(frame[t])) \cup Blocks(OfObject(obj[x])) \cup none) \ gone
  BY <1>4, <1>8, <1>9, EmptyParcel DEF f
<1>14. heap'.used = (heap.used \cup none) \ gone BY <1>6
<1> HIDE DEF none, gone
<1> QED BY <1>6, <1>7, <1>10, <1>11, <1>12, <1>13, <1>14, Traded, Zenon

(* What the application allocates for itself is nobody else's.               *)
LEMMA ForItselfKnown ==
  ASSUME ServicesInv, MemoryInv
  PROVE  /\ \A x \in Owners : Parcel(Held[x]) /\ Owned(x) = Blocks(Held[x])
         /\ \A b : ForItself(b) <=> \A x \in Owners : b \notin Blocks(Held[x])
<1>1. ASSUME NEW x \in Owners PROVE Parcel(Held[x]) /\ Owned(x) = Blocks(Held[x])
  <2> DEFINE own == Held[x]
  <2>1. Parcel(own) BY OneOwner DEF Dealt
  <2>2. own = IF x \in Task
                THEN IF frame[x].op \in {"make", "unmake"} THEN frame[x].have ELSE <<>>
                ELSE IF obj[x].kind = "none" THEN <<>> ELSE obj[x].own
    BY <1>1 DEF Held, OfCall, OfObject, Making
  <2>3. Owned(x) = ToSet(FromHeap(own)) BY <2>2 DEF Owned
  <2> HIDE DEF own
  <2>4. ToSet(FromHeap(own)) = Blocks(own) BY <2>1, ParcelFromHeap
  <2> QED BY <2>1, <2>3, <2>4 DEF own
<1> QED BY <1>1, Zenon DEF ForItself
LEMMA HeapUseQuiet ==
  ASSUME ServicesInv, MemoryInv, NEW c, HeapUse(c), c.op \in {"malloc", "free"}
  PROVE  Held' = Held /\ OwnersSound' /\ program' = program
<1> DEFINE f == [op |-> c.op, on |-> Nothing, next |-> "user", blocks |-> FALSE]
           t == k.cur
<1>1. pc[t] = "user" /\ Enter(f) /\ UNCHANGED <<obj, program>> BY DEF HeapUse, HeapCall, Moves
<1>2. f.op \in {"malloc", "free"} OBVIOUS
<1>3. OfCall(frame[t]) = <<>> /\ t \in Task /\ OwnersSound BY <1>1, AtHome, OneOwner
<1>4. \A u \in Task \ {t} : frame'[u] = frame[u] BY <1>1, Running DEF Enter
<1>5. frame'[t] = f BY <1>1, Running DEF Enter
<1> HIDE DEF f, t
<1>6. OfCall(f) = <<>> /\ f.op # "make" BY <1>2 DEF OfCall, Making
<1>7. \A u \in Task : OfCall(frame'[u]) = OfCall(frame[u]) BY <1>3, <1>4, <1>5, <1>6
<1>8. Held' = Held
  <2>1. \A x \in Owners : (IF x \in Task THEN OfCall(frame'[x]) ELSE OfObject(obj'[x]))
                          = IF x \in Task THEN OfCall(frame[x]) ELSE OfObject(obj[x])
    BY <1>1, <1>7
  <2>2. Held' = [x \in Owners |-> IF x \in Task THEN OfCall(frame'[x]) ELSE OfObject(obj'[x])]
    BY DEF Held, OfCall, OfObject
  <2> QED BY <2>1, <2>2 DEF Held
<1>9. \A u \in Task : frame'[u].op = "make" => Wants(frame'[u], u, obj', program')
  <2> TAKE u \in Task
  <2>1. CASE u = t BY <1>5, <1>6, <2>1
  <2>2. CASE u # t BY <1>1, <1>3, <1>4, <2>2 DEF OwnersSound
  <2> QED BY <2>1, <2>2
<1>10. OwnersSound' BY <1>1, <1>3, <1>9 DEF OwnersSound, Wants
<1> QED BY <1>1, <1>8, <1>10
LEMMA HeapCallsDeal == ASSUME ServicesInv, MemoryInv, TaskMalloc \/ TaskFree PROVE MemoryInv'
<1> DEFINE h == Held
           used == heap.used
<1>1. /\ Accounted(heap) /\ Dealt(h, used) /\ used \subseteq HeapBlock
      /\ \A b : ForItself(b) <=> \A x \in Owners : b \notin Blocks(h[x])
      /\ Frugal => AllDealt(h, used)
  BY OneOwner, ForItselfKnown DEF MemoryInv
<1>2. ASSUME Held' = Held, OwnersSound', program' = program, Accounted(heap'), Dealt(h, heap'.used),
             Frugal => AllDealt(h, heap'.used)
      PROVE  MemoryInv'
  BY <1>2 DEF MemoryInv, Dealt, AllDealt, Accounted, Frugal
<1>3. CASE TaskMalloc
  <2>1. PICK c \in Calls("malloc") :
          HeapUse(c) /\ (UNCHANGED heap \/ \E b \in heap.free : Malloc(c.bytes, b))
    BY <1>3 DEF TaskMalloc
  <2>2. c \in TaskCalls /\ c.op = "malloc" /\ c \in program.calls[k.cur] /\ k.cur \in Task BY Called, OneOwner DEF Calls
  <2>3. Held' = Held /\ OwnersSound' /\ program' = program BY <2>1, <2>2, HeapUseQuiet
  <2>4. ~Frugal BY <2>2 DEF Frugal
  <2>5. CASE UNCHANGED heap
    <3>1. Accounted(heap') /\ heap'.used = used BY <1>1, <2>5
    <3> HIDE DEF h, used
    <3> QED BY <1>1, <1>2, <2>3, <2>4, <3>1
  <2>6. CASE \E b \in heap.free : Malloc(c.bytes, b)
    <3>1. PICK b \in heap.free : Malloc(c.bytes, b) BY <2>6
    <3> DEFINE n == c.bytes
               part == Taken(n, b)
    <3>2. n \in Nat
      BY <2>2 DEF TaskCalls, QueueCalls, GroupCalls, StreamCalls, Transfers, TimerCalls, Commanded, MemoryCalls,
                  Puts, Timely, Plain, Some
    <3>3. Malloc(n, b) BY <3>1
    <3> HIDE DEF n
    <3>4. Accounted(heap)' /\ heap'.used = heap.used \cup {part} BY <1>1, <3>2, <3>3, MallocAccounts
    <3>5. Accounted(heap') BY <3>4 DEF Accounted
    <3> HIDE DEF part, h, used
    <3>6. Dealt(h, heap'.used) BY <1>1, <3>4 DEF Dealt, used
    <3> QED BY <1>2, <2>3, <2>4, <3>5, <3>6
  <2> QED BY <2>1, <2>5, <2>6
<1>4. CASE TaskFree
  <2>1. PICK c \in Calls("free"), b \in heap.used : ForItself(b) /\ HeapUse(c) /\ FreeMemory(b) BY <1>4 DEF TaskFree
  <2>2. c \in TaskCalls /\ c.op = "free" BY Called
  <2>3. Held' = Held /\ OwnersSound' /\ program' = program BY <2>1, <2>2, HeapUseQuiet
  <2>4. heap' = Freed(heap, b) BY <2>1 DEF FreeMemory
  <2>5. Accounted(heap') /\ heap'.used = used \ {b} BY <1>1, <2>1, <2>4, FreedAccounts
  <2>6. \A x \in Owners : b \notin Blocks(h[x]) BY <1>1, <2>1
  <2> HIDE DEF h, used
  <2>7. Dealt(h, heap'.used) BY <1>1, <2>5, <2>6 DEF Dealt
  <2>8. Frugal => AllDealt(h, heap'.used) BY <1>1, <2>5 DEF AllDealt
  <2> QED BY <1>2, <2>3, <2>5, <2>7, <2>8
<1> QED BY <1>3, <1>4

-----------------------------------------------------------------------------
(* The other steps move no memory.                                           *)
Unmoved == (\A x \in Things : obj'[x] = obj[x]) /\ UNCHANGED program
LEMMA QuietKeeps == ASSUME ServicesInv, MemoryInv, Quiet, Unmoved, UNCHANGED heap PROVE MemoryInv'
<1>1. OwnersSound /\ Accounted(heap) /\ Dealt(Held, heap.used) /\ (Frugal => AllDealt(Held, heap.used)) BY DEF MemoryInv
<1>2. \A t \in Task : OfCall(frame'[t]) = OfCall(frame[t]) BY DEF Quiet, OfCall
<1>3. Held' = Held
  <2>1. \A x \in Owners : (IF x \in Task THEN OfCall(frame'[x]) ELSE OfObject(obj'[x]))
                          = IF x \in Task THEN OfCall(frame[x]) ELSE OfObject(obj[x])
    BY <1>2 DEF Owners, Unmoved
  <2>2. Held' = [x \in Owners |-> IF x \in Task THEN OfCall(frame'[x]) ELSE OfObject(obj'[x])]
    BY DEF Held, OfCall, OfObject
  <2> QED BY <2>1, <2>2 DEF Held
<1>4. OwnersSound'
  <2>1. ASSUME NEW t \in Task, frame'[t].op = "make" PROVE Wants(frame[t], t, obj, program)'
    <3>1. frame'[t] = frame[t] /\ frame[t].op \in Making BY <2>1 DEF Quiet, Making
    <3>2. Wants(frame[t], t, obj, program) BY <1>1, <2>1, <3>1 DEF OwnersSound
    <3>3. Places(pc[t], frame[t], t, obj, program) BY DEF ServicesInv, Control
    <3>4. frame[t].on \in Things BY <3>1, <3>3, MakerKnown DEF Owning
    <3> QED BY <3>1, <3>2, <3>4 DEF Wants, Unmoved
  <2>2. \A x \in Things : obj'[x].kind # "none" =>
          DOMAIN obj'[x] = {"kind", "own"} /\ (obj'[x].kind = "timer" => obj'[x].own # <<>>)
    BY <1>1 DEF OwnersSound, Unmoved
  <2> QED BY <2>1, <2>2 DEF OwnersSound
<1>5. Accounted(heap)' BY <1>1 DEF Accounted
<1>6. heap'.used = heap.used /\ (Frugal' <=> Frugal) BY DEF Frugal, Unmoved
<1>7. MemoryInv' <=> Dealt(Held', heap'.used) /\ (Frugal' => AllDealt(Held', heap'.used))
  BY <1>4, <1>5 DEF MemoryInv, Dealt, AllDealt
<1> QED BY <1>1, <1>3, <1>6, <1>7
LEMMA ThingsUnmoved ==
  ASSUME NEW S, Only(S), S \cap Things = {}
  PROVE  \A x \in Things : obj'[x] = obj[x]
BY DEF Only, Names
Quietly == QuietMove \/ UNCHANGED frame
LEMMA QuietlyIsQuiet ==
  ASSUME ServicesInv, ServicesInv', Quietly
  PROVE  Quiet
BY MovesQuietly DEF Quiet, Quietly
LEMMA ProgramKept ==
  ASSUME QueueSteps \/ PoolSteps \/ GroupSteps \/ StreamSteps \/ TimerSteps
  PROVE  UNCHANGED program
<1>1. CASE QueueSteps
  BY <1>1 DEF QueueSteps, TryToSend, TryToReceive, TryToPeek, TryToTake, Try, TryInVain, TryAsserts, TryWaits, Suspend,
     UnlockTx, UnlockRx, Lock, Place, Final, DisinheritStep, CountTake, GiveRecursive, TakeAgain, Reset, New, Delete,
     SendFromISR, SendsFromISR, ReceiveFromISR, PeekFromISR, FromISR, Goes, Returns, Moves
<1>2. CASE PoolSteps BY <1>2 DEF PoolSteps, Allot, Free, AllocFromISR, FreeFromISR, FromISR, Returns, Moves
<1>3. CASE GroupSteps
  BY <1>3 DEF GroupSteps, SetBitsStep, DeleteGroup, WaitBits, Sync, Woken, ClearBits, CreateGroup, Returns, Moves
<1>4. CASE StreamSteps
  BY <1>4 DEF StreamSteps, StreamSend, StreamReceive, Room, Expired, Measure, Look, Length, Sleep, Slept, Forget, PutData,
     Copy, Tell, NotifyOther, NextMessageLength, StreamReset, SetTriggerLevel, StreamCreate, StreamDelete,
     StreamSendFromISR, StreamReceiveFromISR, FromISR, Goes, Returns, Moves
<1>5. CASE TimerSteps
  <2>1. CASE TimerLook \/ SwitchDone \/ SleepUntil BY <2>1 DEF TimerLook, SwitchDone, SleepUntil, Goes, Moves
  <2>2. CASE SwitchOne \/ Expire \/ Act \/ Call
    <3>1. ASSUME NEW c, NEW o, NEW m, NEW to, SendsIf(c, o, m, to) PROVE UNCHANGED program
      BY <3>1 DEF SendsIf, Sends, Moves
    <3> QED BY <2>2, <3>1, Zenon DEF SwitchOne, Expire, Act, Call, Moves
  <2>3. CASE Await \/ SampleTime \/ NextCommand BY <2>3 DEF Await, SampleTime, NextCommand, Goes, Returns, Moves
  <2>4. CASE SendCommand \/ PendCall \/ CommandFromISR \/ PendCallFromISR \/ SetReloadMode
    BY <2>4 DEF SendCommand, PendCall, CommandFromISR, PendCallFromISR, SendsFromISR, SetReloadMode, FromISR, Moves
  <2> QED BY <1>5, <2>1, <2>2, <2>3, <2>4 DEF TimerSteps
<1> QED BY <1>1, <1>2, <1>3, <1>4, <1>5
LEMMA ServicesQuiet ==
  ASSUME ServicesInv, ServicesInv', QueueSteps \/ PoolSteps \/ GroupSteps \/ StreamSteps \/ TimerSteps
  PROVE  Quiet /\ Unmoved
<1>1. Quietly BY QueuesQuiet, PoolsQuiet, GroupsQuiet, StreamsQuiet, TimersQuiet DEF Quietly
<1>2. Quiet BY <1>1, QuietlyIsQuiet
<1> DEFINE Still == \A x \in Things : obj'[x] = obj[x]
<1>3. QueueSteps \/ PoolSteps => Still
  <2>1. QueueObjects \cap Things = {} BY Assumed DEF QueueObjects
  <2> QED BY <2>1, QueuesApart, ThingsUnmoved
<1>4. GroupSteps => Still
  <2>1. Groups \cap Things = {} BY Assumed
  <2> QED BY <2>1, GroupsApart, ThingsUnmoved
<1>5. StreamSteps => Still
  <2>1. Streams \cap Things = {} BY Assumed
  <2> QED BY <2>1, StreamsApart, ThingsUnmoved
<1>6. TimerSteps => Still
  <2>1. ({"timers", TimerQueue} \cup Groups) \cap Things = {} BY Assumed
  <2> QED BY <2>1, TimersApart, ThingsUnmoved
<1> QED BY <1>2, <1>3, <1>4, <1>5, <1>6, ProgramKept DEF Unmoved
LEMMA KernelQuiet ==
  ASSUME ServicesInv, ServicesInv', OwnCode \/ Interrupts \/ Resume \/ YieldWithinAPI \/ Delay
  PROVE  Quiet /\ Unmoved
<1>1. UNCHANGED obj BY DEF OwnCode, Interrupts, Resume, YieldWithinAPI, Delay, objectVars
<1>2. UNCHANGED program
  BY Zenon DEF OwnCode, Interrupts, SysTick, PendSV, AssertFailed, schedVars, Resume, YieldWithinAPI, Delay, objectVars, Moves
<1>3. OwnCode \/ Interrupts => UNCHANGED frame
  BY Zenon DEF OwnCode, Interrupts, SysTick, PendSV, AssertFailed, schedVars, objectVars
<1>4. OwnCode \/ Interrupts \/ Delay => Quietly BY <1>3, DelayQuiet DEF Quietly
<1>5. Quiet BY <1>4, QuietlyIsQuiet, ResumeQuiet
<1> QED BY <1>1, <1>2, <1>5 DEF Unmoved
LEMMA NextDeals == ASSUME ServicesInv, MemoryInv, [Next]_serviceVars PROVE MemoryInv'
<1>1. ServicesInv' BY NextKeeps
<1>2. CASE TaskMalloc \/ TaskFree BY <1>2, HeapCallsDeal
<1>3. CASE OwnerSteps
  BY <1>3, MakeDeals, ObtainDeals, SuppliedDeals, RefusedDeals, MadeDeals, GiveBackDeals, DeleteAtOnceDeals, DeletesDeal,
     ThreadExitsDeals DEF OwnerSteps
<1>4. CASE (QueueSteps \/ GroupSteps \/ StreamSteps \/ TimerSteps \/ PoolSteps) /\ UNCHANGED heap
  BY <1>1, <1>4, ServicesQuiet, QuietKeeps
<1>5. CASE (OwnCode \/ Interrupts \/ Resume \/ YieldWithinAPI \/ Delay) /\ UNCHANGED heap
  BY <1>1, <1>5, KernelQuiet, QuietKeeps
<1>6. CASE UNCHANGED serviceVars
  <2>1. Quiet /\ Unmoved /\ UNCHANGED heap BY <1>6 DEF serviceVars, Quiet, Unmoved
  <2> QED BY <2>1, QuietKeeps
<1> QED BY <1>2, <1>3, <1>4, <1>5, <1>6 DEF Next
LEMMA InitDeals == ASSUME Init PROVE MemoryInv
<1> DEFINE b == [at |-> 0, size |-> HeapSize]
<1>1. b \in HeapBlock /\ b.size = HeapSize BY HeapAssumption DEF HeapBlock
<1>2. heap.free = {b} /\ heap.used = {} /\ heap.remaining = HeapSize /\ heap.least = HeapSize
  BY DEF Init, HeapInit
<1>3. Intact(heap) BY HeapInitHolds DEF Init, HeapInv
<1> HIDE DEF b
<1>4. Sizes({b}) = HeapSize
  <2>1. IsFiniteSet({b}) BY FS_Singleton
  <2>2. Sizes({b}) = b.size + Sizes({b} \ {b}) /\ Sizes({}) = 0 BY <1>1, <2>1, SizesAdd
  <2>3. {b} \ {b} = {} OBVIOUS
  <2> QED BY <1>1, <2>2, <2>3, HeapAssumption
<1>5. Accounted(heap)
  <2>1. IsFiniteSet(heap.free) BY <1>2, FS_Singleton
  <2> QED BY <1>2, <1>3, <1>4, <2>1, HeapAssumption DEF Accounted
<1>6. \A t \in Task : frame[t].op = "none" BY DEF Init, NoCall
<1>7. \A x \in Things : obj[x].kind = "none"
  <2>1. Provided(program) BY Assumed DEF Init, Sensible
  <2> QED BY <2>1 DEF Init, Provided, NoObject
<1>8. \A x \in Owners : Held[x] = <<>> BY <1>6, <1>7 DEF Held, Owners, OfCall, OfObject, Making
<1>9. OwnersSound BY <1>6, <1>7 DEF OwnersSound
<1>10. Dealt(Held, heap.used)
  <2>1. \A x \in Owners : Parcel(Held[x]) /\ Blocks(Held[x]) = {} BY <1>8, EmptyParcel
  <2> QED BY <2>1 DEF Dealt
<1>11. AllDealt(Held, heap.used) BY <1>2 DEF AllDealt
<1> QED BY <1>5, <1>9, <1>10, <1>11 DEF MemoryInv

LEMMA MemorySound == ASSUME ServicesInv, MemoryInv PROVE MemoryAccounted /\ HeapSound
<1>1. \A x \in Owners : Owned(x) = Blocks(Held[x]) BY ForItselfKnown
<1>2. \A b : ForItself(b) <=> \A x \in Owners : b \notin Blocks(Held[x]) BY ForItselfKnown
<1>3. Dealt(Held, heap.used) /\ (Frugal => AllDealt(Held, heap.used)) /\ Accounted(heap) BY DEF MemoryInv
<1>4. \A x \in Owners : Owned(x) \subseteq heap.used BY <1>1, <1>3 DEF Dealt
<1>5. \A x, y \in Owners : x # y => Owned(x) \cap Owned(y) = {} BY <1>1, <1>3 DEF Dealt
<1>6. Frugal => \A b \in heap.used : ~ForItself(b) BY <1>2, <1>3 DEF AllDealt
<1>7. NothingLeaks BY <1>4, <1>5, <1>6, Zenon DEF NothingLeaks, Frugal
<1>8. BytesCounted BY <1>3 DEF BytesCounted, Accounted, Sizes
<1>9. HeapSound BY <1>3, IntactIsSound DEF Accounted, HeapInv
<1> QED BY <1>7, <1>8, <1>9 DEF MemoryAccounted

(* Whatever the tasks of any program make, delete, allocate and free, and    *)
(* whichever step of a creation finds the heap exhausted: what belongs to an *)
(* object or to a call is in use and belongs to nobody else, nothing is lost *)
(* (ucStaticallyAllocated, and what the wrapper frees after a failure), and  *)
(* xFreeBytesRemaining counts the free blocks.                               *)
THEOREM MemoryIsAccounted == Spec => []MemoryAccounted
<1>1. Init => MemoryInv BY InitDeals
<1>2. ServicesInv /\ MemoryInv /\ [Next]_serviceVars => MemoryInv' BY NextDeals
<1>3. ServicesInv /\ MemoryInv => MemoryAccounted BY MemorySound
<1> QED BY <1>1, <1>2, <1>3, ServicesSound, PTL DEF Spec
(* The heap the services share stays sound, too: no unit of it is in two     *)
(* blocks or in none, and no two free blocks lie side by side.               *)
THEOREM ServicesHeapSound == Spec => []HeapSound
<1>1. Init => MemoryInv BY InitDeals
<1>2. ServicesInv /\ MemoryInv /\ [Next]_serviceVars => MemoryInv' BY NextDeals
<1>3. ServicesInv /\ MemoryInv => HeapSound BY MemorySound
<1> QED BY <1>1, <1>2, <1>3, ServicesSound, PTL DEF Spec

-----------------------------------------------------------------------------
(* Memory pools.  A task has a part of a pool in hand while it has the       *)
(* semaphore and has not been to the list, or has given its block back and   *)
(* not yet the semaphore.                                                    *)
InHand(p) == {t \in Task : (pc[t] = "allot" \/ frame[t].op = "send") /\ frame[t].on = p}
PoolFields == {"blocks", "created", "taken"}
(* A pool of which so many parts are in hand.                                 *)
Backed(o, m) ==
  /\ PoolFields \subseteq DOMAIN o /\ o.blocks \in Seq(Nat) /\ IsInjective(o.blocks)
  /\ ToSet(o.blocks) \cap o.taken = {} /\ ToSet(o.blocks) \cup o.taken = 0 .. o.created - 1
  /\ o.created \in Nat /\ o.created <= o.len
  /\ Cardinality(o.taken) + m <= o.len - o.n
PoolsBacked == \A p \in Queues : obj[p].kind = "pool" => Backed(obj[p], Cardinality(InHand(p)))

LEMMA Listed ==
  ASSUME NEW o, NEW m \in Nat, Stocked(o, Items), Backed(o, m)
  PROVE  /\ IsFiniteSet(o.taken) /\ o.taken \subseteq Nat /\ Cardinality(o.taken) \in Nat
         /\ o.len \in Nat /\ o.n \in Nat /\ o.n <= o.len
         /\ o.blocks = <<>> => o.taken = 0 .. o.created - 1 /\ Cardinality(o.taken) = o.created
<1>1. IsFiniteSet(0 .. o.created - 1) /\ Cardinality(0 .. o.created - 1) = o.created
  <2> DEFINE c == o.created - 1
  <2>1. c \in Int /\ (0 > c => o.created = 0) /\ c - 0 + 1 = o.created /\ 0 \in Int BY DEF Backed
  <2> HIDE DEF c
  <2>2. IsFiniteSet(0 .. c) /\ Cardinality(0 .. c) = IF 0 > c THEN 0 ELSE c - 0 + 1 BY <2>1, FS_Interval
  <2>3. Cardinality(0 .. c) = o.created BY <2>1, <2>2
  <2> QED BY <2>2, <2>3 DEF c
<1>2. o.taken \subseteq 0 .. o.created - 1 /\ 0 .. o.created - 1 \subseteq Nat BY DEF Backed
<1>3. IsFiniteSet(o.taken) BY <1>1, <1>2, FS_Subset
<1>4. Cardinality(o.taken) \in Nat BY <1>3, FS_CardinalityType
<1>5. o.blocks = <<>> => ToSet(o.blocks) = {} BY DEF ToSet
<1>6. o.blocks = <<>> => o.taken = 0 .. o.created - 1 BY <1>5 DEF Backed
<1> QED BY <1>1, <1>2, <1>3, <1>4, <1>6 DEF Stocked, Some
(* The same list, and the semaphore counts d more.                           *)
SameList(o, o1) ==
  /\ PoolFields \subseteq DOMAIN o1 /\ o1.blocks = o.blocks /\ o1.created = o.created /\ o1.taken = o.taken
  /\ o1.len = o.len
LEMMA StillBacked ==
  ASSUME NEW o, NEW m \in Nat, Stocked(o, Items), Backed(o, m), NEW o1, SameList(o, o1),
         NEW n \in Nat, o1.n \in Int, n + o1.n <= m + o.n
  PROVE  Backed(o1, n)
<1>1. Cardinality(o.taken) \in Nat /\ o.len \in Nat /\ o.n \in Nat BY Listed
<1>2. Cardinality(o.taken) + m <= o.len - o.n BY DEF Backed
<1>3. Cardinality(o.taken) + n <= o.len - o1.n BY <1>1, <1>2
<1>4. /\ PoolFields \subseteq DOMAIN o1 /\ o1.blocks = o.blocks /\ o1.created = o.created /\ o1.taken = o.taken
      /\ o1.len = o.len
  BY DEF SameList
<1> QED BY <1>3, <1>4, Zenon DEF Backed
LEMMA BlockTaken ==
  ASSUME NEW o, NEW m \in Nat, m > 0, Stocked(o, Items), Backed(o, m)
  PROVE  Backed(WithoutBlock(o), m - 1) /\ WithoutBlock(o).n = o.n
<1> DEFINE o1 == WithoutBlock(o)
<1>1. /\ IsFiniteSet(o.taken) /\ o.taken \subseteq Nat /\ Cardinality(o.taken) \in Nat
      /\ o.len \in Nat /\ o.n \in Nat /\ o.n <= o.len
      /\ o.blocks = <<>> => o.taken = 0 .. o.created - 1 /\ Cardinality(o.taken) = o.created
  BY Listed
<1>2. /\ PoolFields \subseteq DOMAIN o /\ o.blocks \in Seq(Nat) /\ IsInjective(o.blocks)
      /\ ToSet(o.blocks) \cap o.taken = {} /\ ToSet(o.blocks) \cup o.taken = 0 .. o.created - 1
      /\ o.created \in Nat /\ o.created <= o.len
      /\ Cardinality(o.taken) + m <= o.len - o.n
  BY DEF Backed
<1>3. CASE o.blocks # <<>>
  <2> DEFINE b == Head(o.blocks)
  <2>1. o1 = [o EXCEPT !.blocks = Tail(o.blocks), !.taken = o.taken \cup {b}] BY <1>3 DEF WithoutBlock
  <2>2. /\ DOMAIN o1 = DOMAIN o /\ o1.blocks = Tail(o.blocks) /\ o1.taken = o.taken \cup {b} /\ o1.created = o.created
    BY <1>2, <2>1 DEF PoolFields
  <2>3. o1.len = o.len /\ o1.n = o.n BY <2>1 DEF Stocked, QueueFields
  <2> HIDE DEF o1
  <2>4. /\ Tail(o.blocks) \in Seq(Nat) /\ b \in Nat /\ Len(o.blocks) > 0 /\ b = o.blocks[1]
        /\ Len(Tail(o.blocks)) = Len(o.blocks) - 1
        /\ \A i \in 1 .. Len(o.blocks) - 1 : Tail(o.blocks)[i] = o.blocks[i + 1]
    BY <1>2, <1>3
  <2>5. DOMAIN o.blocks = 1 .. Len(o.blocks) /\ DOMAIN Tail(o.blocks) = 1 .. Len(o.blocks) - 1 BY <1>2, <2>4
  <2>6. IsInjective(Tail(o.blocks))
    <3> DEFINE s == Tail(o.blocks)
    <3>1. \A i \in DOMAIN s : i + 1 \in DOMAIN o.blocks /\ s[i] = o.blocks[i + 1] /\ i \in Int BY <2>4, <2>5
    <3> HIDE DEF s
    <3>2. ASSUME NEW i \in DOMAIN s, NEW j \in DOMAIN s, s[i] = s[j] PROVE i = j
      <4>1. i + 1 = j + 1 BY <1>2, <3>1, <3>2 DEF IsInjective
      <4> QED BY <3>1, <4>1
    <3>3. IsInjective(s) BY <3>2 DEF IsInjective
    <3> QED BY <3>3 DEF s
  <2>7. ToSet(o.blocks) = ToSet(Tail(o.blocks)) \cup {b}
    <3>1. ASSUME NEW i \in DOMAIN o.blocks PROVE o.blocks[i] \in ToSet(Tail(o.blocks)) \cup {b}
      <4>1. CASE i = 1 BY <2>4, <4>1
      <4>2. CASE i # 1
        <5>1. Len(o.blocks) \in Nat /\ i \in 2 .. Len(o.blocks) BY <1>2, <2>5, <4>2
        <5>2. i - 1 \in 1 .. Len(o.blocks) - 1 /\ (i - 1) + 1 = i BY <5>1
        <5>3. i - 1 \in DOMAIN Tail(o.blocks) /\ Tail(o.blocks)[i - 1] = o.blocks[i] BY <2>4, <2>5, <5>2
        <5> QED BY <5>3 DEF ToSet
      <4> QED BY <4>1, <4>2
    <3>2. ASSUME NEW i \in DOMAIN Tail(o.blocks) PROVE Tail(o.blocks)[i] \in ToSet(o.blocks)
      BY <2>4, <2>5 DEF ToSet
    <3>3. b \in ToSet(o.blocks) BY <2>4, <2>5 DEF ToSet
    <3> QED BY <3>1, <3>2, <3>3 DEF ToSet
  <2>8. b \notin ToSet(Tail(o.blocks))
    <3>1. ASSUME NEW i \in DOMAIN Tail(o.blocks), Tail(o.blocks)[i] = b PROVE FALSE
      <4>1. i + 1 \in DOMAIN o.blocks /\ 1 \in DOMAIN o.blocks /\ o.blocks[i + 1] = o.blocks[1] /\ i + 1 # 1
        BY <2>4, <2>5, <3>1
      <4> QED BY <1>2, <4>1 DEF IsInjective
    <3> QED BY <3>1 DEF ToSet
  <2>9. b \notin o.taken BY <1>2, <2>7
  <2>10. Cardinality(o1.taken) = Cardinality(o.taken) + 1 BY <1>1, <2>2, <2>9, FS_AddElement
  <2>11. /\ ToSet(o1.blocks) \cap o1.taken = {} /\ ToSet(o1.blocks) \cup o1.taken = 0 .. o1.created - 1
    BY <1>2, <2>2, <2>7, <2>8
  <2> HIDE DEF b
  <2> QED BY <1>1, <1>2, <2>2, <2>3, <2>4, <2>6, <2>10, <2>11 DEF Backed, o1
<1>4. CASE o.blocks = <<>>
  <2> DEFINE c == o.created
  <2>1. o1 = [o EXCEPT !.created = c + 1, !.taken = o.taken \cup {c}] BY <1>4 DEF WithoutBlock
  <2>2. /\ DOMAIN o1 = DOMAIN o /\ o1.blocks = o.blocks /\ o1.taken = o.taken \cup {c} /\ o1.created = c + 1
    BY <1>2, <2>1 DEF PoolFields
  <2>3. o1.len = o.len /\ o1.n = o.n BY <2>1 DEF Stocked, QueueFields
  <2> HIDE DEF o1
  <2>4. ToSet(o.blocks) = {} BY <1>4 DEF ToSet
  <2>5. o.taken = 0 .. c - 1 /\ Cardinality(o.taken) = c /\ c \in Nat /\ c + m <= o.len - o.n BY <1>1, <1>2, <1>4
  <2> HIDE DEF c
  <2>6. o1.taken = 0 .. o1.created - 1 /\ c \notin o.taken BY <2>2, <2>5
  <2>7. Cardinality(o1.taken) = c + 1
    <3>1. Cardinality(o.taken \cup {c}) = Cardinality(o.taken) + 1 BY <1>1, <2>6, FS_AddElement
    <3> QED BY <2>2, <2>5, <3>1
  <2> QED BY <1>1, <1>2, <2>2, <2>3, <2>4, <2>5, <2>6, <2>7 DEF Backed, o1
<1> QED BY <1>3, <1>4
LEMMA BlockGivenBack ==
  ASSUME NEW o, NEW m \in Nat, Stocked(o, Items), Backed(o, m), NEW b \in o.taken
  PROVE  Backed(FreeBlock(o, b), m + 1) /\ FreeBlock(o, b).n = o.n
<1> DEFINE o1 == FreeBlock(o, b)
           s == <<b>> \o o.blocks
<1>1. /\ IsFiniteSet(o.taken) /\ o.taken \subseteq Nat /\ Cardinality(o.taken) \in Nat
      /\ o.len \in Nat /\ o.n \in Nat
  BY Listed
<1>2. /\ PoolFields \subseteq DOMAIN o /\ o.blocks \in Seq(Nat) /\ IsInjective(o.blocks)
      /\ ToSet(o.blocks) \cap o.taken = {} /\ ToSet(o.blocks) \cup o.taken = 0 .. o.created - 1
      /\ o.created \in Nat /\ o.created <= o.len
      /\ Cardinality(o.taken) + m <= o.len - o.n
  BY DEF Backed
<1>3. o1 = [o EXCEPT !.blocks = s, !.taken = o.taken \ {b}] BY DEF FreeBlock
<1>4. /\ DOMAIN o1 = DOMAIN o /\ o1.blocks = s /\ o1.taken = o.taken \ {b} /\ o1.created = o.created
  BY <1>2, <1>3 DEF PoolFields
<1>5. o1.len = o.len /\ o1.n = o.n BY <1>3 DEF Stocked, QueueFields
<1> HIDE DEF o1
<1>6. b \in Nat /\ <<b>> \in Seq(Nat) BY <1>1
<1>7. /\ s \in Seq(Nat) /\ Len(s) = 1 + Len(o.blocks) /\ s[1] = b
      /\ \A i \in 1 .. Len(o.blocks) : s[i + 1] = o.blocks[i]
  BY <1>2, <1>6
<1>8. DOMAIN s = 1 .. 1 + Len(o.blocks) /\ DOMAIN o.blocks = 1 .. Len(o.blocks) /\ Len(o.blocks) \in Nat BY <1>2, <1>7
<1> HIDE DEF s
<1>9. \A i \in DOMAIN s : i # 1 => i - 1 \in DOMAIN o.blocks /\ s[i] = o.blocks[i - 1]
  BY <1>7, <1>8
<1>10. \A i \in DOMAIN o.blocks : o.blocks[i] # b BY <1>2 DEF ToSet
<1>11. IsInjective(s)
  <2> SUFFICES ASSUME NEW i \in DOMAIN s, NEW j \in DOMAIN s, s[i] = s[j] PROVE i = j
    BY DEF IsInjective
  <2>1. CASE i = 1 \/ j = 1 BY <1>7, <1>9, <1>10, <2>1
  <2>2. CASE i # 1 /\ j # 1
    <3>1. i - 1 = j - 1 BY <1>2, <1>9, <2>2 DEF IsInjective
    <3> QED BY <1>8, <3>1
  <2> QED BY <2>1, <2>2
<1>12. ToSet(s) = ToSet(o.blocks) \cup {b}
  <2>1. ASSUME NEW i \in DOMAIN s PROVE s[i] \in ToSet(o.blocks) \cup {b}
    BY <1>7, <1>9 DEF ToSet
  <2>2. ASSUME NEW i \in DOMAIN o.blocks PROVE o.blocks[i] \in ToSet(s)
    <3>1. i + 1 \in DOMAIN s /\ s[i + 1] = o.blocks[i] BY <1>7, <1>8
    <3> QED BY <3>1 DEF ToSet
  <2>3. b \in ToSet(s) BY <1>7, <1>8 DEF ToSet
  <2> QED BY <2>1, <2>2, <2>3 DEF ToSet
<1>13. Cardinality(o1.taken) = Cardinality(o.taken) - 1 BY <1>1, <1>4, FS_RemoveElement
<1>14. ToSet(o1.blocks) \cap o1.taken = {} /\ ToSet(o1.blocks) \cup o1.taken = 0 .. o1.created - 1
  BY <1>2, <1>4, <1>12
<1>15. IsInjective(o1.blocks) BY <1>4, <1>11
<1>16. Cardinality(o1.taken) + (m + 1) <= o1.len - o1.n BY <1>1, <1>2, <1>5, <1>13
<1>17. Backed(o1, m + 1) BY <1>2, <1>4, <1>5, <1>7, <1>14, <1>15, <1>16 DEF Backed
<1> QED BY <1>5, <1>17 DEF o1

LEMMA PoolAlone ==
  ASSUME ServicesInv, NEW q \in Queues, obj[q].kind = "pool"
  PROVE  /\ AskedOf(program, q, {"send", "reset", "new", "delete"}) = {}
         /\ Raised(program, q, {"send"}) = {} /\ Raised(program, q, {"receive", "peek"}) = {}
<1>1. Suits(program, q) /\ QueueSound(obj[q], q, program)
  BY Assumed DEF ServicesInv, Sensible, ObjectsSound
<1> DEFINE kinds == {o.kind : o \in Makes(program, q)}
<1>2. "pool" \in kinds BY <1>1 DEF QueueSound, NoObject
<1>3. kinds = {"pool"} /\ AskedOf(program, q, {"send", "reset", "new", "delete"}) = {} BY <1>1, <1>2 DEF Suits
<1>4. Raised(program, q, {"send"}) = {} BY <1>1, <1>3 DEF Suits
<1>5. Raised(program, q, {"receive", "peek"}) = {} BY <1>1, <1>3 DEF Suits
<1> QED BY <1>3, <1>4, <1>5
LEMMA HandsCounted ==
  ASSUME ServicesInv, NEW p \in Queues
  PROVE  /\ Cardinality(InHand(p)) \in Nat /\ Cardinality(InHand(p)') \in Nat
         /\ InHand(p)' \subseteq InHand(p) => Cardinality(InHand(p)') <= Cardinality(InHand(p))
         /\ \A t : InHand(p)' \subseteq InHand(p) \cup {t} => Cardinality(InHand(p)') <= Cardinality(InHand(p)) + 1
         /\ \A t \in InHand(p) :
              InHand(p)' \subseteq InHand(p) \ {t} => Cardinality(InHand(p)') <= Cardinality(InHand(p)) - 1
<1> DEFINE h == InHand(p)
           h1 == InHand(p)'
<1>1. h \subseteq Task /\ h1 \subseteq Task BY DEF InHand
<1> HIDE DEF h, h1
<1>2. IsFiniteSet(h) /\ IsFiniteSet(h1) BY <1>1, Assumed, FS_Subset
<1>3. Cardinality(h) \in Nat /\ Cardinality(h1) \in Nat BY <1>2, FS_CardinalityType
<1>4. h1 \subseteq h => Cardinality(h1) <= Cardinality(h) BY <1>2, FS_Subset
<1>5. ASSUME NEW t, h1 \subseteq h \cup {t} PROVE Cardinality(h1) <= Cardinality(h) + 1
  <2>1. IsFiniteSet(h \cup {t}) /\ Cardinality(h \cup {t}) = (IF t \in h THEN Cardinality(h) ELSE Cardinality(h) + 1)
    BY <1>2, FS_AddElement
  <2>2. Cardinality(h1) <= Cardinality(h \cup {t}) BY <1>5, <2>1, FS_Subset
  <2>3. Cardinality(h \cup {t}) <= Cardinality(h) + 1 BY <1>3, <2>1
  <2>4. Cardinality(h \cup {t}) \in Nat BY <2>1, FS_CardinalityType
  <2> QED BY <1>3, <2>2, <2>3, <2>4
<1>6. ASSUME NEW t \in h, h1 \subseteq h \ {t} PROVE Cardinality(h1) <= Cardinality(h) - 1
  <2>1. IsFiniteSet(h \ {t}) /\ Cardinality(h \ {t}) = Cardinality(h) - 1 BY <1>2, FS_RemoveElement
  <2>2. Cardinality(h1) <= Cardinality(h \ {t}) BY <1>6, <2>1, FS_Subset
  <2> QED BY <2>1, <2>2
<1> QED BY <1>3, <1>4, <1>5, <1>6 DEF h, h1
(* What a step does to one pool.                                             *)
StaysBacked(p) == obj'[p].kind = "pool" => Backed(obj'[p], Cardinality(InHand(p)'))
LEMMA PoolKept ==
  ASSUME ServicesInv, PoolsBacked, NEW p \in Queues, InHand(p)' \subseteq InHand(p),
         obj'[p].kind = "pool" => obj[p].kind = "pool" /\ SameList(obj[p], obj'[p]) /\ obj'[p].n = obj[p].n
  PROVE  StaysBacked(p)
<1> SUFFICES ASSUME obj'[p].kind = "pool" PROVE Backed(obj'[p], Cardinality(InHand(p)')) BY DEF StaysBacked
<1> DEFINE o == obj[p]
           o1 == obj'[p]
           m == Cardinality(InHand(p))
           n == Cardinality(InHand(p)')
<1>1. Backed(o, m) /\ SameList(o, o1) /\ o1.n = o.n BY DEF PoolsBacked
<1>2. Stocked(o, Items) BY Stands, Assumed DEF Stock, QueueObjects
<1>3. m \in Nat /\ n \in Nat /\ n <= m BY HandsCounted
<1>4. o1.n \in Int /\ n + o1.n <= m + o.n BY <1>1, <1>2, <1>3 DEF Stocked
<1> HIDE DEF o, o1, m, n
<1>5. Backed(o1, n) BY <1>1, <1>2, <1>3, <1>4, StillBacked
<1> QED BY <1>5 DEF o1, n
LEMMA PoolSame == ASSUME NEW o, NEW m, Backed(o, m) PROVE SameList(o, o)
BY DEF Backed, SameList
LEMMA PoolsStay ==
  ASSUME ServicesInv, PoolsBacked, Untouched, NEW p \in Queues, InHand(p)' \subseteq InHand(p)
  PROVE  StaysBacked(p)
<1>1. obj'[p] = obj[p] BY DEF Untouched
<1>2. obj[p].kind = "pool" => SameList(obj[p], obj[p]) BY PoolSame DEF PoolsBacked
<1> QED BY <1>1, <1>2, PoolKept
(* Where a step leaves what is in hand.                                      *)
LEMMA HandsGo ==
  ASSUME ServicesInv, NEW p \in Queues, NEW from, NEW to, NEW next, Moves(from, to, next), to # "allot",
         \/ UNCHANGED frame
         \/ Leave
         \/ \E f : Enter(f) /\ (f.op = "send" /\ f.on = p => Here.op = "send" /\ Here.on = p)
  PROVE  InHand(p)' \subseteq InHand(p)
<1>1. k.cur \in Task /\ DOMAIN pc = Task /\ DOMAIN frame = Task BY Running
<1>2. pc'[k.cur] # "allot" /\ (\A t \in Task \ {k.cur} : pc'[t] = pc[t]) BY <1>1 DEF Moves
<1>3. \A t \in Task \ {k.cur} : frame'[t] = frame[t] BY <1>1 DEF Leave, Enter
<1>4. frame'[k.cur].op = "send" /\ frame'[k.cur].on = p => Here.op = "send" /\ Here.on = p
  <2>1. NoCall.op # "send" BY DEF NoCall
  <2> QED BY <1>1, <2>1 DEF Leave, Enter, Here
<1>5. ASSUME NEW t \in Task, t \in InHand(p)' PROVE t \in InHand(p)
  <2>1. (pc'[t] = "allot" \/ frame'[t].op = "send") /\ frame'[t].on = p BY <1>5 DEF InHand
  <2>2. CASE t = k.cur
    <3>1. Here.op = "send" /\ Here.on = p BY <1>2, <1>4, <2>1, <2>2
    <3> QED BY <2>2, <3>1 DEF InHand, Here
  <2>3. CASE t # k.cur BY <1>2, <1>3, <2>1, <2>3 DEF InHand
  <2> QED BY <2>2, <2>3
<1> QED BY <1>5 DEF InHand
LEMMA HandsStill ==
  ASSUME UNCHANGED <<pc, frame>>, NEW p
  PROVE  InHand(p)' \subseteq InHand(p)
BY DEF InHand
LEMMA HandsLeave ==
  ASSUME ServicesInv, NEW p \in Queues, NEW from, NEW to, NEW next, Moves(from, to, next), Leave, to # "allot"
  PROVE  InHand(p)' \subseteq InHand(p) \ {k.cur}
<1>1. InHand(p)' \subseteq InHand(p) BY HandsGo
<1>2. k.cur \in Task /\ DOMAIN pc = Task /\ DOMAIN frame = Task BY Running
<1>3. pc'[k.cur] # "allot" /\ frame'[k.cur].op # "send" BY <1>2 DEF Moves, Leave, NoCall
<1>4. k.cur \notin InHand(p)' BY <1>3 DEF InHand
<1> QED BY <1>1, <1>4
LEMMA HandsEnter ==
  ASSUME ServicesInv, NEW p \in Queues, NEW from, NEW to, NEW next, Moves(from, to, next), NEW f, Enter(f)
  PROVE  InHand(p)' \subseteq InHand(p) \cup {k.cur}
<1>1. k.cur \in Task /\ DOMAIN pc = Task /\ DOMAIN frame = Task BY Running
<1>2. \A t \in Task \ {k.cur} : pc'[t] = pc[t] /\ frame'[t] = frame[t] BY <1>1 DEF Moves, Enter
<1> QED BY <1>2 DEF InHand

(* The other services' steps touch no pool, nor what is in hand of one.      *)
LEMMA GroupsOff == ASSUME ServicesInv, GroupSteps, NEW p \in Queues PROVE InHand(p)' \subseteq InHand(p)
<1>1. ASSUME NEW op \in {"setBits", "waitBits", "sync", "deleteGroup"}, NEW c \in OfGroup(op), NEW next, NEW b
      PROVE  GroupFrame(c, next, b).op # "send"
  <2>1. c.op = op /\ c \in TaskCalls BY <1>1, Called DEF OfGroup
  <2>2. "op" \in DOMAIN c BY <2>1, GroupCallKnown
  <2> QED BY <2>1, <2>2 DEF GroupFrame, Joined
<1>2. CASE SetBitsStep \/ DeleteGroup BY <1>1, <1>2, HandsGo DEF SetBitsStep, DeleteGroup
<1>3. CASE WaitBits \/ Sync BY <1>1, <1>3, HandsGo DEF WaitBits, Sync
<1>4. CASE Woken BY <1>4, HandsGo DEF Woken, Returns
<1>5. CASE ClearBits \/ CreateGroup BY <1>5, HandsGo DEF ClearBits, CreateGroup
<1> QED BY <1>2, <1>3, <1>4, <1>5 DEF GroupSteps
LEMMA StreamsOff == ASSUME ServicesInv, StreamSteps, NEW p \in Queues PROVE InHand(p)' \subseteq InHand(p)
<1>1. CASE StreamSend \/ StreamReceive
  <2> DEFINE Frame0(op, c) == [op |-> op, on |-> c.on, n |-> c.n, to |-> TimeOut(k, c.ticks), space |-> 0,
                             next |-> "user", blocks |-> FALSE]
  <2>1. \A op, c : Frame0(op, c).op = op OBVIOUS
  <2>2. \E to, next, op, c : /\ Moves("user", to, next) /\ to # "allot" /\ op # "send"
                             /\ Enter(Frame0(op, c))
    <3>1. CASE StreamSend
      <4>1. PICK c \in InStream("put") :
              /\ Moves("user", IF c.ticks = 0 THEN "measure" ELSE "room", k) /\ Enter(Frame0("put", c))
        BY <3>1 DEF StreamSend
      <4>2. (IF c.ticks = 0 THEN "measure" ELSE "room") # "allot" OBVIOUS
      <4>3. "put" # "send" OBVIOUS
      <4> QED BY <4>1, <4>2, <4>3, Zenon
    <3>2. CASE StreamReceive
      <4>1. \E next, c, w : Moves("user", IF w THEN "sleep" ELSE "look", next) /\ Enter(Frame0("get", c))
        <5>1. PICK c \in InStream("get") :
                LET waits == c.ticks # 0 /\ BytesIn(obj[c.on]) <= Header(obj[c.on])
                IN Moves("user", IF waits THEN "sleep" ELSE "look", IF waits THEN NoNote ELSE k) /\ Enter(Frame0("get", c))
          BY <3>2 DEF StreamReceive
        <5> DEFINE w == c.ticks # 0 /\ BytesIn(obj[c.on]) <= Header(obj[c.on])
        <5>2. w \in BOOLEAN OBVIOUS
        <5>3. Moves("user", IF w THEN "sleep" ELSE "look", IF w THEN NoNote ELSE k) /\ Enter(Frame0("get", c)) BY <5>1
        <5> HIDE DEF w
        <5> QED BY <5>2, <5>3, Zenon
      <4>2. PICK next, c, w : Moves("user", IF w THEN "sleep" ELSE "look", next) /\ Enter(Frame0("get", c))
        BY <4>1
      <4>3. (IF w THEN "sleep" ELSE "look") # "allot" /\ "get" # "send" OBVIOUS
      <4> QED BY <4>2, <4>3, Zenon
    <3> QED BY <1>1, <3>1, <3>2
  <2> HIDE DEF Call
  <2> QED BY <2>1, <2>2, HandsGo
<1>2. ASSUME pc[k.cur] \in StreamPlaces
      PROVE  DOMAIN Here = {"op", "on", "n", "to", "space", "next", "blocks"} /\ Here.op # "send"
  BY <1>2, Streamed DEF Streaming
<1>3. CASE Room \/ Expired \/ Measure \/ Look \/ Length
  <2>1. pc[k.cur] \in StreamPlaces BY <1>3 DEF Room, Expired, Measure, Look, Length, At, StreamPlaces
  <2>2. \A v : /\ [Here EXCEPT !.space = v].op # "send" /\ [Here EXCEPT !.to = v].op # "send"
               /\ [Here EXCEPT !.n = v].op # "send"
    BY <1>2, <2>1
  <2> QED BY <1>3, <2>2, HandsGo DEF Room, Expired, Measure, Look, Length, Goes, Returns
<1>4. CASE Sleep \/ Slept \/ Forget \/ PutData \/ Copy \/ Tell \/ NotifyOther
  BY <1>4, HandsGo DEF Sleep, Slept, Forget, PutData, Copy, Tell, NotifyOther, Goes, Returns
<1>5. CASE NextMessageLength \/ StreamReset \/ SetTriggerLevel \/ StreamCreate \/ StreamDelete
  BY <1>5, HandsGo DEF NextMessageLength, StreamReset, SetTriggerLevel, StreamCreate, StreamDelete
<1>6. CASE StreamSendFromISR \/ StreamReceiveFromISR
  BY <1>6, HandsStill DEF StreamSendFromISR, StreamReceiveFromISR, FromISR
<1> QED BY <1>1, <1>3, <1>4, <1>5, <1>6 DEF StreamSteps
LEMMA TimersOff == ASSUME ServicesInv, TimerSteps, NEW p \in Queues PROVE InHand(p)' \subseteq InHand(p)
<1>1. CASE TimerLook
  <2>1. \E to, next, f : Moves("user", to, next) /\ to # "allot" /\ Enter(f) /\ f.op = "timer"
    BY <1>1 DEF TimerLook
  <2> QED BY <2>1, HandsGo
<1>2. ASSUME NEW c, NEW o, NEW m, NEW to, SendsIf(c, o, m, to), to # "allot", UNCHANGED frame
      PROVE  InHand(p)' \subseteq InHand(p)
  <2>1. \E l, next : Moves(pc[k.cur], l, next) /\ l # "allot" BY <1>2 DEF SendsIf, Sends
  <2> QED BY <1>2, <2>1, HandsGo
<1>3. CASE SwitchOne \/ Expire \/ Act
  <2>1. \E c, o, m, to : SendsIf(c, o, m, to) /\ to # "allot" /\ UNCHANGED frame
    BY <1>3, Zenon DEF SwitchOne, Expire, Act
  <2> QED BY <1>2, <2>1
<1>4. CASE Call
  <2>1. \E to, next : Moves("call", to, next) /\ to # "allot" /\ UNCHANGED frame BY <1>4 DEF Call
  <2> QED BY <2>1, HandsGo
<1>5. ASSUME pc[k.cur] \in TimerPlaces
      PROVE  /\ DOMAIN Here = {"op", "on", "now", "message", "after", "next", "blocks"} /\ Here.op # "send"
             /\ Here.after # "allot"
  BY <1>5, Tended DEF Tending
<1>6. CASE SwitchDone \/ SleepUntil
  <2>1. pc[k.cur] \in TimerPlaces BY <1>6 DEF SwitchDone, SleepUntil, Goes, Moves, TimerPlaces
  <2> QED BY <1>5, <1>6, <2>1, HandsGo DEF SwitchDone, SleepUntil, Goes
<1>7. CASE Await \/ SampleTime \/ NextCommand
  <2>1. pc[k.cur] \in TimerPlaces BY <1>7 DEF Await, SampleTime, NextCommand, TimerPlaces
  <2>2. \A v : [Here EXCEPT !.blocks = v].op # "send" /\ [Here EXCEPT !.now = v].op # "send"
    BY <1>5, <2>1
  <2>3. CASE Await \/ SampleTime BY <2>2, <2>3, HandsGo DEF Await, SampleTime
  <2>4. CASE NextCommand
    <3> DEFINE f(m) == [Here EXCEPT !.message = m, !.after = "act", !.next = "commands", !.blocks = FALSE]
    <3>1. \A m : f(m).op # "send" BY <1>5, <2>1
    <3>2. CASE Returns("commands", k) BY <3>2, HandsGo DEF Returns
    <3>3. CASE \E m, to, next : Moves("commands", IF to THEN "call" ELSE "command", next) /\ Enter(f(m))
      <4> HIDE DEF f
      <4>1. \A to : (IF to THEN "call" ELSE "command") # "allot" OBVIOUS
      <4> QED BY <3>1, <3>3, <4>1, HandsGo
    <3>4. Returns("commands", k) \/ \E m, to, next : Moves("commands", IF to THEN "call" ELSE "command", next) /\ Enter(f(m))
      BY <2>4, Zenon DEF NextCommand
    <3> QED BY <3>2, <3>3, <3>4
  <2> QED BY <1>7, <2>3, <2>4
<1>8. CASE SendCommand \/ PendCall
  <2>1. \E m, n : Moves("user", "try", k) /\ Enter(Begin(Send(TimerQueue, m, "back", n)))
    BY <1>8 DEF SendCommand, PendCall
  <2>2. \A m, n : Begin(Send(TimerQueue, m, "back", n)).on = TimerQueue BY DEF Begin, Send, Joined
  <2>3. p # TimerQueue BY Assumed
  <2> QED BY <2>1, <2>2, <2>3, HandsGo
<1>9. CASE CommandFromISR \/ PendCallFromISR
  BY <1>9, HandsStill DEF CommandFromISR, PendCallFromISR, SendsFromISR, FromISR
<1>10. CASE SetReloadMode BY <1>10, HandsGo DEF SetReloadMode
<1> QED BY <1>1, <1>3, <1>4, <1>6, <1>7, <1>8, <1>9, <1>10 DEF TimerSteps
LEMMA OwnersOff ==
  ASSUME ServicesInv, OwnerSteps \/ TaskMalloc \/ TaskFree, NEW p \in Queues
  PROVE  InHand(p)' \subseteq InHand(p)
<1>1. ASSUME NEW x, NEW f, Enter(f), f.op # "send", NEW to, NEW next, Moves(x, to, next), to # "allot"
      PROVE  InHand(p)' \subseteq InHand(p)
  BY <1>1, HandsGo
<1>2. CASE TaskMalloc \/ TaskFree
  <2>1. PICK c : c.op \in {"malloc", "free"} /\ HeapUse(c) BY <1>2, Called DEF TaskMalloc, TaskFree
  <2>2. Moves("user", "resume", SuspendAll(k)) BY <2>1 DEF HeapUse, HeapCall
  <2> QED BY <1>1, <2>1, <2>2 DEF HeapUse
<1>3. CASE Make BY <1>1, <1>3 DEF Make
<1>4. ASSUME pc[k.cur] \in {"obtain", "giveBack"}
      PROVE  /\ \A a, b, c : [Here EXCEPT !.want = a, !.have = b, !.next = c].op # "send"
             /\ \A a, c : [Here EXCEPT !.have = a, !.next = c].op # "send"
  BY <1>4, Owner DEF Owning
<1>5. CASE Obtain \/ Supplied \/ Refused
  <2>1. pc[k.cur] = "obtain" BY <1>5 DEF Obtain, Supplied, Refused, Asked
  <2>2. \E to, next : /\ Moves(pc[k.cur], to, next) /\ to # "allot"
                      /\ \/ \E a, b, c : Enter([Here EXCEPT !.want = a, !.have = b, !.next = c])
                         \/ \E a, c : Enter([Here EXCEPT !.have = a, !.next = c])
    BY <1>5, <2>1 DEF Obtain, Supplied, Refused, HeapCall, Has, GoesBack
  <2> QED BY <1>1, <1>4, <2>1, <2>2
<1>6. CASE Made BY <1>6, HandsGo DEF Made, Returns
<1>7. CASE GiveBack
  <2>1. pc[k.cur] = "giveBack" BY <1>7 DEF GiveBack
  <2>2. \E to, next : /\ Moves("giveBack", to, next) /\ to # "allot"
                      /\ Leave \/ \E a, c : Enter([Here EXCEPT !.have = a, !.next = c])
    BY <1>7 DEF GiveBack, HeapCall, Returns
  <2> QED BY <1>4, <2>1, <2>2, HandsGo
<1>8. CASE DeleteAtOnce BY <1>8, HandsGo DEF DeleteAtOnce
<1>9. CASE DeleteOne \/ DeleteTimer \/ IdleFrees \/ TimerTaskFrees
  <2>1. \E x, blocks : Frees(x, blocks)
    BY <1>9, Zenon DEF DeleteOne, DeleteTimer, IdleFrees, TimerTaskFrees, Reap
  <2> QED BY <1>1, <2>1 DEF Frees
<1>10. CASE ThreadExits BY <1>10, HandsStill DEF ThreadExits
<1> QED BY <1>2, <1>3, <1>5, <1>6, <1>7, <1>8, <1>9, <1>10 DEF OwnerSteps
LEMMA KernelOff ==
  ASSUME ServicesInv, OwnCode \/ Interrupts \/ Resume \/ YieldWithinAPI \/ Delay, NEW p \in Queues
  PROVE  InHand(p)' \subseteq InHand(p)
<1>1. CASE OwnCode \/ Interrupts
  BY <1>1, HandsStill, Zenon DEF OwnCode, Interrupts, SysTick, PendSV, AssertFailed, schedVars, objectVars
<1>2. CASE Resume \/ YieldWithinAPI
  <2>1. Resumable(Here, k.cur, obj, program)
    BY <1>2, Running DEF Resume, YieldWithinAPI, Places, AtQueue, AtTimers, StreamPlaces, Here
  <2>2. Here.next # "allot"
    BY <2>1 DEF Resumable, Queueing, Tries, Passing, Grouping, Streaming, Tending, Owning
  <2>3. \E from, to, next : Moves(from, to, next) /\ to # "allot" /\ (UNCHANGED frame \/ Leave)
    BY <1>2, <2>2 DEF Resume, YieldWithinAPI, GoesOn
  <2> QED BY <2>3, HandsGo
<1>3. CASE Delay
  <2> DEFINE f == [op |-> "delay", on |-> Nothing, next |-> "user", blocks |-> TRUE]
  <2>1. f.op = "delay" OBVIOUS
  <2>2. \E next : Moves("user", "resume", next) /\ Enter(f) BY <1>3 DEF Delay
  <2> HIDE DEF f
  <2> QED BY <2>1, <2>2, HandsGo
<1> QED BY <1>1, <1>2, <1>3

(* The steps at the queues, pools among them.                                *)
LEMMA GivesBack ==
  ASSUME ServicesInv, NEW p \in Queues, obj[p].kind = "pool", pc[k.cur] \in {"user", "try"},
         NEW f \in Trying, f.op = "send", f.on = p
  PROVE  f = Here /\ k.cur \in InHand(p)
<1>1. k.cur \in Task BY Running
<1>2. pc[k.cur] # "user"
  <2> SUFFICES ASSUME pc[k.cur] = "user" PROVE FALSE OBVIOUS
  <2>1. PICK c \in program.calls[k.cur] : c.op \in {"send", "receive", "peek", "take"} /\ f = Begin(c)
    BY DEF Trying
  <2>2. c \in TaskCalls BY <1>1, <2>1, CallKnown DEF ServicesInv
  <2>3. c \in Puts(Ticks) \cup Timely({"receive", "peek", "take"}, Queues) BY <2>1, <2>2, QueueCallKnown
  <2>4. {"op", "on"} \subseteq DOMAIN c BY <2>3 DEF Puts, Timely
  <2>5. Begin(c).op = c.op /\ Begin(c).on = c.on BY <2>4 DEF Begin, Joined
  <2>6. c \in AskedOf(program, p, {"send", "reset", "new", "delete"}) BY <1>1, <2>1, <2>5 DEF AskedOf
  <2> QED BY <2>6, PoolAlone
<1>3. f = Here BY <1>2 DEF Trying
<1> QED BY <1>1, <1>3 DEF InHand, Here
LEMMA OtherPool ==
  ASSUME ServicesInv, PoolsBacked, NEW p \in Queues, NEW q, q # p, NEW o1, Put(q, o1),
         InHand(p)' \subseteq InHand(p)
  PROVE  StaysBacked(p)
<1>1. obj'[p] = obj[p] BY DEF Put
<1>2. obj[p].kind = "pool" => SameList(obj[p], obj[p]) BY PoolSame DEF PoolsBacked
<1> QED BY <1>1, <1>2, PoolKept
LEMMA HandsElsewhere ==
  ASSUME ServicesInv, NEW p \in Queues, NEW from, NEW to, NEW next, Moves(from, to, next),
         NEW f, Enter(f), f.on # p
  PROVE  InHand(p)' \subseteq InHand(p)
<1>1. k.cur \in Task /\ DOMAIN pc = Task /\ DOMAIN frame = Task BY Running
<1>2. frame'[k.cur].on # p BY <1>1 DEF Enter
<1>3. \A t \in Task \ {k.cur} : pc'[t] = pc[t] /\ frame'[t] = frame[t] BY <1>1 DEF Moves, Enter
<1> QED BY <1>2, <1>3 DEF InHand
LEMMA KeepsList ==
  ASSUME NEW o, NEW V, Stocked(o, V), PoolFields \subseteq DOMAIN o
  PROVE  /\ \A item, pos : o.kind = "pool" => SameList(o, CopyIn(o, item, pos))
         /\ o.kind = "pool" => SameList(o, TakeOut(o))
         /\ SameList(o, Locked(o))
         /\ \A v : SameList(o, [o EXCEPT !.holder = v]) /\ SameList(o, [o EXCEPT !.tx = v])
                   /\ SameList(o, [o EXCEPT !.rx = v])
<1>1. QueueFields \subseteq DOMAIN o BY DEF Stocked
<1>2. ASSUME NEW item, NEW pos, o.kind = "pool" PROVE SameList(o, CopyIn(o, item, pos))
  BY <1>1, <1>2 DEF CopyIn, SameList, PoolFields, QueueFields
<1>3. o.kind = "pool" => SameList(o, TakeOut(o)) BY <1>1 DEF TakeOut, CopyOut, SameList, PoolFields, QueueFields
<1>4. SameList(o, Locked(o)) BY <1>1 DEF Locked, SameList, PoolFields, QueueFields
<1>5. ASSUME NEW v
      PROVE  SameList(o, [o EXCEPT !.holder = v]) /\ SameList(o, [o EXCEPT !.tx = v]) /\ SameList(o, [o EXCEPT !.rx = v])
  BY <1>1 DEF SameList, PoolFields, QueueFields
<1> QED BY <1>2, <1>3, <1>4, <1>5
LEMMA SameListAgain ==
  ASSUME NEW o, NEW o1, NEW o2, SameList(o, o1), SameList(o1, o2)
  PROVE  SameList(o, o2)
BY DEF SameList
LEMMA BackedAfter ==
  ASSUME ServicesInv, PoolsBacked, NEW p \in Queues, obj[p].kind = "pool", NEW o1, obj'[p] = o1, SameList(obj[p], o1),
         o1.n \in Int, Cardinality(InHand(p)') + o1.n <= Cardinality(InHand(p)) + obj[p].n
  PROVE  StaysBacked(p)
<1> DEFINE m == Cardinality(InHand(p))
           n == Cardinality(InHand(p)')
<1>1. m \in Nat /\ n \in Nat BY HandsCounted
<1>2. Backed(obj[p], m) BY DEF PoolsBacked
<1>3. Stocked(obj[p], Items) BY Stands, Assumed DEF Stock, QueueObjects
<1>4. n + o1.n <= m + obj[p].n OBVIOUS
<1> HIDE DEF m, n
<1>5. Backed(o1, n) BY <1>1, <1>2, <1>3, <1>4, StillBacked
<1> QED BY <1>5 DEF StaysBacked, n
LEMMA PoolKnown ==
  ASSUME ServicesInv, PoolsBacked, NEW p \in Queues, obj[p].kind = "pool"
  PROVE  /\ Stocked(obj[p], Items) /\ PoolFields \subseteq DOMAIN obj[p] /\ p \in DOMAIN obj /\ obj[p].n \in Nat
         /\ ~IsMutex(obj[p])
<1>1. Stocked(obj[p], Items) BY Stands, Assumed DEF Stock, QueueObjects
<1>2. p \in DOMAIN obj BY Running DEF Names, QueueObjects
<1> QED BY <1>1, <1>2 DEF PoolsBacked, Backed, Stocked, IsMutex

LEMMA SendsToPool ==
  ASSUME ServicesInv, PoolsBacked, NEW p \in Queues, TryToSend
  PROVE  StaysBacked(p)
<1>1. PICK f \in Trying :
        /\ f.op = "send" /\ Can(f) /\ pc[k.cur] \in {"user", "try"} /\ Moves(pc[k.cur], "user", Sent(f))
        /\ Put(f.on, CopyIn(obj[f.on], f.item, f.pos)) /\ Leave
  BY DEF TryToSend, Try
<1> DEFINE o == obj[f.on]
           o1 == CopyIn(o, f.item, f.pos)
<1>2. Queueing(f, obj, program) BY <1>1, Tryers
<1>3. /\ f.on \in QueueObjects /\ Stocked(o, Stock(f.on)) /\ Admits(o, f.pos)
      /\ f.pos \in {"back", "front", "overwrite"} /\ (o.kind = "queue" => f.item \in Stock(f.on))
  BY <1>1, <1>2, AskedStands
<1>4. CopiedIn(o, o1, f.item, f.pos) /\ Stocked(o1, Stock(f.on)) BY <1>3, CopyInFacts
<1>5. PoolFields \subseteq DOMAIN o /\ o.kind = "pool" => SameList(o, o1) BY <1>3, KeepsList
<1> HIDE DEF o1
<1>6. InHand(p)' \subseteq InHand(p) \ {k.cur} BY <1>1, HandsLeave
<1>7. CASE f.on # p BY <1>1, <1>6, <1>7, OtherPool DEF o1
<1>8. CASE f.on = p
  <2>1. obj'[p] = o1 BY <1>1, <1>8, Running DEF Put, Names, QueueObjects, o1
  <2>2. o1.kind = o.kind /\ o1.n \in Nat /\ o.n \in Nat /\ o1.n <= o.n + 1
    BY <1>3, <1>4 DEF CopiedIn, Others, Stocked
  <2>3. CASE o.kind # "pool" BY <2>1, <2>2, <2>3 DEF StaysBacked
  <2>4. CASE o.kind = "pool"
    <3>1. k.cur \in InHand(p) BY <1>1, <1>8, <2>4, GivesBack
    <3>2. Cardinality(InHand(p)') <= Cardinality(InHand(p)) - 1 BY <1>6, <3>1, HandsCounted
    <3>3. Cardinality(InHand(p)) \in Nat /\ Cardinality(InHand(p)') \in Nat BY HandsCounted
    <3>4. SameList(obj[p], o1) BY <1>5, <1>8, <2>4, PoolKnown
    <3>5. Cardinality(InHand(p)') + o1.n <= Cardinality(InHand(p)) + obj[p].n BY <1>8, <2>2, <3>2, <3>3
    <3> QED BY <1>8, <2>1, <2>2, <2>4, <3>4, <3>5, BackedAfter
  <2> QED BY <2>3, <2>4
<1> QED BY <1>7, <1>8
LEMMA TakesFromPool ==
  ASSUME ServicesInv, PoolsBacked, NEW p \in Queues, TryToTake
  PROVE  StaysBacked(p)
<1>1. PICK f \in Trying : \E v, next :
        /\ f.op = "take" /\ Can(f) /\ pc[k.cur] \in {"user", "try"} /\ Moves(pc[k.cur], Then(obj[f.on]), next)
        /\ Put(f.on, [TakeOut(obj[f.on]) EXCEPT !.holder = v])
        /\ IF Then(obj[f.on]) = "user" THEN Leave ELSE Enter([op |-> "take", on |-> f.on])
  BY DEF TryToTake, Try
<1> DEFINE o == obj[f.on]
           o2 == TakeOut(o)
           g == [op |-> "take", on |-> f.on]
<1>2. PICK v, next : /\ Moves(pc[k.cur], Then(o), next) /\ Put(f.on, [o2 EXCEPT !.holder = v])
                     /\ IF Then(o) = "user" THEN Leave ELSE Enter(g)
  BY <1>1
<1>3. Queueing(f, obj, program) BY <1>1, Tryers
<1>4. f.on \in QueueObjects /\ Stocked(o, Stock(f.on)) /\ o.n # 0 BY <1>1, <1>3, AskedStands
<1>5. Stocked(o2, Stock(f.on)) /\ CopiedOut(o, o2) /\ o2.n = o.n - 1 BY <1>4, CopyOutFacts
<1>6. PoolFields \subseteq DOMAIN o /\ o.kind = "pool" => SameList(o, o2) BY <1>4, KeepsList
<1>7. g.on = f.on /\ g.op = "take" OBVIOUS
<1> HIDE DEF o2, g
<1> DEFINE o1 == [o2 EXCEPT !.holder = v]
<1>8. PoolFields \subseteq DOMAIN o2 => SameList(o2, o1) BY <1>5, KeepsList
<1>9. o1.kind = o2.kind /\ o1.n = o2.n BY <1>5 DEF Stocked, QueueFields
<1> HIDE DEF o1
<1>10. CASE f.on # p
  <2>1. InHand(p)' \subseteq InHand(p)
    <3>1. CASE Then(o) = "user" BY <1>2, <3>1, HandsGo
    <3>2. CASE Then(o) # "user" BY <1>2, <1>7, <1>10, <3>2, HandsElsewhere
    <3> QED BY <3>1, <3>2
  <2> QED BY <1>2, <1>10, <2>1, OtherPool
<1>11. CASE f.on = p
  <2>1. obj'[p] = o1 BY <1>2, <1>11, Running DEF Put, Names, QueueObjects, o1
  <2>2. o1.kind = o.kind /\ o1.n = o.n - 1 /\ o.n \in Nat
    BY <1>4, <1>5, <1>9 DEF CopiedOut, Others, Stocked
  <2>3. CASE o.kind # "pool" BY <2>1, <2>2, <2>3 DEF StaysBacked
  <2>4. CASE o.kind = "pool"
    <3>1. Then(o) # "user" BY <2>4 DEF Then
    <3>2. InHand(p)' \subseteq InHand(p) \cup {k.cur} BY <1>2, <3>1, HandsEnter
    <3>3. Cardinality(InHand(p)') <= Cardinality(InHand(p)) + 1 BY <3>2, HandsCounted
    <3>4. Cardinality(InHand(p)) \in Nat /\ Cardinality(InHand(p)') \in Nat BY HandsCounted
    <3>5. SameList(o, o2) BY <1>6, <1>11, <2>4, PoolKnown
    <3>6. SameList(obj[p], o1) BY <1>8, <1>11, <3>5, SameListAgain DEF SameList
    <3>7. o1.n \in Int /\ Cardinality(InHand(p)') + o1.n <= Cardinality(InHand(p)) + obj[p].n
      BY <1>11, <2>2, <3>3, <3>4
    <3> QED BY <1>11, <2>1, <2>4, <3>6, <3>7, BackedAfter
  <2> QED BY <2>3, <2>4
<1> QED BY <1>10, <1>11
(* What is received and looked at is in a queue.                             *)
LEMMA ReceivesOff ==
  ASSUME ServicesInv, PoolsBacked, NEW p \in Queues, TryToReceive \/ TryToPeek
  PROVE  StaysBacked(p)
<1>1. PICK f \in Trying : \E next :
        /\ f.op \in {"receive", "peek"} /\ Can(f) /\ pc[k.cur] \in {"user", "try"}
        /\ Moves(pc[k.cur], "user", next) /\ Leave
        /\ Put(f.on, TakeOut(obj[f.on])) \/ Put(f.on, Peeked(obj[f.on]))
  BY DEF TryToReceive, TryToPeek, Try
<1>2. Queueing(f, obj, program) BY <1>1, Tryers
<1>3. f.on \in QueueObjects /\ Stocked(obj[f.on], Stock(f.on)) /\ obj[f.on].n # 0 BY <1>1, <1>2, AskedStands
<1>4. obj[f.on].kind = "queue" BY <1>1, <1>2 DEF Queueing, Asks
<1>5. TakeOut(obj[f.on]).kind = "queue" /\ Peeked(obj[f.on]).kind = "queue"
  BY <1>3, <1>4, CopyOutFacts DEF CopiedOut, Others
<1>6. InHand(p)' \subseteq InHand(p) BY <1>1, HandsGo
<1>7. CASE f.on # p BY <1>1, <1>6, <1>7, OtherPool
<1>8. CASE f.on = p
  <2>1. obj'[p].kind = "queue" BY <1>1, <1>5, <1>8, Running DEF Put, Names, QueueObjects
  <2> QED BY <2>1 DEF StaysBacked
<1> QED BY <1>7, <1>8
(* Those that change no object.                                              *)
LEMMA WaitsOff ==
  ASSUME ServicesInv, PoolsBacked, NEW p \in Queues,
         TryInVain \/ TryAsserts \/ TryWaits \/ Suspend \/ Place \/ Final \/ DisinheritStep
  PROVE  StaysBacked(p)
<1>1. UNCHANGED obj BY DEF TryInVain, TryAsserts, TryWaits, Suspend, Place, Final, DisinheritStep
<1>2. CASE obj[p].kind # "pool" BY <1>1, <1>2 DEF StaysBacked
<1>3. CASE obj[p].kind = "pool"
  <2> SUFFICES InHand(p)' \subseteq InHand(p) BY <1>1, PoolsStay DEF Untouched
  <2>1. CASE TryInVain
    <3>1. Moves(pc[k.cur], "user", k) /\ Leave BY <2>1 DEF TryInVain, Try
    <3> QED BY <3>1, HandsGo
  <2>2. CASE TryAsserts \/ TryWaits
    <3>1. PICK f \in Trying :
            /\ pc[k.cur] \in {"user", "try"}
            /\ \E to, next, g : /\ Moves(pc[k.cur], to, next) /\ to # "allot" /\ Enter(g)
                                /\ \/ g = f
                                   \/ g = [f EXCEPT !.to = TimeOut(k, f.to.left), !.entered = TRUE]
      BY <2>2, Zenon DEF TryAsserts, TryWaits, Try
    <3>2. Queueing(f, obj, program) BY <3>1, Tryers
    <3>3. {"op", "on", "to", "entered"} \subseteq DOMAIN f BY <3>2 DEF Queueing
    <3>4. PICK to, next, g : /\ Moves(pc[k.cur], to, next) /\ to # "allot" /\ Enter(g)
                             /\ \/ g = f
                                \/ g = [f EXCEPT !.to = TimeOut(k, f.to.left), !.entered = TRUE]
      BY <3>1
    <3>5. g.op = f.op /\ g.on = f.on BY <3>3, <3>4
    <3>6. g.op = "send" /\ g.on = p => Here.op = "send" /\ Here.on = p BY <1>3, <3>1, <3>5, GivesBack
    <3> QED BY <3>4, <3>6, HandsGo
  <2>3. CASE Place
    <3>1. Queueing(Here, obj, program) BY <2>3, AtItsQueue DEF Place
    <3>2. {"op", "on"} \subseteq DOMAIN Here BY <3>1 DEF Queueing
    <3>3. PICK next, b, i : Moves("place", "unlockTx", next) /\ Enter([Here EXCEPT !.blocks = b, !.inherited = i])
      BY <2>3 DEF Place
    <3> DEFINE g == [Here EXCEPT !.blocks = b, !.inherited = i]
    <3>5. g.op = Here.op /\ g.on = Here.on BY <3>2
    <3>6. Moves("place", "unlockTx", next) /\ Enter(g) BY <3>3
    <3> HIDE DEF g
    <3> QED BY <3>5, <3>6, HandsGo
  <2>4. CASE Suspend \/ Final \/ DisinheritStep
    <3>1. PICK from, to, next : Moves(from, to, next) /\ to # "allot" /\ (UNCHANGED frame \/ Leave)
      BY <2>4, Zenon DEF Suspend, Final, DisinheritStep, Goes, Returns
    <3> QED BY <3>1, HandsGo
  <2> QED BY <2>1, <2>2, <2>3, <2>4
<1> QED BY <1>2, <1>3

LEMMA LocksOff ==
  ASSUME ServicesInv, PoolsBacked, NEW p \in Queues, Lock \/ UnlockTx \/ UnlockRx
  PROVE  StaysBacked(p)
<1> DEFINE q == Here.on
           o == obj[q]
<1>1. q \in QueueObjects /\ Stocked(o, Stock(q))
  BY AtItsQueue, AtTheLocks DEF Lock, UnlockTx, UnlockRx
<1>2. QueueFields \subseteq DOMAIN o BY <1>1 DEF Stocked
<1>3. PICK o1 : /\ Put(q, o1) /\ o1 \in {Locked(o), [o EXCEPT !.tx = -1], [o EXCEPT !.rx = -1]}
  BY DEF Lock, UnlockTx, UnlockRx
<1>4. o1.kind = o.kind /\ o1.n = o.n BY <1>2, <1>3 DEF Locked, QueueFields
<1>5. PoolFields \subseteq DOMAIN o => SameList(o, o1)
  <2>1. PoolFields \subseteq DOMAIN o =>
          /\ SameList(o, Locked(o))
          /\ \A v : SameList(o, [o EXCEPT !.tx = v]) /\ SameList(o, [o EXCEPT !.rx = v])
    BY <1>1, KeepsList
  <2>2. PoolFields \subseteq DOMAIN o => SameList(o, [o EXCEPT !.tx = -1]) /\ SameList(o, [o EXCEPT !.rx = -1])
    BY <2>1
  <2> QED BY <1>3, <2>1, <2>2, Zenon
<1>6. InHand(p)' \subseteq InHand(p)
  <2>1. CASE Lock
    <3>1. Queueing(Here, obj, program) BY <2>1, AtItsQueue DEF Lock
    <3>2. {"op", "on"} \subseteq DOMAIN Here BY <3>1 DEF Queueing
    <3>3. PICK to, next, a, b, c : /\ Moves("lock", to, next) /\ to # "allot"
                                   /\ Enter([Here EXCEPT !.to = a, !.blocks = b, !.next = c])
      BY <2>1 DEF Lock
    <3> DEFINE g == [Here EXCEPT !.to = a, !.blocks = b, !.next = c]
    <3>4. g.op = Here.op /\ g.on = Here.on BY <3>2
    <3>5. Enter(g) BY <3>3
    <3> HIDE DEF g
    <3> QED BY <3>3, <3>4, <3>5, HandsGo
  <2>2. CASE UnlockTx \/ UnlockRx
    <3>1. PICK from, to, next : Moves(from, to, next) /\ to # "allot" /\ UNCHANGED frame
      BY <2>2, Zenon DEF UnlockTx, UnlockRx, Goes
    <3> QED BY <3>1, HandsGo
  <2> QED BY <2>1, <2>2
<1>7. CASE q # p BY <1>3, <1>6, <1>7, OtherPool
<1>8. CASE q = p
  <2>1. obj'[p] = o1 BY <1>3, <1>8, Running DEF Put, Names, QueueObjects
  <2>2. CASE o.kind # "pool" BY <1>4, <2>1, <2>2 DEF StaysBacked
  <2>3. CASE o.kind = "pool"
    <3>1. SameList(obj[p], o1) BY <1>5, <1>8, <2>3, PoolKnown
    <3> QED BY <1>4, <1>6, <1>8, <2>1, <2>3, <3>1, PoolKept
  <2> QED BY <2>2, <2>3
<1> QED BY <1>7, <1>8
LEMMA CountsOff ==
  ASSUME ServicesInv, PoolsBacked, NEW p \in Queues, TakeAgain \/ CountTake \/ GiveRecursive
  PROVE  StaysBacked(p)
<1>1. PICK q \in Queues : /\ q # p => InHand(p)' \subseteq InHand(p)
                          /\ obj[q].kind = "recursive" /\ \E n : Put(q, [obj[q] EXCEPT !.rec = n])
  <2>1. CASE TakeAgain
    <3>1. PICK c \in Calls("take") :
            /\ obj[c.on].kind = "recursive" /\ Put(c.on, [obj[c.on] EXCEPT !.rec = obj[c.on].rec + 1])
            /\ Moves("user", "user", k) /\ UNCHANGED frame
      BY <2>1 DEF TakeAgain
    <3>2. c.on \in Queues BY Called, QueueCallKnown DEF Timely
    <3>3. InHand(p)' \subseteq InHand(p) BY <3>1, HandsGo
    <3> QED BY <3>1, <3>2, <3>3
  <2>2. CASE CountTake
    <3>1. /\ pc[k.cur] = "count" /\ Put(Here.on, [obj[Here.on] EXCEPT !.rec = obj[Here.on].rec + 1])
          /\ Moves("count", "user", k) /\ Leave
      BY <2>2 DEF CountTake, Returns
    <3>2. Here.on \in Queues /\ obj[Here.on].kind = "recursive"
      BY <3>1, Running DEF Places, AtQueue, AtTimers, StreamPlaces, Here, Taking
    <3>3. InHand(p)' \subseteq InHand(p) BY <3>1, HandsGo
    <3> QED BY <3>1, <3>2, <3>3
  <2>3. CASE GiveRecursive
    <3>1. PICK c \in Calls("send") :
            /\ obj[c.on].kind = "recursive" /\ Put(c.on, [obj[c.on] EXCEPT !.rec = obj[c.on].rec - 1])
            /\ \E to : Moves("user", to, k) /\ to # "allot" /\ (UNCHANGED frame \/ Enter(Begin(c)))
      BY <2>3 DEF GiveRecursive
    <3>2. c.on \in Queues /\ {"op", "on"} \subseteq DOMAIN c BY Called, QueueCallKnown DEF Puts
    <3>3. Begin(c).on = c.on BY <3>2 DEF Begin, Joined
    <3>4. PICK to : Moves("user", to, k) /\ to # "allot" /\ (UNCHANGED frame \/ Enter(Begin(c))) BY <3>1
    <3>5. c.on # p => InHand(p)' \subseteq InHand(p)
      <4>1. UNCHANGED frame => InHand(p)' \subseteq InHand(p) BY <3>4, HandsGo
      <4>2. c.on # p /\ Enter(Begin(c)) => InHand(p)' \subseteq InHand(p) BY <3>3, <3>4, HandsElsewhere
      <4> QED BY <3>4, <4>1, <4>2
    <3> QED BY <3>1, <3>2, <3>5
  <2> QED BY <2>1, <2>2, <2>3
<1>2. PICK n : Put(q, [obj[q] EXCEPT !.rec = n]) BY <1>1
<1>3. CASE q # p BY <1>1, <1>2, <1>3, OtherPool
<1>4. CASE q = p
  <2>1. obj'[p].kind = "recursive"
    <3>1. QueueFields \subseteq DOMAIN obj[q] BY <1>1, Stands DEF Stocked, QueueObjects
    <3> QED BY <1>1, <1>2, <1>4, <3>1, Running DEF Put, Names, QueueObjects, QueueFields
  <2> QED BY <2>1 DEF StaysBacked
<1> QED BY <1>3, <1>4
LEMMA LivesOff ==
  ASSUME ServicesInv, PoolsBacked, NEW p \in Queues, Reset \/ New \/ Delete
  PROVE  StaysBacked(p)
<1> DEFINE Does(op, c, o1, next) ==
      /\ Moves("user", "user", next) /\ UNCHANGED frame /\ Put(c.on, o1)
      /\ op = "reset" => o1 = Emptied(obj[c.on]) /\ obj[c.on].kind # "none"
      /\ op = "new" => o1 = NewQueue(c.kind, c.len, c.n)
      /\ op = "delete" => o1 = NoObject
<1>0. PICK op \in {"reset", "new", "delete"} : \E c \in Calls(op) : \E o1, next : Does(op, c, o1, next)
  <2>1. CASE Reset BY <2>1 DEF Reset
  <2>2. CASE New BY <2>2 DEF New
  <2>3. CASE Delete BY <2>3 DEF Delete
  <2> QED BY <2>1, <2>2, <2>3
<1>9. PICK c \in Calls(op) : \E o1, next : Does(op, c, o1, next) BY <1>0
<1>1. PICK o1, next : Does(op, c, o1, next) BY <1>9
<1>2. InHand(p)' \subseteq InHand(p) BY <1>1, HandsGo
<1>3. CASE c.on # p BY <1>1, <1>2, <1>3, OtherPool
<1>4. CASE c.on = p
  <2>1. obj'[p] = o1 BY <1>1, <1>4, Running DEF Put, Names, QueueObjects
  <2>2. c \in program.calls[k.cur] /\ c \in TaskCalls /\ c.op = op /\ k.cur \in Task BY Called, Running
  <2>3. obj[p].kind # "pool"
    <3>1. c \in AskedOf(program, p, {"send", "reset", "new", "delete"}) BY <1>4, <2>2 DEF AskedOf
    <3> QED BY <3>1, PoolAlone
  <2>4. CASE op = "reset"
    <3>1. Stocked(obj[p], Items) BY <1>1, <1>4, <2>4, Stands, Assumed DEF Stock, QueueObjects
    <3>2. o1.kind = obj[p].kind BY <1>1, <1>4, <2>4, <3>1, EmptiedFacts
    <3> QED BY <2>1, <2>3, <3>2 DEF StaysBacked
  <2>5. CASE op = "new"
    <3>1. c.kind # "pool" BY <2>2, <2>5, QueueCallKnown
    <3> QED BY <1>1, <2>1, <2>5, <3>1 DEF StaysBacked, NewQueue
  <2>6. CASE op = "delete" BY <1>1, <2>1, <2>6 DEF StaysBacked, NoObject
  <2> QED BY <2>4, <2>5, <2>6
<1> QED BY <1>3, <1>4
LEMMA InterruptsOff ==
  ASSUME ServicesInv, PoolsBacked, NEW p \in Queues, SendFromISR \/ ReceiveFromISR \/ PeekFromISR
  PROVE  StaysBacked(p)
<1> DEFINE Does(op, c, next) ==
      /\ FromISR(next) /\ obj[c.on].kind # "none"
      /\ \/ op = "send" /\ SendsFromISR(c.on, c.item, c.pos)
         \/ op = "receive" /\ ~Empty(obj[c.on])
            /\ Put(c.on, [TakeOut(obj[c.on]) EXCEPT !.rx = IF @ = -1 THEN @ ELSE @ + 1])
         \/ op = "peek" /\ Put(c.on, Peeked(obj[c.on])) /\ ~Empty(obj[c.on])
<1>0. PICK op \in {"send", "receive", "peek"} : \E c \in Interrupt(op) : \E next : Does(op, c, next)
  <2>1. CASE SendFromISR BY <2>1 DEF SendFromISR, SendsFromISR
  <2>2. CASE ReceiveFromISR BY <2>2 DEF ReceiveFromISR
  <2>3. CASE PeekFromISR BY <2>3 DEF PeekFromISR
  <2> QED BY <2>1, <2>2, <2>3
<1>9. PICK c \in Interrupt(op) : \E next : Does(op, c, next) BY <1>0
<1>1. PICK next : Does(op, c, next) BY <1>9
<1>2. InHand(p)' \subseteq InHand(p) BY <1>1, HandsStill DEF FromISR
<1>3. \E o1 : Put(c.on, o1) BY <1>1 DEF SendsFromISR
<1>4. CASE c.on # p BY <1>2, <1>3, <1>4, OtherPool
<1>5. CASE c.on = p
  <2>1. c \in program.isr /\ c.op = op BY DEF Interrupt
  <2>2. obj[p].kind # "pool"
    <3>1. c \in Raised(program, p, {"send"}) \cup Raised(program, p, {"receive", "peek"})
      BY <1>5, <2>1 DEF Raised
    <3> QED BY <3>1, PoolAlone
  <2>3. Stocked(obj[p], Items) BY <1>1, <1>5, Stands, Assumed DEF Stock, QueueObjects
  <2>4. obj'[p].kind = obj[p].kind
    <3>1. CASE op = "send"
      <4> DEFINE o2 == CopyIn(obj[p], c.item, c.pos)
      <4>1. Put(p, [o2 EXCEPT !.tx = IF o2.tx = -1 THEN o2.tx ELSE o2.tx + 1])
        BY <1>1, <1>5, <3>1 DEF SendsFromISR
      <4>2. o2.kind = obj[p].kind /\ "kind" \in DOMAIN o2 BY <2>3 DEF CopyIn, Stocked, QueueFields
      <4> HIDE DEF o2
      <4> QED BY <4>1, <4>2, Running DEF Put, Names, QueueObjects
    <3>2. CASE op # "send"
      <4>1. obj[p].n # 0 BY <1>1, <1>5, <3>2 DEF Empty
      <4> DEFINE o2 == TakeOut(obj[p])
                 o3 == Peeked(obj[p])
      <4>2. /\ Stocked(o2, Items) /\ o2.kind = obj[p].kind /\ o3.kind = obj[p].kind
        BY <2>3, <4>1, CopyOutFacts DEF CopiedOut, Others
      <4>3. Put(p, [o2 EXCEPT !.rx = IF o2.rx = -1 THEN o2.rx ELSE o2.rx + 1]) \/ Put(p, o3)
        BY <1>1, <1>5, <3>2
      <4> HIDE DEF o2, o3
      <4>4. "kind" \in DOMAIN o2 BY <4>2 DEF Stocked, QueueFields
      <4> QED BY <4>2, <4>3, <4>4, Running DEF Put, Names, QueueObjects
    <3> QED BY <3>1, <3>2
  <2> QED BY <2>2, <2>4 DEF StaysBacked
<1> QED BY <1>4, <1>5

(* The steps of the pools.                                                   *)
LEMMA BackedVia ==
  ASSUME ServicesInv, NEW p \in Queues, NEW o, NEW m \in Nat, Stocked(o, Items), Backed(o, m),
         NEW o1, obj'[p] = o1, SameList(o, o1), o1.n \in Int, Cardinality(InHand(p)') + o1.n <= m + o.n
  PROVE  StaysBacked(p)
<1> DEFINE n == Cardinality(InHand(p)')
<1>1. n \in Nat BY HandsCounted
<1>2. n + o1.n <= m + o.n OBVIOUS
<1> HIDE DEF n
<1>3. Backed(o1, n) BY <1>1, <1>2, StillBacked
<1> QED BY <1>3 DEF StaysBacked, n
LEMMA AllotBacked == ASSUME ServicesInv, PoolsBacked, NEW p \in Queues, Allot PROVE StaysBacked(p)
<1> DEFINE q == Here.on
           o == obj[q]
           w == WithoutBlock(o)
           m == Cardinality(InHand(p))
           n == Cardinality(InHand(p)')
<1>1. /\ pc[k.cur] = "allot" /\ Moves("allot", "user", k) /\ Leave /\ Put(q, IF None(o) THEN o ELSE w)
  BY DEF Allot, Returns
<1>2. q \in Queues /\ o.kind = "pool" /\ k.cur \in Task
  BY <1>1, Running DEF Places, AtQueue, AtTimers, StreamPlaces, Here, Taking
<1>3. InHand(p)' \subseteq InHand(p) \ {k.cur} BY <1>1, HandsLeave
<1>4. CASE q # p
  <2>1. \E o1 : Put(q, o1) BY <1>1
  <2> QED BY <1>3, <1>4, <2>1, OtherPool
<1>5. CASE q = p
  <2>1. k.cur \in InHand(p) BY <1>1, <1>2, <1>5 DEF InHand, Here
  <2>2. n <= m - 1 /\ m \in Nat /\ n \in Nat BY <1>3, <2>1, HandsCounted
  <2>3. Stocked(o, Items) /\ p \in DOMAIN obj /\ Backed(o, m) BY <1>2, <1>5, PoolKnown DEF PoolsBacked
  <2>4. o.n \in Nat BY <2>3 DEF Stocked
  <2> HIDE DEF m, n
  <2>5. m > 0 /\ m - 1 \in Nat /\ n + o.n <= (m - 1) + o.n /\ n + o.n <= m + o.n BY <2>2, <2>4
  <2>6. CASE None(o)
    <3>1. obj'[p] = o BY <1>1, <1>5, <2>3, <2>6 DEF Put
    <3>2. SameList(o, o) BY <2>3, PoolSame
    <3> QED BY <2>2, <2>3, <2>4, <2>5, <3>1, <3>2, BackedVia DEF n
  <2>7. CASE ~None(o)
    <3>1. obj'[p] = w BY <1>1, <1>5, <2>3, <2>7 DEF Put
    <3>2. Backed(w, m - 1) /\ w.n = o.n BY <2>2, <2>3, <2>5, BlockTaken
    <3>3. Stocked(w, Items) BY <2>3, BlocksApart
    <3> DEFINE m1 == m - 1
    <3> HIDE DEF w
    <3>4. SameList(w, w) BY <3>2, PoolSame
    <3>5. m1 \in Nat /\ Backed(w, m1) /\ w.n \in Int /\ n + w.n <= m1 + w.n BY <2>4, <2>5, <3>2
    <3> HIDE DEF m1
    <3> QED BY <3>1, <3>3, <3>4, <3>5, BackedVia DEF n
  <2> QED BY <2>6, <2>7
<1> QED BY <1>4, <1>5
LEMMA FreeBacked == ASSUME ServicesInv, PoolsBacked, NEW p \in Queues, Free PROVE StaysBacked(p)
<1>1. PICK c \in Calls("release") : \E b \in obj[c.on].taken :
        /\ Moves("user", "try", k) /\ Enter(Begin(Send(c.on, Nothing, "back", 0)))
        /\ Put(c.on, FreeBlock(obj[c.on], b))
  BY DEF Free
<1>2. PICK b \in obj[c.on].taken :
        /\ Moves("user", "try", k) /\ Enter(Begin(Send(c.on, Nothing, "back", 0)))
        /\ Put(c.on, FreeBlock(obj[c.on], b))
  BY <1>1
<1> DEFINE q == c.on
           o == obj[q]
           w == FreeBlock(o, b)
           g == Begin(Send(q, Nothing, "back", 0))
           m == Cardinality(InHand(p))
           n == Cardinality(InHand(p)')
<1>3. q \in Queues /\ c \in AskedOf(program, q, {"release"})
  BY Called, QueueCallKnown DEF Plain, AskedOf, Callers
<1>4. o.kind = "pool" BY <1>3, PoolStands
<1>5. g.on = q BY DEF Begin, Send, Joined
<1>6. Moves("user", "try", k) /\ Enter(g) /\ Put(q, w) BY <1>2
<1> HIDE DEF g
<1>7. CASE q # p
  <2>1. InHand(p)' \subseteq InHand(p) BY <1>5, <1>6, <1>7, HandsElsewhere
  <2> QED BY <1>6, <1>7, <2>1, OtherPool
<1>8. CASE q = p
  <2>1. InHand(p)' \subseteq InHand(p) \cup {k.cur} BY <1>6, HandsEnter
  <2>2. n <= m + 1 /\ m \in Nat /\ n \in Nat BY <2>1, HandsCounted
  <2>3. Stocked(o, Items) /\ p \in DOMAIN obj /\ Backed(o, m) BY <1>4, <1>8, PoolKnown DEF PoolsBacked
  <2>4. o.n \in Nat BY <2>3 DEF Stocked
  <2>5. obj'[p] = w BY <1>6, <1>8, <2>3 DEF Put
  <2> HIDE DEF m, n
  <2> DEFINE m1 == m + 1
  <2>6. Backed(w, m1) /\ w.n = o.n BY <2>2, <2>3, BlockGivenBack
  <2>7. Stocked(w, Items) BY <2>3, BlocksApart
  <2>8. SameList(w, w) BY <2>6, PoolSame
  <2>9. m1 \in Nat /\ w.n \in Int /\ n + w.n <= m1 + w.n BY <2>2, <2>4, <2>6
  <2> HIDE DEF m1, w
  <2> QED BY <2>5, <2>6, <2>7, <2>8, <2>9, BackedVia DEF n
<1> QED BY <1>7, <1>8
LEMMA AllocFromISRBacked == ASSUME ServicesInv, PoolsBacked, NEW p \in Queues, AllocFromISR PROVE StaysBacked(p)
<1>1. PICK c \in Interrupt("alloc") :
        LET o2 == TakeOut(obj[c.on])
        IN /\ ~Empty(obj[c.on]) /\ UNCHANGED <<pc, frame>>
           /\ Put(c.on, WithoutBlock([o2 EXCEPT !.rx = IF o2.rx = -1 THEN o2.rx ELSE o2.rx + 1]))
  BY DEF AllocFromISR, FromISR
<1> DEFINE q == c.on
           o == obj[q]
           o2 == TakeOut(o)
           v == IF o2.rx = -1 THEN o2.rx ELSE o2.rx + 1
           o3 == [o2 EXCEPT !.rx = v]
           w == WithoutBlock(o3)
           m == Cardinality(InHand(p))
           n == Cardinality(InHand(p)')
<1>2. q \in Queues /\ c \in Raised(program, q, {"alloc", "release"})
  BY InterruptKnown, InterruptSorts DEF ServicesInv, Plain, Raised, Interrupt
<1>3. o.kind = "pool" BY <1>2, PoolStands
<1>4. InHand(p)' \subseteq InHand(p) BY <1>1, HandsStill
<1>5. Put(q, w) /\ o.n # 0 BY <1>1 DEF Empty
<1>6. CASE q # p BY <1>4, <1>5, <1>6, OtherPool
<1>7. CASE q = p
  <2>1. n <= m /\ m \in Nat /\ n \in Nat BY <1>4, HandsCounted
  <2>2. /\ Stocked(o, Items) /\ PoolFields \subseteq DOMAIN o /\ p \in DOMAIN obj /\ Backed(o, m) /\ o.n \in Nat
    BY <1>3, <1>7, PoolKnown DEF PoolsBacked
  <2>3. obj'[p] = w BY <1>5, <1>7, <2>2 DEF Put
  <2>4. Stocked(o2, Items) /\ o2.n = o.n - 1 BY <1>5, <2>2, CopyOutFacts
  <2>5. SameList(o, o2) BY <1>3, <2>2, KeepsList
  <2>6. v \in Int BY <2>4 DEF Stocked, Aside
  <2> HIDE DEF o2, v
  <2>7. Stocked(o3, Items) /\ o3.n = o2.n
    <3>1. Stocked(o3, Items) BY <2>4, <2>6, Relocks
    <3>2. o3.n = o2.n BY <2>4 DEF Stocked, QueueFields
    <3> QED BY <3>1, <3>2
  <2>8. SameList(o2, o3)
    <3>1. PoolFields \subseteq DOMAIN o2 BY <2>5 DEF SameList
    <3> QED BY <2>4, <3>1, KeepsList
  <2>9. SameList(o, o3) BY <2>5, <2>8, SameListAgain
  <2> HIDE DEF o3, m, n
  <2> DEFINE m1 == m + 1
  <2>10. m1 \in Nat /\ m1 > 0 /\ o3.n \in Int /\ m1 + o3.n <= m + o.n BY <2>1, <2>2, <2>4, <2>7
  <2>11. m1 - 1 = m BY <2>1
  <2> HIDE DEF m1
  <2>12. Backed(o3, m1) BY <2>1, <2>2, <2>9, <2>10, StillBacked
  <2>13. Backed(w, m1 - 1) /\ w.n = o3.n BY <2>7, <2>10, <2>12, BlockTaken
  <2>14. Backed(w, m) BY <2>11, <2>13
  <2>15. Stocked(w, Items) BY <2>7, BlocksApart
  <2> HIDE DEF w
  <2>16. SameList(w, w) BY <2>14, PoolSame
  <2>17. w.n \in Int /\ n + w.n <= m + w.n BY <2>1, <2>10, <2>13
  <2> QED BY <2>1, <2>3, <2>14, <2>15, <2>16, <2>17, BackedVia DEF n
<1> QED BY <1>6, <1>7
LEMMA FreeFromISRBacked == ASSUME ServicesInv, PoolsBacked, NEW p \in Queues, FreeFromISR PROVE StaysBacked(p)
<1>1. PICK c \in Interrupt("release") : \E b \in obj[c.on].taken :
        LET o3 == FreeBlock(obj[c.on], b)
            o2 == CopyIn(o3, Nothing, "back")
        IN /\ ~Full(o3) /\ UNCHANGED <<pc, frame>>
           /\ Put(c.on, [o2 EXCEPT !.tx = IF o2.tx = -1 THEN o2.tx ELSE o2.tx + 1])
  BY DEF FreeFromISR, FromISR
<1>2. PICK b \in obj[c.on].taken :
        LET o3 == FreeBlock(obj[c.on], b)
            o2 == CopyIn(o3, Nothing, "back")
        IN /\ ~Full(o3) /\ UNCHANGED <<pc, frame>>
           /\ Put(c.on, [o2 EXCEPT !.tx = IF o2.tx = -1 THEN o2.tx ELSE o2.tx + 1])
  BY <1>1
<1> DEFINE q == c.on
           o == obj[q]
           o3 == FreeBlock(o, b)
           o2 == CopyIn(o3, Nothing, "back")
           v == IF o2.tx = -1 THEN o2.tx ELSE o2.tx + 1
           o1 == [o2 EXCEPT !.tx = v]
           m == Cardinality(InHand(p))
           n == Cardinality(InHand(p)')
<1>3. q \in Queues /\ c \in Raised(program, q, {"alloc", "release"})
  BY InterruptKnown, InterruptSorts DEF ServicesInv, Plain, Raised, Interrupt
<1>4. o.kind = "pool" BY <1>3, PoolStands
<1>5. InHand(p)' \subseteq InHand(p) BY <1>2, HandsStill
<1>6. Put(q, o1) /\ ~Full(o3) BY <1>2
<1>7. CASE q # p BY <1>5, <1>6, <1>7, OtherPool
<1>8. CASE q = p
  <2>1. n <= m /\ m \in Nat /\ n \in Nat BY <1>5, HandsCounted
  <2>2. Stocked(o, Items) /\ p \in DOMAIN obj /\ Backed(o, m) /\ o.n \in Nat
    BY <1>4, <1>8, PoolKnown DEF PoolsBacked
  <2>3. obj'[p] = o1 BY <1>6, <1>8, <2>2 DEF Put
  <2> HIDE DEF m, n
  <2> DEFINE m1 == m + 1
  <2>4. Backed(o3, m1) /\ o3.n = o.n BY <2>1, <2>2, BlockGivenBack
  <2>5. Stocked(o3, Items) /\ o3.kind = "pool" BY <1>4, <2>2, BlocksApart
  <2> HIDE DEF o3, m1
  <2>6. PoolFields \subseteq DOMAIN o3 BY <2>4 DEF Backed
  <2>7. Admits(o3, "back") BY <1>6 DEF Admits
  <2>8. Stocked(o2, Items) /\ o2.n = o3.n + 1 BY <2>5, <2>7, CopyInFacts DEF CopiedIn
  <2>9. SameList(o3, o2) BY <2>5, <2>6, KeepsList
  <2> HIDE DEF o2, v
  <2>10. SameList(o2, o1)
    <3>1. PoolFields \subseteq DOMAIN o2 BY <2>9 DEF SameList
    <3> QED BY <2>8, <3>1, KeepsList
  <2>11. o1.n = o2.n BY <2>8 DEF Stocked, QueueFields
  <2> HIDE DEF o1
  <2>12. SameList(o3, o1) BY <2>9, <2>10, SameListAgain
  <2>13. m1 \in Nat /\ o1.n \in Int /\ n + o1.n <= m1 + o3.n BY <2>1, <2>2, <2>4, <2>8, <2>11 DEF m1
  <2> QED BY <2>3, <2>4, <2>5, <2>12, <2>13, BackedVia DEF n
<1> QED BY <1>7, <1>8

LEMMA StepBacked == ASSUME ServicesInv, PoolsBacked, [Next]_serviceVars PROVE PoolsBacked'
<1> SUFFICES ASSUME NEW p \in Queues PROVE StaysBacked(p)
  BY Zenon DEF StaysBacked, PoolsBacked, Backed
<1>0. ASSUME Untouched, InHand(p)' \subseteq InHand(p) PROVE StaysBacked(p) BY <1>0, PoolsStay
<1>1. CASE UNCHANGED serviceVars
  <2>1. InHand(p)' \subseteq InHand(p) BY <1>1, HandsStill DEF serviceVars
  <2> QED BY <1>0, <1>1, <2>1 DEF serviceVars, Untouched
<1>2. CASE OwnerSteps \/ TaskMalloc \/ TaskFree
  <2>1. Things \cap Queues = {} BY Assumed
  <2> QED BY <1>0, <1>2, <2>1, OwnersApart, OnlyUntouched, OwnersOff
<1>3. CASE OwnCode \/ Interrupts \/ Resume \/ YieldWithinAPI \/ Delay
  <2>1. UNCHANGED obj BY <1>3 DEF OwnCode, Interrupts, Resume, YieldWithinAPI, Delay, objectVars
  <2> QED BY <1>0, <1>3, <2>1, KernelOff DEF Untouched
<1>4. CASE QueueSteps
  BY <1>4, SendsToPool, TakesFromPool, ReceivesOff, WaitsOff, LocksOff, CountsOff, LivesOff, InterruptsOff
  DEF QueueSteps
<1>5. CASE GroupSteps
  <2>1. Groups \cap Queues = {} BY Assumed
  <2> QED BY <1>0, <1>5, <2>1, GroupsApart, OnlyUntouched, GroupsOff
<1>6. CASE StreamSteps
  <2>1. Streams \cap Queues = {} BY Assumed
  <2> QED BY <1>0, <1>6, <2>1, StreamsApart, OnlyUntouched, StreamsOff
<1>7. CASE TimerSteps
  <2>1. ({"timers", TimerQueue} \cup Groups) \cap Queues = {} BY Assumed
  <2> QED BY <1>0, <1>7, <2>1, TimersApart, OnlyUntouched, TimersOff
<1>8. CASE PoolSteps
  BY <1>8, AllotBacked, FreeBacked, AllocFromISRBacked, FreeFromISRBacked DEF PoolSteps
<1> QED BY <1>1, <1>2, <1>3, <1>4, <1>5, <1>6, <1>7, <1>8 DEF Next
LEMMA InitBacked == ASSUME Init PROVE PoolsBacked
<1> SUFFICES ASSUME NEW p \in Queues, obj[p].kind = "pool" PROVE Backed(obj[p], Cardinality(InHand(p)))
  BY DEF PoolsBacked
<1>1. program \in Programs /\ obj = program.objects BY DEF Init
<1>2. obj[p] = NoObject \/ NewlyMade(obj[p]) BY <1>1, Assumed DEF Sensible, Provided
<1>3. NewlyMade(obj[p]) BY <1>2 DEF NoObject
<1> DEFINE l == obj[p].len
           o == NewPool(l)
<1>4. obj[p] = o /\ l \in Nat BY <1>3 DEF NewlyMade, Some
<1> HIDE DEF l
<1>5. /\ PoolFields \subseteq DOMAIN o /\ o.blocks = <<>> /\ o.created = 0 /\ o.taken = {}
      /\ o.len = l /\ o.n = l
  BY DEF NewPool, Joined, NewQueue, PoolFields
<1> HIDE DEF o
<1>6. Cardinality(InHand(p)) = 0
  <2>1. InHand(p) = {} BY DEF Init, InHand, NoCall
  <2> QED BY <2>1, FS_EmptySet
<1>7. Cardinality(o.taken) = 0 BY <1>5, FS_EmptySet
<1>8. o.blocks \in Seq(Nat) /\ IsInjective(o.blocks) /\ ToSet(o.blocks) = {} BY <1>5 DEF IsInjective, ToSet
<1>9. 0 .. o.created - 1 = {} BY <1>5
<1>10. Cardinality(o.taken) + 0 <= o.len - o.n BY <1>4, <1>5, <1>7
<1>11. Backed(o, 0) BY <1>4, <1>5, <1>8, <1>9, <1>10 DEF Backed
<1> QED BY <1>4, <1>6, <1>11
LEMMA BackedSound == ASSUME ServicesInv, PoolsBacked PROVE PoolBacked
<1> SUFFICES ASSUME NEW p \in Queues, obj[p].kind = "pool"
             PROVE  LET o == obj[p]
                        atList == {t \in Task : pc[t] = "allot" /\ frame[t].on = p}
                    IN /\ IsInjective(o.blocks) /\ ToSet(o.blocks) \cap o.taken = {}
                       /\ ToSet(o.blocks) \cup o.taken = 0 .. o.created - 1 /\ o.created <= o.len
                       /\ Cardinality(o.taken) + Cardinality(atList) <= osMemoryPoolGetCount(o)
  BY DEF PoolBacked
<1> DEFINE o == obj[p]
           m == Cardinality(InHand(p))
           atList == {t \in Task : pc[t] = "allot" /\ frame[t].on = p}
<1>1. Stocked(o, Items) /\ Backed(o, m) BY PoolKnown DEF PoolsBacked
<1>2. m \in Nat BY HandsCounted
<1>3. Cardinality(atList) \in Nat /\ Cardinality(atList) <= m
  <2>1. atList \subseteq InHand(p) /\ InHand(p) \subseteq Task BY DEF InHand
  <2> HIDE DEF atList
  <2>2. IsFiniteSet(InHand(p)) BY <2>1, Assumed, FS_Subset
  <2>3. IsFiniteSet(atList) /\ Cardinality(atList) <= Cardinality(InHand(p)) BY <2>1, <2>2, FS_Subset
  <2> QED BY <2>3, FS_CardinalityType
<1>4. Cardinality(o.taken) \in Nat /\ o.len \in Nat /\ o.n \in Nat BY <1>1, <1>2, Listed
<1>5. osMemoryPoolGetCount(o) = o.len - o.n
  BY DEF osMemoryPoolGetCount, osMemoryPoolGetCapacity, osMemoryPoolGetSpace, uxQueueMessagesWaiting
<1>6. Cardinality(o.taken) + m <= o.len - o.n BY <1>1 DEF Backed
<1> HIDE DEF m, atList
<1>7. Cardinality(o.taken) + Cardinality(atList) <= osMemoryPoolGetCount(o) BY <1>2, <1>3, <1>4, <1>5, <1>6
<1> QED BY <1>1, <1>7 DEF Backed, atList

(* Whoever has a pool's semaphore finds a block: a block is in one place, and *)
(* the semaphore leaves one for everybody on the way to the list.            *)
THEOREM PoolsAreBacked == Spec => []PoolBacked
<1>1. Init => PoolsBacked BY InitBacked
<1>2. ServicesInv /\ PoolsBacked /\ [Next]_serviceVars => PoolsBacked' BY StepBacked
<1>3. ServicesInv /\ PoolsBacked => PoolBacked BY BackedSound
<1> QED BY <1>1, <1>2, <1>3, ServicesSound, PTL DEF Spec
=============================================================================
