----------------------------- MODULE StreamBuffer -----------------------------
(***************************************************************************)
(* Stream and message buffers (stream_buffer.c): a ring of bytes with one    *)
(* writer and one reader, who keep no lock while they copy and wake each     *)
(* other with a task notification.  In a message buffer every message is     *)
(* preceded by its length.                                                   *)
(*                                                                         *)
(* The bytes written are numbered, modulo Numbers; a cell holds such a byte  *)
(* or a length.  The length of a message is one cell here and four bytes in the *)
(* code: it is written and read whole.                                       *)
(***************************************************************************)
EXTENDS Objects, Notify

CONSTANTS
  Streams,
  Numbers    \* bytes are numbered modulo this, more than fit in a buffer

NewStream(kind, size, trigger) ==
  [kind |-> kind, length |-> size + 1, trigger |-> IF trigger = 0 THEN 1 ELSE trigger,
   head |-> 0, tail |-> 0, cells |-> [i \in 0 .. size |-> Nothing],
   receiver |-> Nothing, sender |-> Nothing, sent |-> 0, got |-> 0]
Header(o) == IF o.kind = "message" THEN 1 ELSE 0
BytesIn(o) == (o.head - o.tail) % o.length
(* Faulty variant: head may catch up with tail.                              *)
SpaceWhole(o) == o.length - BytesIn(o)
Space(o) == o.length - 1 - BytesIn(o)

(* prvWriteBytesToBuffer and prvReadBytesFromBuffer, in two copies when the  *)
(* bytes lie across the end of the ring.                                     *)
Write(o, bytes) ==
  [o EXCEPT !.cells = [i \in DOMAIN @ |-> LET d == (i - o.head) % o.length
                                          IN IF d < Len(bytes) THEN bytes[d + 1] ELSE @[i]],
            !.head = (@ + Len(bytes)) % o.length]
Cell(o, i) == o.cells[(o.tail + i) % o.length]
Read(o, n) == [o EXCEPT !.tail = (@ + n) % o.length]
Data(o, n) == [i \in 1 .. n |-> [byte |-> (o.sent + i - 1) % Numbers]]
WriteData(o, n) == [Write(o, Data(o, n)) EXCEPT !.sent = (@ + n) % Numbers]
ReadData(o, n) == [Read(o, n) EXCEPT !.got = (@ + n) % Numbers]
Smaller(a, b) == IF a < b THEN a ELSE b

xStreamBufferSend(s, n, ticks) == [op |-> "put", on |-> s, n |-> n, ticks |-> ticks]
xStreamBufferReceive(s, max, ticks) == [op |-> "get", on |-> s, n |-> max, ticks |-> ticks]
InStream(op) == {c \in Calls(op) : obj[c.on].kind \in {"stream", "message"}}
At(l) == pc[k.cur] = l
O == obj[Here.on]
Changes(o1) == Put(Here.on, o1)

-----------------------------------------------------------------------------
(* xStreamBufferSend: with time to wait, until there is room for all of it.  *)
Needed == Here.n + Header(O)
StreamSend ==
  \E c \in InStream("put") :
    /\ Moves("user", IF c.ticks = 0 THEN "measure" ELSE "room", k)
    /\ Enter([op |-> "put", on |-> c.on, n |-> c.n, to |-> TimeOut(k, c.ticks), space |-> 0,
              next |-> "user", blocks |-> FALSE])
    /\ UNCHANGED obj
NoNote == [k EXCEPT !.nstate[k.cur] = IF @ = "received" THEN "no" ELSE @]
Room ==
  /\ At("room")
  /\ Enter([Here EXCEPT !.space = Space(O)])
  /\ IF Space(O) < Needed
       THEN Moves("room", "sleep", NoNote) /\ Changes([O EXCEPT !.sender = k.cur])
       ELSE Moves("room", "measure", k) /\ UNCHANGED obj

(* xTaskNotifyWait, which both ends use: to sleep, and to be awake again.    *)
Sleep ==
  At("sleep") /\ UNCHANGED obj
    /\ Goes("sleep", "slept", IF k.nstate[k.cur] = "received" THEN k ELSE Block(Here.to.left))
Slept ==
  At("slept") /\ Goes("slept", "forget", [k EXCEPT !.nstate[k.cur] = "no"]) /\ UNCHANGED obj
Forget ==
  /\ At("forget")
  /\ IF Here.op = "put" THEN Goes("forget", "expired", k) /\ Changes([O EXCEPT !.sender = Nothing])
     ELSE Goes("forget", "look", k) /\ Changes([O EXCEPT !.receiver = Nothing])
Expired ==
  /\ At("expired") /\ UNCHANGED obj
  /\ IF TimedOut(k, Here.to) THEN Goes("expired", "measure", k)
     ELSE Moves("expired", "room", k) /\ Enter([Here EXCEPT !.to = Rest(k, @)])

(* prvWriteMessageToBuffer: the length first, when all of it fits, then the  *)
(* data; of a stream, as much as fits.                                       *)
Measure ==
  LET space == IF Here.space = 0 THEN Space(O) ELSE Here.space
      n == IF Header(O) = 0 THEN Smaller(Here.n, space) ELSE IF space >= Needed THEN Here.n ELSE 0
  IN /\ At("measure")
     /\ IF n = 0 THEN Returns("measure", k) /\ UNCHANGED obj
        ELSE /\ Moves("measure", "data", k) /\ Enter([Here EXCEPT !.n = n])
             /\ IF Header(O) = 0 THEN UNCHANGED obj ELSE Changes(Write(O, <<[length |-> n]>>))
PutData == At("data") /\ Goes("data", "tell", k) /\ Changes(WriteData(O, Here.n))

(* Faulty variant: the reader is told above the trigger level, not at it.    *)
TellAbove ==
  /\ At("tell")
  /\ IF Here.op = "put" /\ BytesIn(O) <= O.trigger THEN Returns("tell", k)
     ELSE Goes("tell", "notify", SuspendAll(k))
  /\ UNCHANGED obj
(* sbSEND_COMPLETED and sbRECEIVE_COMPLETED: the other end, if it waits, is  *)
(* notified while the scheduler is suspended.                                *)
Tell ==
  /\ At("tell")
  /\ IF Here.op = "put" /\ BytesIn(O) < O.trigger THEN Returns("tell", k)
     ELSE Goes("tell", "notify", SuspendAll(k))
  /\ UNCHANGED obj
Notified(u) == IF u = Nothing THEN k ELSE GenericNotify(u, "eNoAction", {})
NotifyOther ==
  At("notify") /\
    IF Here.op = "put" THEN Goes("notify", "resume", Notified(O.receiver)) /\ Changes([O EXCEPT !.receiver = Nothing])
    ELSE Goes("notify", "resume", Notified(O.sender)) /\ Changes([O EXCEPT !.sender = Nothing])

(* xStreamBufferReceive.                                                     *)
StreamReceive ==
  \E c \in InStream("get") :
    LET o == obj[c.on]
        waits == c.ticks # 0 /\ BytesIn(o) <= Header(o)
    IN /\ Moves("user", IF waits THEN "sleep" ELSE "look", IF waits THEN NoNote ELSE k)
       /\ Enter([op |-> "get", on |-> c.on, n |-> c.n, to |-> TimeOut(k, c.ticks), space |-> 0,
                 next |-> "user", blocks |-> FALSE])
       /\ IF waits THEN Put(c.on, [o EXCEPT !.receiver = k.cur]) ELSE UNCHANGED obj
Look ==
  /\ At("look")
  /\ IF BytesIn(O) <= Header(O) THEN Returns("look", k)
     ELSE Moves("look", "length", k) /\ Enter([Here EXCEPT !.space = BytesIn(O)])
  /\ UNCHANGED obj
(* prvReadMessageFromBuffer: a message too long for the caller stays where   *)
(* it is.                                                                    *)
Length ==
  LET n == IF Header(O) = 0 THEN Here.n ELSE Cell(O, 0).length
  IN /\ At("length")
     /\ IF n > Here.n THEN Returns("length", k) /\ UNCHANGED obj
        ELSE /\ Moves("length", "copy", k)
             /\ Enter([Here EXCEPT !.n = Smaller(n, Here.space - Header(O))])
             /\ Changes(Read(O, Header(O)))
Copy == At("copy") /\ Goes("copy", "tell", k) /\ Changes(ReadData(O, Here.n))

(* xStreamBufferNextMessageLengthBytes, which expects to find no byte when   *)
(* it does not find more than a length.                                      *)
NextMessageLength ==
  \E c \in InStream("nextLength") :
    /\ Moves("user", IF BytesIn(obj[c.on]) \in 1 .. Header(obj[c.on]) THEN "asserted" ELSE "user", k)
    /\ UNCHANGED <<frame, obj>>

(* xStreamBufferReset, while nobody waits; in the middle of a copy it is     *)
(* misuse.  And xStreamBufferSetTriggerLevel.                                *)
NotInCall(s) == \A t \in Task : frame[t] # NoCall => frame[t].on # s
StreamReset ==
  \E c \in InStream("resetStream") :
    LET o == obj[c.on]
    IN /\ NotInCall(c.on)
       /\ o.receiver = Nothing /\ o.sender = Nothing
       /\ Moves("user", "user", k) /\ UNCHANGED frame
       /\ Put(c.on, [o EXCEPT !.head = 0, !.tail = 0, !.got = o.sent])
SetTriggerLevel ==
  \E c \in InStream("trigger") :
    LET level == IF c.level = 0 THEN 1 ELSE c.level
    IN /\ level <= obj[c.on].length
       /\ Moves("user", "user", k) /\ UNCHANGED frame
       /\ Put(c.on, [obj[c.on] EXCEPT !.trigger = level])

(* xStreamBufferGenericCreate, when there is memory, and vStreamBufferDelete. *)
StreamCreate ==
  \E c \in Calls("newStream") :
    /\ obj[c.on].kind = "none"
    /\ Moves("user", "user", k) /\ UNCHANGED frame
    /\ Put(c.on, NewStream(c.kind, c.size, c.level))
StreamDelete ==
  \E c \in InStream("deleteStream") :
    NotInCall(c.on) /\ Moves("user", "user", k) /\ UNCHANGED frame /\ Put(c.on, NoObject)

-----------------------------------------------------------------------------
(* xStreamBufferSendFromISR, xStreamBufferReceiveFromISR.                    *)
Told(u) == IF u = Nothing THEN k ELSE GenericNotifyFromISR(u, "eNoAction", {})
StreamSendFromISR ==
  \E c \in {d \in Interrupt("put") : obj[d.on].kind # "none"} :
    LET o == obj[c.on]
        n == IF Header(o) = 0 THEN Smaller(c.n, Space(o)) ELSE IF Space(o) > c.n THEN c.n ELSE 0
        o1 == WriteData(IF Header(o) = 0 THEN o ELSE Write(o, <<[length |-> n]>>), n)
        full == BytesIn(o1) >= o.trigger
    IN /\ n > 0
       /\ FromISR(IF full THEN Told(o.receiver) ELSE k)
       /\ Put(c.on, [o1 EXCEPT !.receiver = IF full THEN Nothing ELSE @])
StreamReceiveFromISR ==
  \E c \in {d \in Interrupt("get") : obj[d.on].kind # "none"} :
    LET o == obj[c.on]
        n == IF Header(o) = 0 THEN c.n ELSE Cell(o, 0).length
    IN /\ BytesIn(o) > Header(o) /\ n <= c.n
       /\ FromISR(Told(o.sender))
       /\ Put(c.on, [ReadData(Read(o, Header(o)), Smaller(n, BytesIn(o) - Header(o))) EXCEPT !.sender = Nothing])

StreamSteps ==
  \/ StreamSend \/ Room \/ Sleep \/ Slept \/ Forget \/ Expired \/ Measure \/ PutData \/ Tell
  \/ NotifyOther \/ StreamReceive \/ Look \/ Length \/ Copy \/ NextMessageLength
  \/ StreamReset \/ SetTriggerLevel \/ StreamCreate \/ StreamDelete
  \/ StreamSendFromISR \/ StreamReceiveFromISR
-----------------------------------------------------------------------------
(* The bytes between tail and head.                                          *)
Stored(o) == [i \in 1 .. BytesIn(o) |-> Cell(o, i - 1)]
IsStream(s) == obj[s].kind \in {"stream", "message"}
IsByte(cell) == "byte" \in DOMAIN cell

(* No byte is lost, repeated or overtaken: those in the buffer are the ones  *)
(* sent and not yet received, in order, whoever is in the middle of a copy.  *)
BytesInOrder ==
  \A s \in Streams :
    LET data == SelectSeq(Stored(obj[s]), IsByte)
    IN IsStream(s) =>
         /\ (obj[s].got + Len(data)) % Numbers = obj[s].sent
         /\ \A i \in DOMAIN data : data[i].byte = (obj[s].got + i - 1) % Numbers

(* Nobody sleeps while the other end has left what he waits for: bytes up to *)
(* the trigger level for the reader, or room for what the writer has, unless *)
(* the other end is still on its way to tell him.                            *)
Asleep(t, op) == frame[t] # NoCall /\ frame[t].op = op /\ k.nstate[t] = "waiting"
Telling(s, op) ==
  \E t \in Task : frame[t] # NoCall /\ frame[t].op = op /\ frame[t].on = s
                  /\ pc[t] \in {"data", "copy", "tell", "notify"}
NoForgottenSleeper ==
  \A t \in Task :
    LET s == frame[t].on
        o == obj[s]
    IN /\ Asleep(t, "get") /\ BytesIn(o) > Header(o) /\ BytesIn(o) >= o.trigger => Telling(s, "put")
       /\ Asleep(t, "put") /\ Space(o) >= frame[t].n + Header(o) => Telling(s, "get")
=============================================================================
