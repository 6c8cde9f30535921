------------------------------ MODULE Protocol ------------------------------
(***************************************************************************)
(* The line protocol of the application (app/src/Protocol.c) and one client. *)
(* The UART interrupt assembles lines in buffers it shares with the protocol *)
(* task; the task answers; the board hears its own answer on the half-duplex *)
(* bus.  A client waits for the answer of one line before it sends the next, *)
(* unless it gives up waiting.                                               *)
(*                                                                         *)
(* A command is a byte for its text and, when it is sent checked, another    *)
(* one for its *HH suffix.  What it does to the variables is of no concern   *)
(* here; outcome compares what is dispatched with what the client asked for. *)
(***************************************************************************)
EXTENDS Naturals, Sequences

CONSTANTS
  Commands,   \* command lines the client sends
  Checked,    \* those sent with a checksum
  Jumps,      \* those that hand off to the bootloader: update, rollback, reset
  LineMax,    \* PROTOCOL_LINE_MAX
  Settle      \* commands after a pause with which a fault is over

ASSUME CommandsAssumption ==
  /\ Commands \intersect {"end", "board", "none", "repeat", "bad checksum", "unknown"} = {}
  /\ Checked \subseteq Commands /\ Jumps \subseteq Commands
ASSUME LineAssumption == LineMax \in Nat /\ LineMax >= 2
ASSUME SettleAssumption == Settle \in Nat

Byte(of, at) == [of |-> of, at |-> at]
Text(c) == <<Byte(c, "text")>>
Sent(c) == IF c \in Checked THEN Append(Text(c), Byte(c, "sum")) ELSE Text(c)

CR == Byte("end", "CR")
LF == Byte("end", "LF")
None == Byte("end", "none")
Terminators == {CR, LF}
Endings == {<<CR>>, <<LF>>, <<CR, LF>>}
Answer == <<Byte("board", "crc"), LF, LF>>   \* body and crc, then the empty line
ClientBytes == [of : Commands, at : {"text", "sum"}]
Bytes == ClientBytes \union {Answer[1]}
Empty == << >>

(* What ProtocolProcessLine makes of a line: a command, the wish to repeat    *)
(* one, a bad checksum, or a command there is none of.  The XOR-8 checksum   *)
(* is taken to tell every line that is not the one it was computed for.      *)
Meanings == Commands \union {"repeat", "bad checksum", "unknown"}
HasSum(l) == \E i \in DOMAIN l : l[i].at = "sum"
Meaning(l) ==
  CASE l = Empty -> "repeat"
    [] \E c \in Commands : l \in {Text(c), Sent(c)} -> l[1].of
    [] HasSum(l) /\ l \notin {Sent(c) : c \in Checked} -> "bad checksum"
    [] OTHER -> "unknown"

VARIABLES
  line,          \* sLine, sLen
  pendEOL,       \* sPendEOL
  ready,         \* sReady, as its Meaning
  readyFlag,     \* sReadyFlag
  txActive,      \* sTxActive
  woken,         \* the thread flag of protocolTask
  late,          \* a byte has come since the task should have run
  last,          \* sLast
  resetPending,  \* sResetPending
  pc,            \* where protocolTask is
  echo,          \* what is still to be transmitted of the answer
  out,           \* what the client has still to send of its line
  asking,        \* the client waits for an answer
  due,           \* the command it asks for
  ending,        \* first terminator of the line before
  outcome,       \* what has been dispatched since it began to send that line
  clean          \* exchanges since the last fault, up to Settle

buffers == <<line, pendEOL, ready, readyFlag>>
task == <<pc, last, resetPending>>
client == <<out, asking, due, ending>>
vars == <<buffers, txActive, woken, late, task, echo, client, outcome, clean>>

TypeOK ==
  /\ line \in Seq(Bytes) /\ Len(line) <= LineMax
  /\ ready \in Meanings /\ last \in Commands \union {"none", "unknown"}
  /\ pendEOL \in Terminators \union {None}
  /\ readyFlag \in BOOLEAN /\ txActive \in BOOLEAN /\ woken \in BOOLEAN /\ late \in BOOLEAN
  /\ resetPending \in BOOLEAN /\ asking \in BOOLEAN
  /\ pc \in {"wait", "service", "mark", "settle", "answer", "handoff", "gone"}
  /\ Len(echo) <= Len(Answer) /\ Len(out) <= LineMax + 2
  /\ due \in Commands \union {"none"} /\ ending \in Terminators \union {None}
  /\ outcome \in {"pending", "done", "wrong"} /\ clean \in 0..Settle

Init ==
  /\ line = Empty /\ pendEOL = None /\ ready = "repeat" /\ readyFlag = FALSE
  /\ txActive = FALSE /\ woken = FALSE /\ late = FALSE
  /\ pc = "wait" /\ last = "none" /\ resetPending = FALSE
  /\ echo = Empty /\ out = Empty /\ asking = FALSE /\ due = "none" /\ ending = None
  /\ outcome = "done" /\ clean = Settle

Disturbed == clean' = 0    \* history: something happened that the client must live with

-----------------------------------------------------------------------------
(* The receive interrupt *)

Extended(b) == IF Len(line) < LineMax THEN Append(line, b) ELSE line

(* Mutant: the second half of CR LF is taken for an empty line.             *)
SecondHalfNever(b) == FALSE

(* Mutant: the second half is expected although no terminator is pending.   *)
SecondHalfAny(b) == b # pendEOL

SecondHalf(b) == pendEOL # None /\ b # pendEOL

FeedContent(b) ==
  /\ b \notin Terminators
  /\ line' = Extended(b) /\ pendEOL' = None
  /\ UNCHANGED <<ready, readyFlag>>

FeedEnd(b) ==
  /\ b \in Terminators /\ line # Empty
  /\ ready' = Meaning(line) /\ readyFlag' = TRUE
  /\ line' = Empty /\ pendEOL' = b

FeedSecondHalf(b) ==
  /\ b \in Terminators /\ line = Empty /\ SecondHalf(b)
  /\ pendEOL' = None /\ UNCHANGED <<line, ready, readyFlag>>

FeedEmpty(b) ==
  /\ b \in Terminators /\ line = Empty /\ ~SecondHalf(b)
  /\ ready' = Meaning(Empty) /\ readyFlag' = TRUE
  /\ pendEOL' = None /\ UNCHANGED line

ProtocolFeedByte(b) == FeedContent(b) \/ FeedEnd(b) \/ FeedSecondHalf(b) \/ FeedEmpty(b)

(* Mutant: the echo is not dropped.                                         *)
ListeningAlways == pc # "gone"

Listening == ~txActive /\ pc # "gone"

RxCplt(b) ==
  IF Listening
  THEN ProtocolFeedByte(b) /\ woken' = (woken \/ readyFlag')
  ELSE UNCHANGED <<buffers, woken>>

-----------------------------------------------------------------------------
(* The protocol task *)

Wait ==
  /\ pc = "wait" /\ woken
  /\ woken' = FALSE /\ pc' = "service"
  /\ UNCHANGED <<buffers, txActive, late, last, resetPending, echo, client, outcome, clean>>

NothingReady ==
  /\ pc = "service" /\ ~readyFlag
  /\ pc' = "wait" /\ late' = FALSE
  /\ UNCHANGED <<buffers, txActive, woken, last, resetPending, echo, client, outcome, clean>>

TakeLine ==
  /\ pc = "service" /\ readyFlag
  /\ readyFlag' = FALSE /\ pc' = "mark"
  /\ UNCHANGED <<line, pendEOL, ready, txActive, woken, late, last, resetPending, echo, client, outcome, clean>>

MarkBusy ==
  /\ pc = "mark"
  /\ txActive' = TRUE /\ pc' = "settle" /\ late' = FALSE
  /\ UNCHANGED <<buffers, woken, last, resetPending, echo, client, outcome, clean>>

(* respBegin's delay is over: the line is checked, remembered, dispatched.   *)
Rejects ==
  /\ ready = "bad checksum"
  /\ UNCHANGED <<last, resetPending, outcome>>

Dispatches ==
  /\ ready # "bad checksum"
  /\ last' = IF ready = "repeat" THEN last ELSE ready
  /\ outcome' = IF outcome = "pending" /\ last' = due THEN "done" ELSE "wrong"
  /\ resetPending' = (resetPending \/ last' \in Jumps)

(* PROTOCOL_TX_SETTLE_MS lasts 23 byte times: the LF that follows a CR has    *)
(* come by then.                                                             *)
BusSettled == ~(ending = CR /\ out = <<LF>>)

ProtocolProcessLine ==
  /\ pc = "settle" /\ BusSettled
  /\ Rejects \/ Dispatches
  /\ echo' = Answer /\ pc' = "answer"
  /\ UNCHANGED <<buffers, txActive, woken, late, client, clean>>

(* Every byte transmitted comes back through the receive interrupt.          *)
Transmit ==
  /\ pc = "answer" /\ echo # Empty
  /\ RxCplt(Head(echo)) /\ echo' = Tail(echo)
  /\ UNCHANGED <<txActive, late, task, client, outcome, clean>>

(* The answer has left the wire.  The few instructions to sTxActive = 0 take  *)
(* less than the first byte of the client's next line.                       *)
Answered(heard) ==
  /\ pc = "answer" /\ echo = Empty
  /\ txActive' = FALSE
  /\ pc' = IF resetPending THEN "handoff" ELSE "wait"
  /\ IF heard THEN clean' = clean ELSE Disturbed
  /\ asking' = (asking /\ ~(heard /\ out = Empty))
  /\ UNCHANGED <<buffers, woken, late, last, resetPending, echo, out, due, ending, outcome>>

Handoff ==
  /\ pc = "handoff"
  /\ pc' = "gone" /\ Disturbed
  /\ UNCHANGED <<buffers, txActive, woken, late, last, resetPending, echo, client, outcome>>

(* The application runs again: .bss is cleared and ProtocolStart is called.  *)
ProtocolStart ==
  /\ pc = "gone"
  /\ line' = Empty /\ pendEOL' = None /\ ready' = "repeat" /\ readyFlag' = FALSE
  /\ woken' = FALSE /\ late' = FALSE /\ pc' = "wait" /\ last' = "none" /\ resetPending' = FALSE
  /\ UNCHANGED <<txActive, echo, client, outcome, clean>>

Task ==
  \/ Wait \/ NothingReady \/ TakeLine \/ MarkBusy \/ ProtocolProcessLine
  \/ Transmit \/ Answered(TRUE) \/ Handoff

-----------------------------------------------------------------------------
(* The client *)

Ask(bytes, command, end) ==
  /\ ~asking /\ out = Empty
  /\ out' = bytes \o end /\ asking' = TRUE /\ due' = command /\ ending' = Head(end)
  /\ outcome' = "pending"
  /\ UNCHANGED <<buffers, txActive, woken, late, task, echo>>

(* After a fault the count begins when the client has waited until the board  *)
(* has nothing left to do.                                                   *)
Paused == pc = "wait" /\ ~woken /\ ~readyFlag

AskCommand(c, end) ==
  /\ Ask(Sent(c), c, end)
  /\ clean' = IF clean < Settle /\ (clean > 0 \/ Paused) THEN clean + 1 ELSE clean

(* An empty line repeats the command before it.  One that does not end like   *)
(* the line before it, or ends in both terminators, is taken for a fault: it  *)
(* may be swallowed as a second half, or be taken for two.                   *)
AskRepeat(end) ==
  /\ Ask(Empty, due, end)
  /\ IF Len(end) = 1 /\ (ending = None \/ ending = Head(end)) THEN clean' = clean ELSE Disturbed

(* The task outranks the others and waits for nothing between its wake-up     *)
(* and sTxActive = 1: there is time for one byte, never for two.             *)
Urgent == (pc = "wait" /\ woken) \/ pc \in {"service", "mark"}

SendByte ==
  /\ out # Empty /\ ~late /\ late' = Urgent
  /\ RxCplt(Head(out)) /\ out' = Tail(out)
  /\ IF pc = "gone" THEN Disturbed ELSE clean' = clean
  /\ UNCHANGED <<txActive, task, echo, asking, due, ending, outcome>>

LoseByte ==
  /\ out # Empty
  /\ out' = Tail(out) /\ Disturbed
  /\ UNCHANGED <<buffers, txActive, woken, late, task, echo, asking, due, ending, outcome>>

GivesUp ==
  /\ asking /\ out = Empty
  /\ asking' = FALSE /\ Disturbed
  /\ UNCHANGED <<buffers, txActive, woken, late, task, echo, out, due, ending, outcome>>

Client ==
  \/ \E c \in Commands, end \in Endings : AskCommand(c, end)
  \/ \E end \in Endings : AskRepeat(end)
  \/ SendByte

Faults == LoseByte \/ GivesUp \/ Answered(FALSE)

Next == Task \/ ProtocolStart \/ Client \/ Faults

(* The processor runs the task, and the client sends the line it has begun.  *)
Spec == Init /\ [][Next]_vars /\ WF_vars(Task) /\ WF_vars(SendByte)

-----------------------------------------------------------------------------
(* Properties *)

Settled == clean = Settle
Between == ~asking /\ out = Empty

(* What a client that waits for its answers asked for is dispatched once, and *)
(* nothing else, whatever terminators it uses and although the second half of *)
(* CR LF and the board's own echo arrive while the task works; and every      *)
(* fault (a lost byte or answer, a line sent too early, a hand-off, an empty  *)
(* line with another terminator) is over after one pause and one line, whose *)
(* command may be lost or garbled (ProtocolFeedByte, ProtocolService).       *)
OncePerLine == Settled => /\ outcome # "wrong"
                          /\ Between => outcome = "done"

(* No byte of the board's own answer is ever assembled into a line: the echo  *)
(* is dropped, or one answer would be the next command                       *)
(* (HAL_UART_RxCpltCallback).                                                *)
NoEcho == \A i \in DOMAIN line : line[i].of # "board"

(* And what is assembled fits in the buffer.                                 *)
LineSound == TypeOK /\ NoEcho

(* A client that waits always gets its answer: the wake-up is never lost      *)
(* between the flag of the interrupt and the thread flag of the task.        *)
AlwaysAnswered == (asking /\ Settled) ~> (~asking \/ ~Settled)
=============================================================================
