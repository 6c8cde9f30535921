------------------------------- MODULE Ymodem -------------------------------
(***************************************************************************)
(* The YMODEM transfer of one firmware file: ymodem_send of dro_update.py    *)
(* against ymodem_receive of the bootloader, over a half-duplex line that    *)
(* loses and damages what it carries.                                        *)
(*                                                                         *)
(* A packet is its block number and the part of the file it carries: 0 for   *)
(* the header, n for the n-th 1024-byte block.  What recv_packet rejects     *)
(* (framing, complement, CRC) is Noise.                                      *)
(***************************************************************************)
EXTENDS Integers, Sequences

CONSTANTS
  MaxBlocks,     \* blocks of the longest file sent
  RegionBlocks,  \* blocks that fit the region: APP_REGION_SIZE / 1024
  BlkMod,        \* block numbers are bytes: 256
  StartRetries,  \* times the receiver asks for the first packet
  Retries,       \* times the sender sends one packet
  Cap            \* bound on what is under way in one direction

ASSUME BlocksAssumption == MaxBlocks \in Nat /\ RegionBlocks \in Nat /\ BlkMod \in Nat
ASSUME RegionAssumption == RegionBlocks + 1 < BlkMod /\ MaxBlocks < BlkMod
ASSUME BoundsAssumption == StartRetries \in Nat /\ Retries \in Nat \ {0} /\ Cap \in Nat \ {0, 1}

Block(n) == [kind |-> "block", blk |-> n % BlkMod, part |-> n]
Header == Block(0)
NullHeader == [kind |-> "block", blk |-> 0, part |-> -1]
Signal(k) == [kind |-> k, blk |-> 0, part |-> 0]

Blocks == {Block(n) : n \in 0..MaxBlocks} \union {NullHeader}
Packets == Blocks \union {Signal(k) : k \in {"EOT", "CAN", "Noise"}}
Replies == {"C", "ACK", "NAK", "CAN"}
Silence == "Silence"    \* nothing was read before the timeout

VARIABLES
  blocks,     \* data blocks of the file
  spc,        \* what the sender waits for
  part,       \* the block it sends
  sent,       \* times it has sent it
  rpc,        \* where the receiver waits
  tries,      \* how often it has asked for the first packet
  expected,   \* next data block number
  written,    \* parts programmed, in the order of their flash offsets
  result,     \* what ymodem_receive returned
  toDevice, toHost,   \* what is on the line
  faults      \* history: which faults have happened

sender == <<spc, part, sent>>
receiver == <<rpc, tries, expected, written, result>>
vars == <<blocks, sender, receiver, toDevice, toHost, faults>>

Faults == {"lost", "misread", "early", "flash"}

TypeOK ==
  /\ blocks \in 0..MaxBlocks
  /\ spc \in {"hello", "header", "go", "data", "eot", "bye", "null", "done", "failed"}
  /\ part \in 0..MaxBlocks /\ sent \in 0..Retries
  /\ rpc \in {"hello", "first", "recv", "eot", "null", "done"}
  /\ tries \in 0..StartRetries
  /\ expected \in 0..(BlkMod - 1)
  /\ written \in Seq(0..MaxBlocks) /\ Len(written) <= RegionBlocks
  /\ result \in {"none", "ok", "timeout", "cancelled", "flash_err"}
  /\ toDevice \in Seq(Packets) /\ Len(toDevice) <= Cap
  /\ toHost \in Seq(Replies) /\ Len(toHost) <= Cap
  /\ faults \subseteq Faults

Init ==
  /\ blocks \in 0..MaxBlocks
  /\ spc = "hello" /\ part = 0 /\ sent = 0
  /\ rpc = "hello" /\ tries = 0 /\ expected = 1 /\ written = <<>> /\ result = "none"
  /\ toDevice = <<>> /\ toHost = <<>>
  /\ faults = {}

-----------------------------------------------------------------------------
(* The line.                                                                *)

SenderGone == spc \in {"done", "failed"}

\* After the end of a side nobody listens there.  The device has no receive
\* buffer: beyond Cap packets what is sent is lost.
Send(p) ==
  toDevice' = IF rpc = "done" THEN <<>> ELSE IF Len(toDevice) < Cap THEN Append(toDevice, p)
              ELSE toDevice

Answer(s) ==
  /\ SenderGone \/ Len(toHost) + Len(s) <= Cap
  /\ toHost' = IF SenderGone THEN <<>> ELSE toHost \o s

\* What the sender reads: the next reply, or nothing until its timeout, which
\* wait_for (C) meets among other bytes as well.  The timeout is early when the
\* receiver has yet to read what it was sent or to ask for the first packet.
SenderReads(b) ==
  \/ /\ toHost # <<>>
     /\ b = Head(toHost) /\ toHost' = Tail(toHost)
     /\ UNCHANGED faults
  \/ /\ toHost # <<>> => spc \in {"hello", "go", "bye"} /\ Head(toHost) # "C"
     /\ b = Silence
     /\ faults' = IF toDevice = <<>> /\ rpc # "hello" THEN faults ELSE faults \union {"early"}
     /\ UNCHANGED toHost

\* What the receiver reads.  Its second is early when the sender, which waits
\* longer for an answer, has not read one that is there.
ReceiverReads(p) ==
  \/ /\ toDevice # <<>>
     /\ p = Head(toDevice) /\ toDevice' = Tail(toDevice)
     /\ UNCHANGED faults
  \/ /\ toDevice = <<>> /\ p = Signal(Silence)
     /\ faults' = IF toHost = <<>> \/ SenderGone THEN faults ELSE faults \union {"early"}
     /\ UNCHANGED toDevice

-----------------------------------------------------------------------------
(* The sender (dro_update.py 49-106).                                       *)

Discards == UNCHANGED <<sender, toDevice>>
Stops(end) == spc' = end /\ UNCHANGED <<part, sent, toDevice>>

\* A packet is sent for the first time, or again.
Sends(state, n, p) == spc' = state /\ part' = n /\ sent' = 1 /\ Send(p)

\* Faulty variant: the retries are not counted.
SendsAgainForever(p) == UNCHANGED <<spc, part, sent>> /\ Send(p)

SendsAgain(p) == sent < Retries /\ sent' = sent + 1 /\ UNCHANGED <<spc, part>> /\ Send(p)

\* Faulty variant: any answer will do.
AcceptedAny(b) == b \in {"ACK", "NAK"}

Accepted(b) == b = "ACK"

\* Block n + 1, or EOT when there is none.
SendsNext(n) == IF n < blocks THEN Sends("data", n + 1, Block(n + 1)) ELSE Sends("eot", n, Signal("EOT"))

\* wait_for(C): anything else is skipped.
SenderHello(b) ==
  /\ spc = "hello"
  /\ CASE b = "C" -> Sends("header", 0, Header)
       [] b = Silence -> Stops("failed")
       [] OTHER -> Discards

SenderGo(b) ==
  /\ spc = "go"
  /\ CASE b = "C" -> SendsNext(0)
       [] b = Silence -> Stops("failed")
       [] OTHER -> Discards

\* After the last ACK the closing header is optional.
SenderBye(b) ==
  /\ spc = "bye"
  /\ CASE b = "C" -> Sends("null", part, NullHeader)
       [] b = Silence -> Stops("done")
       [] OTHER -> Discards

\* send_block of the header, a data block or the null header, whose result is
\* not looked at.
Current == IF spc = "header" THEN Header ELSE IF spc = "data" THEN Block(part) ELSE NullHeader

SenderBlock(b) ==
  /\ spc \in {"header", "data", "null"}
  /\ CASE Accepted(b) /\ spc = "header" -> Stops("go")
       [] Accepted(b) /\ spc = "data"   -> SendsNext(part)
       [] Accepted(b) /\ spc = "null"   -> Stops("done")
       [] b = "CAN"                   -> Stops("failed")
       [] b \in {"NAK", Silence}      -> \/ SendsAgain(Current)
                                         \/ /\ sent = Retries
                                            /\ Stops(IF spc = "null" THEN "done" ELSE "failed")
       [] b = "C"                     -> Discards

\* The EOT loop takes only ACK for an answer.
SenderEot(b) ==
  /\ spc = "eot"
  /\ CASE Accepted(b) -> Stops("bye")
       [] b \in {"NAK", "CAN", Silence} -> \/ SendsAgain(Signal("EOT"))
                                           \/ sent = Retries /\ Stops("failed")
       [] b = "C" -> Discards

SenderStep(b) ==
  /\ SenderReads(b)
  /\ SenderHello(b) \/ SenderGo(b) \/ SenderBye(b) \/ SenderBlock(b) \/ SenderEot(b)
  /\ UNCHANGED <<blocks, receiver>>

Sender == \E b \in Replies \union {Silence} : SenderStep(b)

-----------------------------------------------------------------------------
(* The receiver (ymodem.c).                                                 *)

Replace(s, i, t) == SubSeq(s, 1, i - 1) \o t \o SubSeq(s, i + 1, Len(s))

Ends(r) == rpc' = "done" /\ result' = r /\ UNCHANGED <<tries, expected, written>>
Waits(state) == rpc' = state /\ UNCHANGED <<tries, expected, written, result>>

\* Ask for the first packet, StartRetries times.
ReceiverAsks ==
  /\ rpc = "hello"
  /\ \/ /\ tries < StartRetries
        /\ Answer(<<"C">>)
        /\ rpc' = "first" /\ tries' = tries + 1
        /\ UNCHANGED <<expected, written, result>>
     \/ tries = StartRetries /\ Ends("timeout") /\ UNCHANGED toHost
  /\ UNCHANGED <<blocks, sender, toDevice, faults>>

\* Faulty variant: a repeated block is programmed again.
IsNextTwice(p) == p.blk = expected \/ p.blk = (expected - 1) % BlkMod

IsNext(p) == p.blk = expected

\* flash_program_write refuses what goes beyond the region.
Fits == Len(written) < RegionBlocks

\* A packet of the main loop: the next block, the last one again, or another.
ReceiverBlock(p) ==
  \/ /\ IsNext(p)
     /\ Fits
     /\ written' = Append(written, p.part)
     /\ expected' = (expected + 1) % BlkMod
     /\ rpc' = "recv"
     /\ Answer(<<"ACK">>)
     /\ UNCHANGED <<tries, result>>
  \/ /\ IsNext(p)
     /\ ~Fits
     /\ Ends("flash_err")
     /\ Answer(<<"CAN", "CAN">>)
  \/ /\ ~IsNext(p)
     /\ Answer(IF p.blk = (expected - 1) % BlkMod THEN <<"ACK">> ELSE <<"NAK">>)
     /\ Waits("recv")

\* Faulty variant: the data is not asked for.
HeaderAnswerAckOnly == <<"ACK">>

HeaderAnswer == <<"ACK", "C">>

\* The first packet is normally the header, of which only an empty name matters.
ReceiverFirst(p) ==
  /\ rpc = "first"
  /\ CASE p.kind = "CAN"                       -> Ends("cancelled") /\ UNCHANGED toHost
       [] p.kind \in {"EOT", "Noise", Silence} -> Waits("hello") /\ UNCHANGED toHost
       [] p = NullHeader                       -> Answer(<<"ACK">>) /\ Ends("timeout")
       [] p = Header                           -> Answer(HeaderAnswer) /\ Waits("recv")
       [] p.kind = "block" /\ p.blk # 0        -> ReceiverBlock(p)

ReceiverLoop(p) ==
  /\ rpc = "recv"
  /\ CASE p.kind = "EOT"                -> Answer(<<"NAK">>) /\ Waits("eot")
       [] p.kind = "CAN"                -> Ends("cancelled") /\ UNCHANGED toHost
       [] p.kind \in {"Noise", Silence} -> Answer(<<"NAK">>) /\ Waits("recv")
       [] p.kind = "block"              -> ReceiverBlock(p)

\* After the first EOT one byte is read: the second EOT, or the first byte of
\* something else, which is lost.
ReceiverEot(p) ==
  /\ rpc = "eot"
  /\ IF p.kind = "EOT" THEN Answer(<<"ACK", "C">>) /\ Waits("null")
     ELSE UNCHANGED toHost /\ Waits("recv")

\* Whatever comes for the closing header, the transfer is complete.
ReceiverNull(p) ==
  /\ rpc = "null"
  /\ IF p.kind = "block" /\ p.blk = 0 THEN Answer(<<"ACK">>) ELSE UNCHANGED toHost
  /\ Ends("ok")

Receiver ==
  \/ ReceiverAsks
  \/ \E p \in Packets \union {Signal(Silence)} :
       /\ ReceiverReads(p)
       /\ ReceiverFirst(p) \/ ReceiverLoop(p) \/ ReceiverEot(p) \/ ReceiverNull(p)
       /\ UNCHANGED <<blocks, sender>>

\* The erase before the first block, or a word of a block, fails.
FlashFails ==
  /\ rpc \in {"first", "recv"}
  /\ toDevice # <<>> /\ Head(toDevice).kind = "block" /\ Head(toDevice).part > 0
  /\ IsNext(Head(toDevice))
  /\ toDevice' = Tail(toDevice)
  /\ Answer(<<"CAN", "CAN">>)
  /\ Ends("flash_err")
  /\ faults' = faults \union {"flash"}
  /\ UNCHANGED <<blocks, sender>>

-----------------------------------------------------------------------------
(* The line's faults.                                                       *)

\* A packet or a reply is lost; a damaged packet fails its checks, a damaged
\* reply is none.
Loses ==
  /\ \/ /\ \E i \in 1..Len(toDevice), t \in {<<>>, <<Signal("Noise")>>} : toDevice' = Replace(toDevice, i, t)
        /\ UNCHANGED toHost
     \/ /\ \E i \in 1..Len(toHost) : toHost' = Replace(toHost, i, <<>>)
        /\ UNCHANGED toDevice
  /\ faults' = faults \union {"lost"}
  /\ UNCHANGED <<blocks, sender, receiver>>

Payloads == {<<Signal("CAN")>>, <<Signal("EOT")>>, <<Signal("EOT"), Signal("EOT")>>}

\* A packet loses its first byte and its payload is read as headers.
Misreads ==
  /\ \E i \in 1..Len(toDevice), t \in Payloads :
       /\ toDevice[i].kind = "block"
       /\ Len(toDevice) + Len(t) <= Cap + 1
       /\ toDevice' = Replace(toDevice, i, t)
  /\ faults' = faults \union {"misread"}
  /\ UNCHANGED <<blocks, sender, receiver, toHost>>

Next == Sender \/ Receiver \/ FlashFails \/ Loses \/ Misreads

\* Both sides keep running: each reads a byte or times out.  The sender's
\* deadlines count from the start of a wait, so bytes it skips meanwhile cannot
\* put them off for ever.
Spec == /\ Init /\ [][Next]_vars
        /\ WF_vars(Sender) /\ WF_vars(Receiver)
        /\ SF_vars(SenderStep(Silence))

-----------------------------------------------------------------------------
(* Properties.                                                              *)

\* Retransmission, duplicates and reordering of answers never make flash hold
\* a block twice, out of order or with one missing before it: what is
\* programmed is a beginning of the file.
InOrder == \A i \in 1..Len(written) : written[i] = i

\* YM_OK means the whole file is in flash, unless an answer came after its
\* timeout or the payload of a damaged packet was read as headers.
OkMeansWhole == result = "ok" /\ faults \subseteq {"lost", "flash"} => Len(written) = blocks

\* The sender that ends in peace is right about it, under the same conditions:
\* the receiver has taken the transfer for complete.
DoneMeansOk == spc = "done" /\ faults \subseteq {"lost", "flash"} => rpc = "null" \/ result = "ok"

\* Either side that calls the transfer a success is right.
SuccessIsTrue == OkMeansWhole /\ DoneMeansOk

\* Without faults a file that fits ends in flash, and both sides know.
CleanTransferCompletes ==
  blocks <= RegionBlocks ~> faults # {} \/ (spc = "done" /\ result = "ok")

\* The sender always ends: its retries are bounded.
SenderEnds == <>SenderGone

\* "sender never started / stalled" (ymodem.h:18): once the sender has given up
\* ymodem_receive returns.
ReceiverReturns == spc = "failed" ~> rpc = "done"
=============================================================================
