---------------------------- MODULE Ymodem_proofs ----------------------------
(***************************************************************************)
(* Proofs about the YMODEM transfer: its types and bounds, that what is       *)
(* programmed is always a beginning of the file, and that a success is true  *)
(* on both sides.                                                            *)
(***************************************************************************)
EXTENDS Ymodem, SequenceTheorems, TLAPS

(* The number the receiver expects is one past the blocks it has programmed: *)
(* it never wraps, because a region has fewer blocks than a byte has values. *)
Counted == expected = Len(written) + 1

-----------------------------------------------------------------------------
(* The line                                                                  *)

LEMMA BlockIs ==
  ASSUME NEW n \in 0..MaxBlocks
  PROVE  Block(n) = [kind |-> "block", blk |-> n, part |-> n] /\ Block(n) \in Packets
<1>1. n % BlkMod = n
  BY BlocksAssumption, RegionAssumption
<1> QED BY <1>1 DEF Block, Packets, Blocks

(* What recv_packet returns is one of four things.                           *)
LEMMA PacketIs ==
  ASSUME NEW p \in Packets \union {Signal(Silence)}
  PROVE  \/ p = NullHeader \/ p = Header
         \/ p.kind = "block" /\ p.blk \in 1..MaxBlocks /\ p.part = p.blk
         \/ p.kind \in {"EOT", "CAN", "Noise", Silence}
<1>1. CASE p \in {Block(n) : n \in 0..MaxBlocks}
  <2>1. PICK n \in 0..MaxBlocks : p = Block(n)
    BY <1>1
  <2>2. CASE n = 0
    BY <2>1, <2>2 DEF Header
  <2>3. CASE n # 0
    BY <2>1, <2>3, BlockIs, BlocksAssumption
  <2> QED BY <2>2, <2>3
<1>2. CASE p \in {Signal(k) : k \in {"EOT", "CAN", "Noise"}} \union {Signal(Silence)}
  BY <1>2 DEF Signal
<1> QED BY <1>1, <1>2 DEF Packets, Blocks

LEMMA Kinds ==
  /\ NullHeader.kind = "block" /\ NullHeader.blk = 0
  /\ Header.kind = "block" /\ Header.blk = 0
  /\ NullHeader \in Packets /\ Header \in Packets /\ Header # NullHeader
<1>1. 0 \in 0..MaxBlocks
  BY BlocksAssumption
<1> QED BY <1>1, BlockIs DEF Header, NullHeader, Packets, Blocks

(* A queue of the line stays a queue within its bound.                       *)
Line(q, S) == q \in Seq(S) /\ Len(q) <= Cap

LEMMA Sent ==
  ASSUME NEW p \in Packets, Line(toDevice, Packets), Send(p)
  PROVE  Line(toDevice', Packets)
<1>1. CASE rpc = "done"
  BY <1>1, BoundsAssumption DEF Send, Line
<1>2. CASE rpc # "done" /\ Len(toDevice) < Cap
  BY <1>2, AppendProperties, BoundsAssumption DEF Send, Line
<1>3. CASE rpc # "done" /\ ~(Len(toDevice) < Cap)
  BY <1>3 DEF Send, Line
<1> QED BY <1>1, <1>2, <1>3

LEMMA Answered ==
  ASSUME NEW s \in Seq(Replies), Line(toHost, Replies), Answer(s)
  PROVE  Line(toHost', Replies)
<1>1. CASE SenderGone
  BY <1>1, BoundsAssumption DEF Answer, Line
<1>2. CASE ~SenderGone
  BY <1>2, ConcatProperties DEF Answer, Line
<1> QED BY <1>1, <1>2

LEMMA Tailed ==
  ASSUME NEW S, NEW q, Line(q, S), q # <<>>
  PROVE  Line(Tail(q), S) /\ Head(q) \in S
BY HeadTailProperties, BoundsAssumption DEF Line

LEMMA Replaced ==
  ASSUME NEW S, NEW q, Line(q, S), NEW i \in 1..Len(q), NEW t \in Seq(S), Len(q) + Len(t) <= Cap + 1
  PROVE  Line(Replace(q, i, t), S)
<1> DEFINE a == SubSeq(q, 1, i - 1)
           b == SubSeq(q, i + 1, Len(q))
<1>1. q \in Seq(S) /\ Len(q) \in Nat
  BY DEF Line
<1>2. a \in Seq(S) /\ Len(a) = i - 1
  BY <1>1, SubSeqProperties
<1>3. b \in Seq(S) /\ Len(b) = Len(q) - i
  BY <1>1, SubSeqProperties
<1> HIDE DEF a, b
<1>4. a \o t \in Seq(S) /\ Len(a \o t) = i - 1 + Len(t)
  BY <1>2, ConcatProperties
<1>5. (a \o t) \o b \in Seq(S) /\ Len((a \o t) \o b) = (i - 1 + Len(t)) + (Len(q) - i)
  <2>1. /\ (a \o t) \o b \in Seq(S)
        /\ Len((a \o t) \o b) = Len(a \o t) + Len(b)
    BY <1>3, <1>4, ConcatProperties
  <2> QED BY <1>3, <1>4, <2>1
<1>6. Len(t) \in Nat
  OBVIOUS
<1>7. Len((a \o t) \o b) <= Cap
  BY <1>1, <1>5, <1>6, BoundsAssumption
<1> QED BY <1>5, <1>7 DEF Line, Replace, a, b

-----------------------------------------------------------------------------
(* The sender                                                                *)

TypeOKSender ==
  /\ blocks \in 0..MaxBlocks
  /\ spc \in {"hello", "header", "go", "data", "eot", "bye", "null", "done", "failed"}
  /\ part \in 0..MaxBlocks /\ sent \in 0..Retries
  /\ Line(toDevice, Packets) /\ Line(toHost, Replies) /\ faults \subseteq Faults

TypeOKReceiver ==
  /\ rpc \in {"hello", "first", "recv", "eot", "null", "done"}
  /\ tries \in 0..StartRetries
  /\ expected \in 0..(BlkMod - 1)
  /\ written \in Seq(0..MaxBlocks) /\ Len(written) <= RegionBlocks
  /\ result \in {"none", "ok", "timeout", "cancelled", "flash_err"}

LEMMA TypeParts == TypeOK <=> TypeOKSender /\ TypeOKReceiver
BY DEF TypeOK, TypeOKSender, TypeOKReceiver, Line

LEMMA ReceiverStays ==
  ASSUME TypeOKReceiver, Counted, InOrder, UNCHANGED receiver
  PROVE  TypeOKReceiver' /\ Counted' /\ InOrder'
BY DEF TypeOKReceiver, Counted, InOrder, receiver

(* Every packet the sender sends is a numbered block, a header or EOT.       *)
LEMMA SentFirst ==
  ASSUME TypeOKSender, NEW n \in 0..MaxBlocks, NEW p \in Packets,
         NEW state \in {"header", "data", "eot", "null"}, Sends(state, n, p)
  PROVE  /\ spc' = state /\ part' \in 0..MaxBlocks /\ sent' \in 0..Retries
         /\ Line(toDevice', Packets)
BY Sent, BoundsAssumption DEF Sends, TypeOKSender

LEMMA SentNext ==
  ASSUME TypeOKSender, NEW n \in 0..MaxBlocks, SendsNext(n)
  PROVE  /\ spc' \in {"data", "eot"} /\ part' \in 0..MaxBlocks /\ sent' \in 0..Retries
         /\ Line(toDevice', Packets)
<1>1. CASE n < blocks
  <2>1. n + 1 \in 0..MaxBlocks
    BY <1>1, BlocksAssumption DEF TypeOKSender
  <2> QED BY <1>1, <2>1, BlockIs, SentFirst DEF SendsNext
<1>2. CASE ~(n < blocks)
  <2>1. Signal("EOT") \in Packets
    BY DEF Packets
  <2> QED BY <1>2, <2>1, SentFirst DEF SendsNext
<1> QED BY <1>1, <1>2

LEMMA SentAgain ==
  ASSUME TypeOKSender, NEW p \in Packets, SendsAgain(p)
  PROVE  /\ spc' = spc /\ part' \in 0..MaxBlocks /\ sent' \in 0..Retries
         /\ Line(toDevice', Packets)
BY Sent, BoundsAssumption DEF SendsAgain, TypeOKSender

LEMMA SenderTypes ==
  ASSUME TypeOKSender, NEW b \in Replies \union {Silence}, SenderStep(b)
  PROVE  TypeOKSender'
<1> DEFINE Good == /\ spc' \in {"hello", "header", "go", "data", "eot", "bye", "null", "done", "failed"}
                   /\ part' \in 0..MaxBlocks /\ sent' \in 0..Retries
                   /\ Line(toDevice', Packets)
<1>1. blocks' \in 0..MaxBlocks
  BY DEF SenderStep, TypeOKSender
<1>2. Line(toHost', Replies) /\ faults' \subseteq Faults
  BY Tailed DEF SenderStep, SenderReads, TypeOKSender, Faults
<1>d. Discards => Good
  BY DEF Discards, sender, TypeOKSender
<1>s. ASSUME NEW end \in {"go", "bye", "done", "failed"}, Stops(end) PROVE Good
  BY <1>s DEF Stops, TypeOKSender
<1>z. 0 \in 0..MaxBlocks /\ part \in 0..MaxBlocks
  BY BlocksAssumption DEF TypeOKSender
<1>b. b \in {"C", "ACK", "NAK", "CAN", Silence} /\ Silence = "Silence"
  BY DEF Replies, Silence
<1>3. Good
  <2>1. CASE SenderHello(b)
    BY <2>1, <1>d, <1>s, <1>z, <1>b, Kinds, SentFirst DEF SenderHello
  <2>2. CASE SenderGo(b)
    BY <2>2, <1>d, <1>s, <1>z, <1>b, SentNext DEF SenderGo
  <2>3. CASE SenderBye(b)
    BY <2>3, <1>d, <1>s, <1>z, <1>b, Kinds, SentFirst DEF SenderBye
  <2>4. CASE SenderBlock(b)
    <3>1. Current \in Packets
      BY <1>z, Kinds, BlockIs DEF Current
    <3>2. SendsAgain(Current) => Good
      BY <3>1, SentAgain DEF TypeOKSender
    <3>3. SendsNext(part) => Good
      BY <1>z, SentNext
    <3> QED BY <2>4, <1>d, <1>s, <1>b, <3>2, <3>3 DEF SenderBlock, Accepted
  <2>5. CASE SenderEot(b)
    <3>1. SendsAgain(Signal("EOT")) => Good
      BY SentAgain DEF Packets, TypeOKSender
    <3> QED BY <2>5, <1>d, <1>s, <1>b, <3>1 DEF SenderEot, Accepted
  <2> QED BY <2>1, <2>2, <2>3, <2>4, <2>5 DEF SenderStep
<1> QED BY <1>1, <1>2, <1>3 DEF TypeOKSender

-----------------------------------------------------------------------------
(* The receiver                                                              *)

Received == TypeOKReceiver /\ Counted /\ InOrder

LEMMA Waited ==
  ASSUME Received, NEW s \in {"hello", "recv", "eot", "null"}, Waits(s)
  PROVE  Received'
BY DEF Received, Waits, TypeOKReceiver, Counted, InOrder

LEMMA Ended ==
  ASSUME Received, NEW r \in {"ok", "timeout", "cancelled", "flash_err"}, Ends(r)
  PROVE  Received'
BY DEF Received, Ends, TypeOKReceiver, Counted, InOrder

(* Only the next block is programmed, after those before it.                 *)
LEMMA Programmed ==
  ASSUME Received, NEW p, p.kind = "block", p.blk \in 1..MaxBlocks => p.part = p.blk,
         p.blk \in 0..MaxBlocks, ReceiverBlock(p)
  PROVE  Received'
<1> USE BlocksAssumption, RegionAssumption
<1>t. /\ written \in Seq(0..MaxBlocks) /\ Len(written) \in Nat /\ Len(written) <= RegionBlocks
      /\ expected = Len(written) + 1
  BY DEF Received, TypeOKReceiver, Counted
<1>1. ASSUME IsNext(p), Fits, written' = Append(written, p.part), expected' = (expected + 1) % BlkMod,
             rpc' = "recv", UNCHANGED <<tries, result>>
      PROVE  Received'
  <2>1. p.part = Len(written) + 1 /\ p.part \in 0..MaxBlocks
    BY <1>1, <1>t DEF IsNext
  <2>2. /\ written' \in Seq(0..MaxBlocks) /\ Len(written') = Len(written) + 1
        /\ \A i \in 1..Len(written) : written'[i] = written[i]
        /\ written'[Len(written) + 1] = p.part
    BY <1>1, <1>t, <2>1, AppendProperties
  <2>3. Len(written') <= RegionBlocks
    BY <1>1, <1>t, <2>2 DEF Fits
  <2>4. expected + 1 < BlkMod /\ expected + 1 \in Nat
    BY <1>1, <1>t DEF Fits
  <2>5. expected' = Len(written') + 1 /\ expected' \in 0..(BlkMod - 1)
    <3>1. (expected + 1) % BlkMod = expected + 1
      BY <2>4
    <3> QED BY <1>1, <1>t, <2>2, <2>4, <3>1
  <2>6. InOrder'
    <3>1. ASSUME NEW i \in 1..Len(written') PROVE written'[i] = i
      <4>1. CASE i \in 1..Len(written)
        BY <4>1, <2>2 DEF Received, InOrder
      <4>2. CASE i = Len(written) + 1
        BY <4>2, <2>1, <2>2
      <4> QED BY <1>t, <2>2, <4>1, <4>2
    <3> QED BY <3>1 DEF InOrder
  <2>7. TypeOKReceiver'
    BY <1>1, <2>2, <2>3, <2>5 DEF Received, TypeOKReceiver
  <2> QED BY <2>5, <2>6, <2>7 DEF Received, Counted
<1> QED BY <1>1, Waited, Ended DEF ReceiverBlock

LEMMA Asked ==
  ASSUME Received, ReceiverAsks
  PROVE  Received'
<1>1. CASE tries < StartRetries /\ rpc' = "first" /\ tries' = tries + 1 /\ UNCHANGED <<expected, written, result>>
  BY <1>1, BoundsAssumption DEF Received, TypeOKReceiver, Counted, InOrder
<1> QED BY <1>1, Ended DEF ReceiverAsks

Takes(p) == ReceiverFirst(p) \/ ReceiverLoop(p) \/ ReceiverEot(p) \/ ReceiverNull(p)

LEMMA Taken ==
  ASSUME Received, NEW p \in Packets \union {Signal(Silence)}, Takes(p)
  PROVE  Received'
<1>k. /\ p.kind = "block" => p.blk \in 0..MaxBlocks /\ (p.blk \in 1..MaxBlocks => p.part = p.blk)
      /\ p.kind \in {"EOT", "CAN", "Noise", Silence, "block"}
      /\ p.kind = "block" /\ p.blk = 0 => p \in {Header, NullHeader}
  BY PacketIs, Kinds, BlocksAssumption DEF Silence
<1>b. p.kind = "block" /\ ReceiverBlock(p) => Received'
  BY <1>k, Programmed
<1>1. CASE ReceiverFirst(p)
  <2>1. CASE p.kind # "block"
    BY <1>1, <1>k, <2>1, Kinds, Waited, Ended DEF ReceiverFirst, Silence
  <2>2. CASE p = NullHeader
    BY <1>1, <2>2, Kinds, Ended DEF ReceiverFirst, Silence
  <2>3. CASE p = Header
    BY <1>1, <2>3, Kinds, Waited DEF ReceiverFirst, Silence
  <2>4. CASE p.kind = "block" /\ p.blk # 0
    BY <1>1, <2>4, <1>b, Kinds DEF ReceiverFirst, Silence
  <2> QED BY <1>k, <2>1, <2>2, <2>3, <2>4
<1>2. CASE ReceiverLoop(p)
  BY <1>2, <1>k, <1>b, Waited, Ended DEF ReceiverLoop, Silence
<1>3. CASE ReceiverEot(p)
  BY <1>3, Waited DEF ReceiverEot
<1>4. CASE ReceiverNull(p)
  BY <1>4, Ended DEF ReceiverNull
<1> QED BY <1>1, <1>2, <1>3, <1>4 DEF Takes

LEMMA Replied ==
  /\ <<"C">> \in Seq(Replies) /\ <<"ACK">> \in Seq(Replies) /\ <<"NAK">> \in Seq(Replies)
  /\ <<"CAN", "CAN">> \in Seq(Replies) /\ HeaderAnswer \in Seq(Replies)
BY DEF Replies, HeaderAnswer

Answers == UNCHANGED toHost \/ \E s \in Seq(Replies) : Answer(s)

LEMMA TakenAnswers ==
  ASSUME NEW p \in Packets \union {Signal(Silence)}, Takes(p)
  PROVE  Answers
<1>k. p.kind \in {"EOT", "CAN", "Noise", Silence} \/ p = NullHeader \/ p = Header \/ (p.kind = "block" /\ p.blk # 0)
  BY PacketIs, BlocksAssumption
<1>b. ReceiverBlock(p) => Answers
  BY Replied DEF ReceiverBlock, Answers
<1>1. CASE ReceiverFirst(p)
  BY <1>1, <1>k, <1>b, Kinds, Replied DEF ReceiverFirst, Answers, Silence
<1>2. CASE ReceiverLoop(p)
  BY <1>2, <1>k, <1>b, Kinds, Replied DEF ReceiverLoop, Answers, Silence
<1>3. CASE ReceiverEot(p)
  BY <1>3, Replied DEF ReceiverEot, Answers, HeaderAnswer
<1>4. CASE ReceiverNull(p)
  BY <1>4, Replied DEF ReceiverNull, Answers
<1> QED BY <1>1, <1>2, <1>3, <1>4 DEF Takes

LEMMA AnswerTypes ==
  ASSUME Line(toHost, Replies), Answers
  PROVE  Line(toHost', Replies)
BY Answered DEF Answers

-----------------------------------------------------------------------------
(* The invariant                                                             *)

LEMMA InitInv == Init => TypeOKSender /\ Received
<1> SUFFICES ASSUME Init PROVE TypeOKSender /\ Received
  OBVIOUS
<1>1. <<>> \in Seq(Packets) /\ <<>> \in Seq(Replies) /\ <<>> \in Seq(0..MaxBlocks) /\ Len(<<>>) = 0
  OBVIOUS
<1>2. TypeOKSender
  BY <1>1, BlocksAssumption, BoundsAssumption DEF Init, TypeOKSender, Line, Faults
<1>3. Received
  BY <1>1, BlocksAssumption, RegionAssumption, BoundsAssumption DEF Init, Received, TypeOKReceiver, Counted, InOrder
<1> QED BY <1>2, <1>3

LEMMA NextInv ==
  ASSUME TypeOKSender, Received, [Next]_vars
  PROVE  TypeOKSender' /\ Received'
<1>s. ASSUME UNCHANGED <<blocks, sender>>, Line(toDevice', Packets), Line(toHost', Replies), faults' \subseteq Faults
      PROVE  TypeOKSender'
  BY <1>s DEF TypeOKSender, sender
<1>r. UNCHANGED receiver => Received'
  BY ReceiverStays DEF Received
<1>q. Line(toDevice, Packets) /\ Line(toHost, Replies) /\ faults \subseteq Faults
  BY DEF TypeOKSender
<1>1. CASE Sender
  <2>1. PICK b \in Replies \union {Silence} : SenderStep(b)
    BY <1>1 DEF Sender
  <2> QED BY <2>1, <1>r, SenderTypes DEF SenderStep
<1>2. CASE ReceiverAsks
  <2>1. Answers
    BY <1>2, Replied DEF ReceiverAsks, Answers
  <2>2. TypeOKSender'
    BY <1>2, <2>1, <1>s, <1>q, AnswerTypes DEF ReceiverAsks
  <2> QED BY <1>2, <2>2, Asked
<1>3. CASE \E p \in Packets \union {Signal(Silence)} :
             /\ ReceiverReads(p)
             /\ ReceiverFirst(p) \/ ReceiverLoop(p) \/ ReceiverEot(p) \/ ReceiverNull(p)
             /\ UNCHANGED <<blocks, sender>>
  <2>1. PICK p \in Packets \union {Signal(Silence)} : ReceiverReads(p) /\ Takes(p) /\ UNCHANGED <<blocks, sender>>
    BY <1>3 DEF Takes
  <2>2. Line(toDevice', Packets) /\ faults' \subseteq Faults
    BY <2>1, <1>q, Tailed DEF ReceiverReads, Faults
  <2>3. Line(toHost', Replies)
    BY <2>1, <1>q, TakenAnswers, AnswerTypes
  <2>4. TypeOKSender'
    BY <2>1, <2>2, <2>3, <1>s
  <2> QED BY <2>1, <2>4, Taken
<1>4. CASE FlashFails
  <2>1. Line(toDevice', Packets) /\ faults' \subseteq Faults
    BY <1>4, <1>q, Tailed DEF FlashFails, Faults
  <2>2. Line(toHost', Replies)
    BY <1>4, <1>q, Replied, AnswerTypes DEF FlashFails, Answers
  <2>3. TypeOKSender'
    BY <1>4, <2>1, <2>2, <1>s DEF FlashFails
  <2> QED BY <1>4, <2>3, Ended DEF FlashFails
<1>5. CASE Loses
  <2>1. Signal("Noise") \in Packets
    BY DEF Packets
  <2>2. Line(toDevice', Packets)
    <3>1. ASSUME NEW i \in 1..Len(toDevice), NEW t \in {<<>>, <<Signal("Noise")>>} PROVE Line(Replace(toDevice, i, t), Packets)
      <4>1. t \in Seq(Packets) /\ Len(t) \in Nat /\ Len(t) <= 1
        <5>1. CASE t = <<>>
          BY <5>1
        <5>2. CASE t = <<Signal("Noise")>>
          BY <5>2, <2>1
        <5> QED BY <5>1, <5>2
      <4>2. Len(toDevice) + Len(t) <= Cap + 1
        <5>1. Len(toDevice) \in Nat /\ Len(toDevice) <= Cap
          BY <1>q DEF Line
        <5> QED BY <4>1, <5>1, BoundsAssumption
      <4> QED BY <4>1, <4>2, <1>q, Replaced
    <3> QED BY <1>5, <3>1, <1>q DEF Loses
  <2>3. Line(toHost', Replies)
    <3>1. ASSUME NEW i \in 1..Len(toHost) PROVE Line(Replace(toHost, i, <<>>), Replies)
      <4>1. <<>> \in Seq(Replies) /\ Len(<<>>) = 0
        OBVIOUS
      <4>2. Len(toHost) + Len(<<>>) <= Cap + 1
        <5>1. Len(toHost) \in Nat /\ Len(toHost) <= Cap
          BY <1>q DEF Line
        <5> QED BY <4>1, <5>1, BoundsAssumption
      <4> QED BY <4>1, <4>2, <1>q, Replaced
    <3> QED BY <1>5, <3>1, <1>q DEF Loses
  <2> QED BY <1>5, <2>2, <2>3, <1>s, <1>q, <1>r DEF Loses, Faults
<1>6. CASE Misreads
  <2>1. Payloads \subseteq Seq(Packets)
    BY DEF Payloads, Packets
  <2>2. Line(toDevice', Packets)
    BY <1>6, <2>1, <1>q, Replaced DEF Misreads
  <2> QED BY <1>6, <2>2, <1>s, <1>q, <1>r DEF Misreads, Faults
<1>7. CASE UNCHANGED vars
  BY <1>7, <1>s, <1>q, <1>r DEF vars
<1> QED BY <1>1, <1>2, <1>3, <1>4, <1>5, <1>6, <1>7 DEF Next, Receiver

-----------------------------------------------------------------------------
(* Taking turns.  As long as no answer comes after its timeout and no payload *)
(* is read as headers, one side waits for the other: a packet and its answer *)
(* are never on the line together.                                           *)

Calm == faults \subseteq {"lost", "flash"}

Now == IF spc = "eot" THEN Signal("EOT") ELSE Current
Waiting == spc \in {"header", "data", "eot", "null"}
Refusals == {<<"CAN">>, <<"CAN", "CAN">>}

Turns ==
  /\ toDevice = <<>> \/ (Waiting /\ toHost = <<>> /\ toDevice \in {<<Now>>, <<Signal("Noise")>>})
  /\ toHost \in {<<>>, <<"C">>, <<"ACK">>, <<"ACK", "C">>, <<"NAK">>} \union Refusals
  /\ toHost \in Refusals => rpc = "done"
  /\ toHost = <<"ACK", "C">> => spc # "data"
  /\ rpc = "hello" => toDevice = <<>> /\ (SenderGone \/ toHost = <<>>)

(* What each place of the sender says of the receiver.                       *)
Acked == toHost \in {<<"ACK">>, <<"ACK", "C">>}
Closing == rpc = "null" \/ result = "ok"
Whole == Len(written) = blocks
Fresh == written = <<>> /\ result # "ok"

Stage ==
  /\ rpc = "done" <=> result # "none"
  /\ rpc \in {"hello", "first"} => written = <<>>
  /\ spc = "hello" => Fresh /\ rpc \in {"hello", "first", "done"}
  /\ spc = "header" => Fresh /\ rpc \in {"hello", "first", "recv", "done"} /\ (Acked => rpc = "recv")
  /\ spc = "go" => written = <<>> /\ rpc = "recv"
  /\ spc = "data" => /\ rpc \in {"recv", "done"} /\ result # "ok"
                     /\ part \in 1..blocks /\ Len(written) \in {part - 1, part} /\ (Acked => Len(written) = part /\ rpc = "recv")
  /\ spc = "eot" => Whole /\ (rpc \in {"recv", "eot"} \/ Closing) /\ (Acked => Closing)
  /\ spc \in {"bye", "null", "done"} => Whole /\ Closing
  /\ rpc = "eot" \/ Closing => Whole

FInv == TypeOKSender /\ Received /\ (Calm => Turns /\ Stage)

(* The few sequences of answers.                                             *)
LEMMA Shapes ==
  /\ \A x : <<x>> # <<>> /\ Head(<<x>>) = x /\ Tail(<<x>>) = <<>>
  /\ \A x, y : <<x, y>> # <<>> /\ Head(<<x, y>>) = x /\ Tail(<<x, y>>) = <<y>>
  /\ <<"ACK">> # <<"ACK", "C">> /\ <<"C">> # <<"ACK">> /\ <<"NAK">> # <<"ACK">> /\ <<"NAK">> # <<"ACK", "C">>
<1>1. ASSUME NEW x, NEW y PROVE Tail(<<x, y>>) = <<y>>
  OBVIOUS
<1>2. ASSUME NEW x PROVE Tail(<<x>>) = <<>>
  OBVIOUS
<1>3. <<"ACK">> # <<"ACK", "C">> /\ <<"C">> # <<"ACK">> /\ <<"NAK">> # <<"ACK">> /\ <<"NAK">> # <<"ACK", "C">>
  OBVIOUS
<1> QED BY <1>1, <1>2, <1>3

Places == {"hello", "header", "go", "data", "eot", "bye", "null"}

LEMMA NowIs ==
  ASSUME TypeOKSender
  PROVE  /\ spc = "header" => Now = Header
         /\ spc = "data" => Now = Block(part)
         /\ spc = "eot" => Now = Signal("EOT")
         /\ spc = "null" => Now = NullHeader
BY DEF Now, Current

(* What the sender can hear, and that it is alone on the line then.          *)
LEMMA Hears ==
  ASSUME FInv, Calm', NEW b \in Replies \union {Silence}, SenderReads(b), spc \in Places
  PROVE  /\ Turns /\ Stage
         /\ toDevice = <<>> /\ rpc # "hello"
         /\ b = "C" => toHost' = <<>>
         /\ b = "ACK" => Acked /\ toHost' \in {<<>>, <<"C">>} /\ (spc = "data" => toHost' = <<>>)
         /\ b = "NAK" => toHost' = <<>>
         /\ b = "CAN" => rpc = "done" /\ toHost' \in {<<>>, <<"CAN">>}
         /\ b = Silence => toHost' = toHost /\ (toHost = <<>> \/ spc \in {"hello", "go", "bye"})
<1>1. Calm
  BY DEF Calm, SenderReads
<1>2. Turns /\ Stage
  BY <1>1 DEF FInv
<1>3. ~SenderGone
  BY DEF Places, SenderGone
<1>4. CASE toHost # <<>> /\ b = Head(toHost) /\ toHost' = Tail(toHost)
  <2>1. toDevice = <<>> /\ rpc # "hello"
    BY <1>2, <1>3, <1>4 DEF Turns
  <2>2. CASE toHost = <<"C">>
    BY <1>2, <1>4, <2>1, <2>2, Shapes DEF Silence
  <2>3. CASE toHost = <<"ACK">>
    BY <1>2, <1>4, <2>1, <2>3, Shapes DEF Silence, Acked
  <2>4. CASE toHost = <<"ACK", "C">>
    BY <1>2, <1>4, <2>1, <2>4, Shapes DEF Silence, Acked, Turns
  <2>5. CASE toHost = <<"NAK">>
    BY <1>2, <1>4, <2>1, <2>5, Shapes DEF Silence
  <2>6. CASE toHost = <<"CAN">>
    BY <1>2, <1>4, <2>1, <2>6, Shapes DEF Silence, Turns, Refusals
  <2>7. CASE toHost = <<"CAN", "CAN">>
    BY <1>2, <1>4, <2>1, <2>7, Shapes DEF Silence, Turns, Refusals
  <2> QED BY <1>2, <1>4, <2>2, <2>3, <2>4, <2>5, <2>6, <2>7 DEF Turns, Refusals
<1>5. CASE /\ toHost # <<>> => spc \in {"hello", "go", "bye"} /\ Head(toHost) # "C"
           /\ b = Silence
           /\ faults' = IF toDevice = <<>> /\ rpc # "hello" THEN faults ELSE faults \union {"early"}
           /\ UNCHANGED toHost
  <2>1. toDevice = <<>> /\ rpc # "hello"
    BY <1>5 DEF Calm
  <2> QED BY <1>2, <1>5, <2>1 DEF Silence
<1> QED BY <1>4, <1>5 DEF SenderReads

LEMMA AloneSends ==
  ASSUME NEW p, toDevice = <<>>, Send(p)
  PROVE  toDevice' = <<>> \/ (toDevice' = <<p>> /\ rpc # "done")
<1>1. Len(<<>>) = 0 /\ Append(<<>>, p) = <<p>>
  OBVIOUS
<1> QED BY <1>1 DEF Send

(* The receiver keeps what Stage says of it alone.                           *)
LEMMA Alone ==
  ASSUME Stage, UNCHANGED <<blocks, receiver>>
  PROVE  /\ rpc' = rpc /\ result' = result /\ written' = written /\ blocks' = blocks
         /\ Closing' = Closing /\ Whole' = Whole /\ Fresh' = Fresh
         /\ rpc' = "done" <=> result' # "none"
         /\ rpc' \in {"hello", "first"} => written' = <<>>
         /\ rpc' = "eot" \/ Closing' => Whole'
BY DEF Stage, receiver, Closing, Whole, Fresh

(* The sender stays where it is.                                             *)
LEMMA StaysTurns ==
  ASSUME Turns, Stage, toDevice = <<>>, rpc # "hello", UNCHANGED <<blocks, receiver, spc, part>>,
         toHost' \in {<<>>, <<"C">>} \/ (toHost' = <<"CAN">> /\ rpc = "done"),
         toDevice' = <<>> \/ (toDevice' = <<Now>> /\ Waiting /\ toHost' = <<>>)
  PROVE  Turns' /\ Stage'
<1>1. ~Acked' /\ toHost' # <<"ACK", "C">> /\ (toHost' \in Refusals => rpc = "done")
  BY Shapes DEF Acked, Refusals
<1>2. rpc' = rpc /\ Now' = Now /\ Waiting' = Waiting
  BY DEF receiver, Now, Current, Waiting
<1>3. Turns'
  BY <1>1, <1>2 DEF Turns, Refusals
<1>4. Stage'
  BY <1>1, Alone DEF Stage
<1> QED BY <1>3, <1>4

(* It stops to wait for something else, or for good.                         *)
LEMMA StopsTurns ==
  ASSUME Turns, Stage, toDevice = <<>>, rpc # "hello", UNCHANGED <<blocks, receiver>>,
         NEW end \in {"go", "bye", "done", "failed"}, Stops(end),
         toHost' \in {<<>>, <<"C">>} \/ toHost' = toHost \/ (toHost' = <<"CAN">> /\ rpc = "done"),
         end = "go" => written = <<>> /\ rpc = "recv",
         end \in {"bye", "done"} => Whole /\ Closing
  PROVE  Turns' /\ Stage'
<1>1. toHost' \in {<<>>, <<"C">>, <<"ACK">>, <<"ACK", "C">>, <<"NAK">>} \union Refusals
  BY DEF Turns, Refusals
<1>2. toHost' \in Refusals => rpc = "done"
  BY DEF Turns, Refusals
<1>3. Turns'
  BY <1>1, <1>2 DEF Turns, Stops, receiver
<1>4. Stage'
  BY Alone DEF Stage, Stops
<1> QED BY <1>3, <1>4

(* It sends something new.                                                   *)
LEMMA NewTurns ==
  ASSUME Stage, toDevice = <<>>, rpc # "hello", toHost' = <<>>, UNCHANGED <<blocks, receiver>>,
         NEW p, p = Now', Send(p), Waiting',
         spc' = "header" => Fresh /\ rpc \in {"first", "done"},
         spc' = "data" => rpc = "recv" /\ part' \in 1..blocks /\ Len(written) \in {part' - 1, part'},
         spc' = "eot" => Whole /\ rpc = "recv",
         spc' = "null" => Whole /\ Closing
  PROVE  Turns' /\ Stage'
<1>1. ~Acked' /\ toHost' # <<"ACK", "C">> /\ toHost' \notin Refusals
  BY Shapes DEF Acked, Refusals
<1>2. toDevice' = <<>> \/ toDevice' = <<p>>
  BY AloneSends
<1>3. Turns'
  BY <1>1, <1>2 DEF Turns, receiver
<1>4. rpc = "recv" => result # "ok"
  BY DEF Stage
<1>5. Stage'
  BY <1>1, <1>4, Alone DEF Stage, Waiting
<1> QED BY <1>3, <1>5

LEMMA NextTurns ==
  ASSUME Stage, TypeOKSender, toDevice = <<>>, rpc = "recv", toHost' = <<>>, UNCHANGED <<blocks, receiver>>,
         NEW n \in 0..MaxBlocks, n <= blocks, Len(written) = n, SendsNext(n)
  PROVE  Turns' /\ Stage'
<1>1. blocks \in 0..MaxBlocks
  BY DEF TypeOKSender
<1>2. CASE n < blocks
  <2>1. spc' = "data" /\ part' = n + 1 /\ Send(Block(n + 1))
    BY <1>2 DEF SendsNext, Sends
  <2>2. Block(n + 1) = Now' /\ Waiting'
    BY <2>1 DEF Now, Current, Waiting
  <2>3. part' \in 1..blocks /\ Len(written) = part' - 1
    BY <1>1, <1>2, <2>1, BlocksAssumption
  <2> QED BY <2>1, <2>2, <2>3, NewTurns
<1>3. CASE ~(n < blocks)
  <2>1. spc' = "eot" /\ Send(Signal("EOT"))
    BY <1>3 DEF SendsNext, Sends
  <2>2. Signal("EOT") = Now' /\ Waiting'
    BY <2>1 DEF Now, Waiting
  <2>3. Whole
    BY <1>1, <1>3, BlocksAssumption DEF Whole
  <2> QED BY <2>1, <2>2, <2>3, NewTurns
<1> QED BY <1>2, <1>3

LEMMA SenderTurns ==
  ASSUME FInv, Calm', NEW b \in Replies \union {Silence}, SenderStep(b)
  PROVE  Turns' /\ Stage'
<1> DEFINE Goal == Turns' /\ Stage'
<1>b. b \in {"C", "ACK", "NAK", "CAN", Silence} /\ Silence = "Silence"
  BY DEF Replies, Silence
<1>p. spc \in Places
  BY DEF SenderStep, SenderHello, SenderGo, SenderBye, SenderBlock, SenderEot, Places
<1>h. /\ Turns /\ Stage
      /\ toDevice = <<>> /\ rpc # "hello"
      /\ b = "C" => toHost' = <<>>
      /\ b = "ACK" => Acked /\ toHost' \in {<<>>, <<"C">>} /\ (spc = "data" => toHost' = <<>>)
      /\ b = "NAK" => toHost' = <<>>
      /\ b = "CAN" => rpc = "done" /\ toHost' \in {<<>>, <<"CAN">>}
      /\ b = Silence => toHost' = toHost /\ (toHost = <<>> \/ spc \in {"hello", "go", "bye"})
  BY <1>p, Hears DEF SenderStep
<1>r. UNCHANGED <<blocks, receiver>> /\ TypeOKSender
  BY DEF SenderStep, FInv
<1>d. Discards /\ b # Silence => Goal
  BY <1>b, <1>h, <1>r, StaysTurns DEF Discards, sender
<1>f. Stops("failed") => Goal
  BY <1>b, <1>h, <1>r, StopsTurns
<1>a. ASSUME SendsAgain(Now), b \in {"NAK", "CAN", Silence}, Waiting PROVE Goal
  <2>1. UNCHANGED <<spc, part>> /\ Send(Now)
    BY <1>a DEF SendsAgain
  <2>2. toDevice' = <<>> \/ (toDevice' = <<Now>> /\ rpc # "done")
    BY <1>h, <2>1, AloneSends
  <2>3. toHost' = <<>> \/ (toHost' = <<"CAN">> /\ rpc = "done")
    BY <1>a, <1>b, <1>h DEF Waiting
  <2> QED BY <1>a, <1>h, <1>r, <2>1, <2>2, <2>3, StaysTurns
<1>1. CASE SenderHello(b)
  <2>1. CASE b = "C"
    <3>1. spc = "hello" /\ spc' = "header" /\ Send(Header)
      BY <1>b, <1>1, <2>1 DEF SenderHello, Sends
    <3>2. Header = Now' /\ Waiting'
      BY <3>1 DEF Now, Current, Waiting
    <3>3. Fresh /\ rpc \in {"first", "done"}
      BY <1>h, <3>1 DEF Stage
    <3> QED BY <1>h, <1>r, <2>1, <3>1, <3>2, <3>3, NewTurns
  <2>2. CASE b # "C"
    BY <1>1, <1>b, <1>d, <1>f, <2>2 DEF SenderHello
  <2> QED BY <2>1, <2>2
<1>2. CASE SenderGo(b)
  <2>1. CASE b = "C"
    <3>1. spc = "go" /\ SendsNext(0)
      BY <1>b, <1>2, <2>1 DEF SenderGo
    <3>2. rpc = "recv" /\ Len(written) = 0 /\ 0 \in 0..MaxBlocks /\ 0 <= blocks
      BY <1>h, <1>r, <3>1, BlocksAssumption DEF Stage, TypeOKSender
    <3> QED BY <1>h, <1>r, <2>1, <3>1, <3>2, NextTurns
  <2>2. CASE b # "C"
    BY <1>2, <1>b, <1>d, <1>f, <2>2 DEF SenderGo
  <2> QED BY <2>1, <2>2
<1>3. CASE SenderBye(b)
  <2>0. spc = "bye" /\ Whole /\ Closing
    BY <1>3, <1>h DEF SenderBye, Stage
  <2>1. CASE b = "C"
    <3>1. spc' = "null" /\ Send(NullHeader)
      BY <1>b, <1>3, <2>1 DEF SenderBye, Sends
    <3>2. NullHeader = Now' /\ Waiting'
      BY <3>1 DEF Now, Current, Waiting
    <3> QED BY <1>h, <1>r, <2>0, <2>1, <3>1, <3>2, NewTurns
  <2>2. CASE b = Silence
    <3>1. Stops("done")
      BY <1>3, <1>b, <2>2 DEF SenderBye
    <3> QED BY <1>h, <1>r, <2>0, <2>2, <3>1, StopsTurns
  <2>3. CASE b # "C" /\ b # Silence
    BY <1>3, <1>b, <1>d, <2>3 DEF SenderBye
  <2> QED BY <2>1, <2>2, <2>3
<1>4. CASE SenderBlock(b)
  <2>0. spc \in {"header", "data", "null"} /\ Current = Now /\ Waiting
    BY <1>4 DEF SenderBlock, Now, Waiting
  <2>n. spc = "null" => Whole /\ Closing
    BY <1>h DEF Stage
  <2>1. CASE b = "ACK" /\ spc = "header"
    <3>1. Stops("go")
      BY <1>b, <1>4, <2>1 DEF SenderBlock, Accepted
    <3>2. written = <<>> /\ rpc = "recv"
      BY <1>h, <2>1 DEF Stage, Fresh
    <3> QED BY <1>h, <1>r, <2>1, <3>1, <3>2, StopsTurns
  <2>2. CASE b = "ACK" /\ spc = "data"
    <3>1. SendsNext(part)
      BY <1>b, <1>4, <2>2 DEF SenderBlock, Accepted
    <3>2. part \in 0..MaxBlocks /\ part \in 1..blocks /\ Len(written) = part /\ rpc = "recv"
      BY <1>h, <1>r, <2>2 DEF Stage, TypeOKSender
    <3>3. part <= blocks
      BY <1>r, <3>2 DEF TypeOKSender
    <3> QED BY <1>h, <1>r, <2>2, <3>1, <3>2, <3>3, NextTurns
  <2>3. CASE b = "ACK" /\ spc = "null"
    <3>1. Stops("done")
      BY <1>b, <1>4, <2>3 DEF SenderBlock, Accepted
    <3> QED BY <1>h, <1>r, <2>n, <2>3, <3>1, StopsTurns
  <2>4. CASE b = "CAN"
    <3>1. Stops("failed")
      BY <1>b, <1>4, <2>4 DEF SenderBlock, Accepted
    <3> QED BY <1>f, <3>1
  <2>5. CASE b \in {"NAK", Silence}
    <3>1. SendsAgain(Current) \/ Stops(IF spc = "null" THEN "done" ELSE "failed")
      BY <1>4, <1>b, <2>5 DEF SenderBlock, Accepted
    <3>2. CASE SendsAgain(Current)
      BY <1>a, <2>0, <2>5, <3>2
    <3>3. CASE spc = "null" /\ Stops("done")
      BY <1>h, <1>r, <1>b, <2>n, <2>5, <3>3, StopsTurns
    <3> QED BY <1>f, <3>1, <3>2, <3>3
  <2>6. CASE b = "C"
    <3>1. Discards
      BY <1>4, <2>6, <1>b DEF SenderBlock, Accepted
    <3> QED BY <1>d, <1>b, <2>6, <3>1
  <2> QED BY <1>b, <2>0, <2>1, <2>2, <2>3, <2>4, <2>5, <2>6
<1>5. CASE SenderEot(b)
  <2>0. spc = "eot" /\ Now = Signal("EOT") /\ Waiting
    BY <1>5 DEF SenderEot, Now, Waiting
  <2>1. CASE b = "ACK"
    <3>1. Stops("bye")
      BY <1>b, <1>5, <2>1 DEF SenderEot, Accepted
    <3>2. Whole /\ Closing
      BY <1>h, <2>0, <2>1 DEF Stage
    <3> QED BY <1>h, <1>r, <2>1, <3>1, <3>2, StopsTurns
  <2>2. CASE b \in {"NAK", "CAN", Silence}
    <3>1. SendsAgain(Signal("EOT")) \/ Stops("failed")
      BY <1>5, <1>b, <2>2 DEF SenderEot, Accepted
    <3> QED BY <1>a, <1>f, <2>0, <2>2, <3>1
  <2>3. CASE b = "C"
    <3>1. Discards
      BY <1>5, <1>b, <2>3 DEF SenderEot, Accepted
    <3> QED BY <1>d, <1>b, <2>3, <3>1
  <2> QED BY <1>b, <2>1, <2>2, <2>3
<1> QED BY <1>1, <1>2, <1>3, <1>4, <1>5 DEF SenderStep

-----------------------------------------------------------------------------
(* The receiver's turn.                                                      *)

Spoken == {<<"C">>, <<"ACK">>, <<"ACK", "C">>, <<"NAK">>, <<"CAN", "CAN">>}

(* It answers.                                                               *)
LEMMA SpeaksTurns ==
  ASSUME toDevice' = <<>>, toHost = <<>> \/ SenderGone, UNCHANGED sender,
         NEW s \in Spoken, Answer(s),
         s = <<"CAN", "CAN">> => rpc' = "done", s = <<"ACK", "C">> => spc # "data", rpc' # "hello"
  PROVE  Turns' /\ (Acked' => s \in {<<"ACK">>, <<"ACK", "C">>})
<1>1. spc' = spc
  BY DEF sender
<1>2. ASSUME toHost = <<>> PROVE toHost \o s = s
  BY <1>2 DEF Spoken
<1>3. toHost' = <<>> \/ toHost' = s
  BY <1>2 DEF Answer
<1>4. <<"CAN", "CAN">> # <<"ACK", "C">> /\ \A x \in {"C", "ACK", "NAK"} : <<x>> \notin Refusals
  BY DEF Refusals
<1>5. <<"ACK", "C">> \notin Refusals /\ <<>> \notin Refusals /\ ~(<<>> \in {<<"ACK">>, <<"ACK", "C">>})
  BY DEF Refusals
<1> QED BY <1>1, <1>3, <1>4, <1>5 DEF Turns, Spoken, Refusals, Acked

(* It says nothing.                                                          *)
LEMMA QuietTurns ==
  ASSUME Turns, toDevice' = <<>>, toHost = <<>> \/ SenderGone, UNCHANGED <<sender, toHost>>, rpc # "done"
  PROVE  Turns' /\ (Acked' => SenderGone')
<1>1. toHost' \notin Refusals
  BY DEF Turns
<1>2. spc' = spc /\ (SenderGone' <=> SenderGone)
  BY DEF sender, SenderGone
<1>3. <<>> \notin {<<"ACK">>, <<"ACK", "C">>}
  OBVIOUS
<1> QED BY <1>1, <1>2, <1>3 DEF Turns, Acked

LEMMA AsksTurns ==
  ASSUME FInv, Calm', ReceiverAsks
  PROVE  Turns' /\ Stage'
<1>1. Turns /\ Stage /\ rpc = "hello" /\ UNCHANGED <<blocks, sender, toDevice>>
  BY DEF FInv, Calm, ReceiverAsks
<1>2. toDevice' = <<>> /\ (toHost = <<>> \/ SenderGone)
  BY <1>1 DEF Turns
<1>3. written' = written /\ written = <<>> /\ blocks' = blocks /\ spc' = spc /\ part' = part
  BY <1>1 DEF Stage, ReceiverAsks, Ends, sender
<1>4. spc \in {"hello", "header", "failed"} /\ result = "none"
  BY <1>1 DEF Stage, Closing, FInv, TypeOKSender
<1>5. CASE tries < StartRetries /\ Answer(<<"C">>) /\ rpc' = "first" /\ result' = result
  <2>1. Turns' /\ ~Acked'
    BY <1>1, <1>2, <1>5, SpeaksTurns, Shapes DEF Spoken
  <2> QED BY <1>3, <1>4, <1>5, <2>1 DEF Stage, Fresh, Closing
<1>6. CASE Ends("timeout") /\ UNCHANGED toHost
  <2>1. Turns' /\ (Acked' => SenderGone')
    BY <1>1, <1>2, <1>6, QuietTurns DEF Ends
  <2> QED BY <1>3, <1>4, <1>6, <2>1 DEF Stage, Fresh, Closing, Ends, SenderGone
<1> QED BY <1>5, <1>6 DEF ReceiverAsks

(* What it can read, and that it is alone on the line then.                  *)
LEMMA Told ==
  ASSUME FInv, Calm', NEW p \in Packets \union {Signal(Silence)}, ReceiverReads(p), rpc # "hello"
  PROVE  /\ Turns /\ Stage /\ toDevice' = <<>> /\ (toHost = <<>> \/ SenderGone)
         /\ (Waiting /\ p = Now) \/ p.kind \in {"Noise", Silence}
<1>1. Turns /\ Stage
  BY DEF FInv, Calm, ReceiverReads
<1>2. CASE toDevice # <<>> /\ p = Head(toDevice) /\ toDevice' = Tail(toDevice)
  <2>1. Waiting /\ toHost = <<>> /\ toDevice \in {<<Now>>, <<Signal("Noise")>>}
    BY <1>1, <1>2 DEF Turns
  <2>2. toDevice' = <<>> /\ p \in {Now, Signal("Noise")}
    BY <1>2, <2>1, Shapes
  <2> QED BY <1>1, <2>1, <2>2 DEF Signal
<1>3. CASE /\ toDevice = <<>> /\ p = Signal(Silence)
           /\ faults' = IF toHost = <<>> \/ SenderGone THEN faults ELSE faults \union {"early"}
           /\ UNCHANGED toDevice
  BY <1>1, <1>3 DEF Calm, Signal
<1> QED BY <1>2, <1>3 DEF ReceiverReads

(* A data block while the sender waits for its answer.                       *)
LEMMA BlockTurns ==
  ASSUME FInv, Turns, Stage, toDevice' = <<>>, toHost = <<>> \/ SenderGone, UNCHANGED <<blocks, sender>>,
         rpc = "recv", Waiting, spc \in {"header", "data"}, ReceiverBlock(Now)
  PROVE  Turns' /\ Stage'
<1>1. spc' = spc /\ part' = part /\ blocks' = blocks /\ result = "none" /\ ~Closing
  BY DEF sender, Stage, Closing
<1>2. /\ written \in Seq(0..MaxBlocks) /\ Len(written) \in Nat /\ expected = Len(written) + 1
      /\ Len(written) <= RegionBlocks /\ part \in 0..MaxBlocks /\ blocks \in 0..MaxBlocks
  BY DEF FInv, Received, TypeOKReceiver, TypeOKSender, Counted
<1>3. Now.blk = IF spc = "header" THEN 0 ELSE part
  BY <1>2, Kinds, BlockIs, NowIs DEF FInv
<1>4. CASE /\ IsNext(Now) /\ Fits /\ written' = Append(written, Now.part) /\ rpc' = "recv" /\ Answer(<<"ACK">>)
           /\ UNCHANGED result
  <2>1. spc = "data" /\ part = Len(written) + 1
    BY <1>2, <1>3, <1>4 DEF IsNext
  <2>2. Len(written') = part
    BY <1>2, <1>4, <2>1, AppendProperties, BlockIs, NowIs DEF FInv
  <2>3. Turns'
    BY <1>4, SpeaksTurns, Shapes DEF Spoken
  <2>4. part \in 1..blocks
    BY <2>1 DEF Stage
  <2> QED BY <1>1, <1>4, <2>1, <2>2, <2>3, <2>4 DEF Stage, Closing
<1>5. CASE Ends("flash_err") /\ Answer(<<"CAN", "CAN">>)
  <2>1. Turns' /\ ~Acked'
    BY <1>5, SpeaksTurns, Shapes DEF Spoken, Ends
  <2> QED BY <1>1, <1>5, <2>1 DEF Stage, Closing, Fresh, Ends
<1>6. CASE /\ ~IsNext(Now)
           /\ Answer(IF Now.blk = (expected - 1) % BlkMod THEN <<"ACK">> ELSE <<"NAK">>)
           /\ Waits("recv")
  <2>1. Turns'
    BY <1>6, SpeaksTurns, Shapes DEF Spoken, Waits
  <2>2. spc = "data" => Len(written) = part
    BY <1>2, <1>3, <1>6 DEF IsNext, Stage
  <2> QED BY <1>1, <1>6, <2>1, <2>2 DEF Stage, Closing, Fresh, Waits
<1> QED BY <1>4, <1>5, <1>6 DEF ReceiverBlock

LEMMA TakesTurns ==
  ASSUME FInv, Calm', NEW p \in Packets \union {Signal(Silence)}, ReceiverReads(p), Takes(p), UNCHANGED <<blocks, sender>>
  PROVE  Turns' /\ Stage'
<1>k. rpc \in {"first", "recv", "eot", "null"}
  BY DEF Takes, ReceiverFirst, ReceiverLoop, ReceiverEot, ReceiverNull
<1>1. /\ Turns /\ Stage /\ toDevice' = <<>> /\ (toHost = <<>> \/ SenderGone)
      /\ (Waiting /\ p = Now) \/ p.kind \in {"Noise", Silence}
  BY <1>k, Told
<1>2. spc' = spc /\ part' = part /\ blocks' = blocks /\ result = "none" /\ (SenderGone' <=> SenderGone)
  BY <1>1, <1>k DEF sender, Stage, SenderGone
<1>3. spc \in Places \union {"done", "failed"}
  BY DEF FInv, TypeOKSender, Places
<1>4. Silence = "Silence" /\ Signal("EOT").kind = "EOT"
  BY DEF Silence, Signal
<1>q. UNCHANGED toHost => Turns' /\ (Acked' => SenderGone')
  BY <1>1, <1>k, QuietTurns
<1>5. CASE ReceiverFirst(p)
  <2>1. rpc = "first" /\ spc \in {"hello", "header", "failed"}
    BY <1>1, <1>2, <1>3, <1>5 DEF ReceiverFirst, Stage, Closing, Places
  <2>2. CASE Waiting /\ p = Now
    <3>1. spc = "header" /\ p = Header
      BY <2>1, <2>2, NowIs DEF Waiting, FInv
    <3>2. Answer(<<"ACK", "C">>) /\ Waits("recv")
      BY <1>4, <1>5, <3>1, Kinds DEF ReceiverFirst, HeaderAnswer
    <3>3. Turns'
      BY <1>1, <3>1, <3>2, SpeaksTurns, Shapes DEF Spoken, Waits
    <3> QED BY <1>1, <1>2, <3>1, <3>2, <3>3 DEF Stage, Closing, Fresh, Waits
  <2>3. CASE p.kind \in {"Noise", Silence}
    <3>1. Waits("hello") /\ UNCHANGED toHost
      BY <1>4, <1>5, <2>3, Kinds DEF ReceiverFirst
    <3> QED BY <1>1, <1>2, <1>q, <2>1, <3>1 DEF Stage, Closing, Fresh, Waits, SenderGone
  <2> QED BY <1>1, <2>2, <2>3
<1>6. CASE ReceiverLoop(p)
  <2>1. rpc = "recv" /\ spc \in {"header", "go", "data", "eot", "failed"}
    BY <1>1, <1>2, <1>3, <1>6 DEF ReceiverLoop, Stage, Closing, Places
  <2>2. CASE Waiting /\ p = Now /\ spc = "eot"
    <3>1. Answer(<<"NAK">>) /\ Waits("eot")
      BY <1>4, <1>6, <2>2, NowIs DEF ReceiverLoop, FInv
    <3>2. Turns' /\ ~Acked'
      BY <1>1, <3>1, SpeaksTurns, Shapes DEF Spoken, Waits
    <3> QED BY <1>1, <1>2, <2>2, <3>1, <3>2 DEF Stage, Closing, Whole, Waits
  <2>3. CASE Waiting /\ p = Now /\ spc # "eot"
    <3>1. spc \in {"header", "data"} /\ p.kind = "block"
      BY <2>1, <2>3, NowIs, Kinds, BlockIs DEF Waiting, FInv, TypeOKSender
    <3> QED BY <1>1, <1>4, <1>6, <2>1, <2>3, <3>1, BlockTurns DEF ReceiverLoop
  <2>4. CASE p.kind \in {"Noise", Silence}
    <3>1. Answer(<<"NAK">>) /\ Waits("recv")
      BY <1>4, <1>6, <2>4 DEF ReceiverLoop
    <3>2. Turns' /\ ~Acked'
      BY <1>1, <3>1, SpeaksTurns, Shapes DEF Spoken, Waits
    <3> QED BY <1>1, <1>2, <2>1, <3>1, <3>2 DEF Stage, Closing, Fresh, Whole, Waits
  <2> QED BY <1>1, <2>2, <2>3, <2>4
<1>7. CASE ReceiverEot(p)
  <2>1. rpc = "eot" /\ spc \in {"eot", "failed"} /\ Whole
    BY <1>1, <1>2, <1>3, <1>7 DEF ReceiverEot, Stage, Closing, Places
  <2>2. CASE Answer(<<"ACK", "C">>) /\ Waits("null")
    <3>1. Turns'
      BY <1>1, <2>1, <2>2, SpeaksTurns, Shapes DEF Spoken, Waits
    <3> QED BY <1>1, <1>2, <2>1, <2>2, <3>1 DEF Stage, Closing, Whole, Waits
  <2>3. CASE UNCHANGED toHost /\ Waits("recv")
    BY <1>1, <1>2, <1>q, <2>1, <2>3 DEF Stage, Closing, Whole, Waits, SenderGone
  <2> QED BY <1>7, <2>2, <2>3 DEF ReceiverEot
<1>8. CASE ReceiverNull(p)
  <2>1. rpc = "null" /\ spc \in {"eot", "bye", "null", "done", "failed"} /\ Whole /\ Ends("ok")
    BY <1>1, <1>2, <1>3, <1>8 DEF ReceiverNull, Stage, Closing, Places
  <2>2. Turns'
    <3>1. CASE Answer(<<"ACK">>)
      BY <1>1, <2>1, <3>1, SpeaksTurns, Shapes DEF Spoken, Ends
    <3>2. CASE UNCHANGED toHost
      BY <1>q, <3>2
    <3> QED BY <1>8, <3>1, <3>2 DEF ReceiverNull
  <2> QED BY <1>1, <1>2, <2>1, <2>2 DEF Stage, Closing, Whole, Ends
<1> QED BY <1>5, <1>6, <1>7, <1>8 DEF Takes

LEMMA FailsTurns ==
  ASSUME FInv, Calm', FlashFails
  PROVE  Turns' /\ Stage'
<1>1. Turns /\ Stage /\ UNCHANGED <<blocks, sender>> /\ rpc \in {"first", "recv"} /\ toDevice # <<>>
  BY DEF FInv, Calm, FlashFails
<1>2. Waiting /\ toHost = <<>> /\ toDevice \in {<<Now>>, <<Signal("Noise")>>}
  BY <1>1 DEF Turns
<1>3. toDevice' = <<>> /\ Head(toDevice).kind = "block" /\ Head(toDevice) \in {Now, Signal("Noise")}
  BY <1>2, Shapes DEF FlashFails
<1>4. Now.kind = "block"
  BY <1>3 DEF Signal
<1>5. spc \in {"header", "data"} /\ result = "none"
  BY <1>1, <1>2, <1>4, NowIs DEF Stage, Closing, Waiting, FInv, Signal
<1>6. Ends("flash_err") /\ Answer(<<"CAN", "CAN">>)
  BY DEF FlashFails
<1>7. Turns' /\ ~Acked'
  BY <1>1, <1>2, <1>3, <1>6, SpeaksTurns, Shapes DEF Spoken, Ends
<1>8. spc' = spc /\ part' = part /\ blocks' = blocks
  BY <1>1 DEF sender
<1> QED BY <1>1, <1>5, <1>6, <1>7, <1>8 DEF Stage, Closing, Fresh, Ends

-----------------------------------------------------------------------------
(* Losses.                                                                   *)

LEMMA ReplacedOne ==
  ASSUME NEW x, NEW i \in 1..Len(<<x>>), NEW t, t = <<>> \/ \E y : t = <<y>>
  PROVE  Replace(<<x>>, i, t) = t
<1>1. i = 1 /\ i - 1 = 0 /\ i + 1 = 2 /\ Len(<<x>>) = 1
  OBVIOUS
<1>2. SubSeq(<<x>>, 1, 0) = <<>> /\ SubSeq(<<x>>, 2, 1) = <<>>
  OBVIOUS
<1>3. <<>> \o t = t /\ t \o <<>> = t
  OBVIOUS
<1> QED BY <1>1, <1>2, <1>3, Zenon DEF Replace

LEMMA ReplacedPair ==
  ASSUME NEW x, NEW y, NEW i \in 1..Len(<<x, y>>)
  PROVE  Replace(<<x, y>>, i, <<>>) \in {<<x>>, <<y>>}
<1>0. Len(<<x, y>>) = 2 /\ 1 - 1 = 0 /\ 1 + 1 = 2 /\ 2 - 1 = 1 /\ 2 + 1 = 3
  OBVIOUS
<1>1. CASE i = 1
  <2>1. SubSeq(<<x, y>>, 1, 0) = <<>>
    OBVIOUS
  <2>3. SubSeq(<<x, y>>, 2, 2) = <<y>>
    <3> DEFINE q == SubSeq(<<x, y>>, 2, 2)
    <3>1. \A j \in 2..2 : <<x, y>>[j] \in {y}
      OBVIOUS
    <3>2. q \in Seq({y}) /\ Len(q) = 1 /\ q[1] = y
      BY <3>1, SubSeqProperties
    <3> HIDE DEF q
    <3>3. q = <<y>>
      BY <3>2
    <3> QED BY <3>3 DEF q
  <2>2. ASSUME NEW t, t = <<>> \/ t = <<y>> PROVE <<>> \o t = t
    BY <2>2
  <2> QED BY <1>0, <1>1, <2>1, <2>2, <2>3, Zenon DEF Replace
<1>2. CASE i = 2
  <2>1. SubSeq(<<x, y>>, 3, 2) = <<>>
    OBVIOUS
  <2>3. SubSeq(<<x, y>>, 1, 1) = <<x>>
    <3> DEFINE q == SubSeq(<<x, y>>, 1, 1)
    <3>1. \A j \in 1..1 : <<x, y>>[j] \in {x}
      OBVIOUS
    <3>2. q \in Seq({x}) /\ Len(q) = 1 /\ q[1] = x
      BY <3>1, SubSeqProperties
    <3> HIDE DEF q
    <3>3. q = <<x>>
      BY <3>2
    <3> QED BY <3>3 DEF q
  <2>2. ASSUME NEW t, t = <<x>> PROVE t \o <<>> = t
    BY <2>2
  <2> QED BY <1>0, <1>2, <2>1, <2>2, <2>3, Zenon DEF Replace
<1> QED BY <1>0, <1>1, <1>2

LEMMA LosesTurns ==
  ASSUME FInv, Calm', Loses
  PROVE  Turns' /\ Stage'
<1>1. Turns /\ Stage /\ UNCHANGED <<blocks, sender, receiver>>
  BY DEF FInv, Calm, Loses
<1>2. spc' = spc /\ part' = part /\ Now' = Now /\ Waiting' = Waiting /\ rpc' = rpc /\ (SenderGone' <=> SenderGone)
  BY <1>1 DEF sender, receiver, Now, Current, Waiting, SenderGone
<1>a. ASSUME toHost' = toHost \/ ~Acked' \/ Acked PROVE (Acked' => Acked) /\ (Turns' => Stage')
  <2>1. Acked' => Acked
    BY <1>a DEF Acked
  <2> QED BY <1>1, <1>2, <2>1, Alone DEF Stage
<1>3. CASE /\ \E i \in 1..Len(toDevice), t \in {<<>>, <<Signal("Noise")>>} : toDevice' = Replace(toDevice, i, t)
           /\ UNCHANGED toHost
  <2>1. PICK i \in 1..Len(toDevice), t \in {<<>>, <<Signal("Noise")>>} : toDevice' = Replace(toDevice, i, t)
    BY <1>3
  <2>2. toDevice # <<>>
    BY <2>1
  <2>3. Waiting /\ toHost = <<>> /\ \E x : toDevice = <<x>>
    BY <1>1, <2>2 DEF Turns
  <2>4. toDevice' = t
    BY <2>1, <2>3, ReplacedOne
  <2>5. Turns'
    BY <1>1, <1>2, <1>3, <2>2, <2>3, <2>4 DEF Turns
  <2> QED BY <1>a, <1>3, <2>5
<1>4. CASE /\ \E i \in 1..Len(toHost) : toHost' = Replace(toHost, i, <<>>)
           /\ UNCHANGED toDevice
  <2>1. PICK i \in 1..Len(toHost) : toHost' = Replace(toHost, i, <<>>)
    BY <1>4
  <2>2. toHost # <<>>
    BY <2>1
  <2>3. toDevice' = <<>>
    BY <1>1, <1>4, <2>2 DEF Turns
  <2>4. CASE toHost \in {<<"C">>, <<"ACK">>, <<"NAK">>, <<"CAN">>}
    <3>0. PICK x : toHost = <<x>>
      BY <2>4
    <3>t. Replace(<<x>>, i, <<>>) = <<>>
      BY <3>0, ReplacedOne
    <3>1. toHost' = <<>>
      BY <2>1, <3>0, <3>t
    <3>2. ~Acked' /\ <<>> \notin Refusals /\ <<>> # <<"ACK", "C">>
      BY <3>1 DEF Acked, Refusals
    <3>3. Turns'
      BY <2>3, <3>1, <3>2 DEF Turns
    <3> QED BY <1>a, <3>2, <3>3
  <2>5. CASE toHost = <<"ACK", "C">>
    <3>0. Replace(<<"ACK", "C">>, i, <<>>) \in {<<"ACK">>, <<"C">>}
      BY <2>5, ReplacedPair
    <3>1. toHost' \in {<<"ACK">>, <<"C">>}
      BY <2>1, <2>5, <3>0
    <3>2. Acked /\ toHost' \notin Refusals /\ toHost' # <<"ACK", "C">>
      BY <2>5, <3>1 DEF Acked, Refusals
    <3>3. rpc = "hello" => SenderGone
      BY <1>1, <2>2 DEF Turns
    <3>4. Turns'
      BY <1>2, <2>3, <3>1, <3>2, <3>3 DEF Turns
    <3> QED BY <1>a, <3>2, <3>4
  <2>6. CASE toHost = <<"CAN", "CAN">>
    <3>0. Replace(<<"CAN", "CAN">>, i, <<>>) \in {<<"CAN">>, <<"CAN">>}
      BY <2>6, ReplacedPair
    <3>1. toHost' = <<"CAN">>
      BY <2>1, <2>6, <3>0
    <3>2. rpc = "done" /\ ~Acked' /\ toHost' # <<"ACK", "C">>
      BY <1>1, <2>6, <3>1 DEF Turns, Acked, Refusals
    <3>3. Turns'
      BY <1>2, <2>3, <3>1, <3>2 DEF Turns, Refusals
    <3> QED BY <1>a, <3>2, <3>3
  <2> QED BY <1>1, <2>2, <2>4, <2>5, <2>6 DEF Turns, Refusals
<1> QED BY <1>3, <1>4 DEF Loses

-----------------------------------------------------------------------------
(* The invariant of both                                                     *)

LEMMA InitTurns == Init => FInv
<1> SUFFICES ASSUME Init PROVE FInv
  OBVIOUS
<1>1. <<>> \notin Refusals /\ <<>> # <<"ACK", "C">>
  BY DEF Refusals
<1>2. Turns
  BY <1>1 DEF Init, Turns
<1>3. Stage
  BY DEF Init, Stage, Closing, Fresh
<1> QED BY <1>2, <1>3, InitInv DEF FInv

LEMMA StutterTurns ==
  ASSUME Turns, Stage, UNCHANGED vars
  PROVE  Turns' /\ Stage'
<1>1. Now' = Now /\ Waiting' = Waiting /\ (SenderGone' <=> SenderGone) /\ (Acked' <=> Acked)
  BY DEF vars, sender, Now, Current, Waiting, SenderGone, Acked
<1>2. Turns'
  BY <1>1 DEF Turns, vars, sender, receiver
<1>3. Stage'
  BY <1>1, Alone DEF Stage, vars, sender
<1> QED BY <1>2, <1>3

LEMMA NextFInv ==
  ASSUME FInv, [Next]_vars
  PROVE  FInv'
<1>1. TypeOKSender' /\ Received'
  BY NextInv DEF FInv
<1>2. ASSUME Calm' PROVE Turns' /\ Stage'
  <2>1. CASE Sender
    BY <1>2, <2>1, SenderTurns DEF Sender
  <2>2. CASE ReceiverAsks
    BY <1>2, <2>2, AsksTurns
  <2>3. CASE \E p \in Packets \union {Signal(Silence)} :
               /\ ReceiverReads(p)
               /\ ReceiverFirst(p) \/ ReceiverLoop(p) \/ ReceiverEot(p) \/ ReceiverNull(p)
               /\ UNCHANGED <<blocks, sender>>
    BY <1>2, <2>3, TakesTurns DEF Takes
  <2>4. CASE FlashFails
    BY <1>2, <2>4, FailsTurns
  <2>5. CASE Loses
    BY <1>2, <2>5, LosesTurns
  <2>6. CASE Misreads
    BY <1>2, <2>6 DEF Misreads, Calm
  <2>7. CASE UNCHANGED vars
    BY <1>2, <2>7, StutterTurns DEF FInv, Calm, vars
  <2> QED BY <2>1, <2>2, <2>3, <2>4, <2>5, <2>6, <2>7 DEF Next, Receiver
<1> QED BY <1>1, <1>2 DEF FInv

LEMMA FInvariant == Spec => []FInv
BY InitTurns, NextFInv, PTL DEF Spec

LEMMA YInvariant == Spec => [](TypeOKSender /\ Received)
BY FInvariant, PTL DEF FInv

-----------------------------------------------------------------------------
(* The theorems                                                              *)

(* Queues, retries and block numbers stay within their bounds, for every size *)
(* of file and region, whatever is lost, damaged or late.                    *)
THEOREM TypeCorrect == Spec => []TypeOK
<1>1. TypeOKSender /\ Received => TypeOK
  BY TypeParts DEF Received
<1> QED BY <1>1, YInvariant, PTL

(* What ymodem_receive has programmed is a beginning of the file, whatever is *)
(* lost, damaged, repeated or read as something else.                        *)
THEOREM BeginningOfFile == Spec => []InOrder
<1>1. TypeOKSender /\ Received => InOrder
  BY DEF Received
<1> QED BY <1>1, YInvariant, PTL

(* As long as no answer comes after its timeout and no payload is read as     *)
(* headers, a success is true on both sides: YM_OK means the whole file is in *)
(* flash, and a sender that ends in peace has been taken for complete.       *)
THEOREM SuccessIsKnown == Spec => []SuccessIsTrue
<1>1. FInv => SuccessIsTrue
  <2> SUFFICES ASSUME FInv, faults \subseteq {"lost", "flash"} PROVE (result = "ok" => Len(written) = blocks) /\ (spc = "done" => rpc = "null" \/ result = "ok")
    BY DEF SuccessIsTrue, OkMeansWhole, DoneMeansOk
  <2> QED BY DEF FInv, Calm, Stage, Closing, Whole
<1> QED BY <1>1, FInvariant, PTL
=============================================================================
