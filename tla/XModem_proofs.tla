---------------------------- MODULE XModem_proofs ----------------------------
(***************************************************************************)
(* XModem is safe for files of any length, any number of retries and any   *)
(* number of messages that the line loses or garbles, if block numbers are *)
(* counted modulo at least three: what is received is the beginning of the *)
(* file, the sender returns true only when all of it was received, and so  *)
(* does the receiver, unless it takes a byte of a damaged block for EOT.   *)
(*                                                                         *)
(* Block numbers are enough because the line keeps messages in order: when *)
(* block n has been written, the line holds copies of n and n + 1 only.    *)
(* And an ACK is never mistaken for that of another block because there is *)
(* at most one under way.  A receiver that has mistaken a byte for EOT has *)
(* sent one ACK too many: the sender is then up to two blocks ahead, but   *)
(* has no ACK left for the end of the file.                                *)
(***************************************************************************)
EXTENDS XModem, SequenceTheorems, TLAPS

Blocks == [kind : {"block"}, nr : 0..(Wrap - 1), crc : BOOLEAN, data : 1..FileLen,
           state : {"good", "badsum", "badheader", "cut"}]

Msgs == Blocks \cup {EOT, Garbage, Stray}

Answers == {ACK, NAK, C, CAN, Garbage}

\* What may arrive at the receiver when it has written the first blocks up to
\* done and the sender has sent them up to next: the last block that was
\* written, sent before its ACK was received, or the next one.
Arrives(msg, done, next) ==
  /\ msg \in Msgs
  /\ msg.kind = "block" =>
       /\ msg.nr = msg.data % Wrap
       /\ msg.data \in {done, done + 1}
       /\ msg.data <= next
  /\ msg.kind = "eot" => next = FileLen + 1

ToReceiver(line, done, next) ==
  /\ line \in Seq(Msgs)
  /\ \A i \in 1..Len(line) : Arrives(line[i], done, next)
  /\ \A i, j \in 1..Len(line) :
       i < j /\ line[i].kind = "block" /\ line[j].kind = "block" => line[i].data <= line[j].data

\* There is at most one ACK, and only if expected.
ToSender(line, expected) ==
  /\ line \in Seq(Answers)
  /\ \A i \in 1..Len(line) : line[i].kind = "ack" => expected
  /\ \A i, j \in 1..Len(line) : line[i].kind = "ack" /\ line[j].kind = "ack" => i = j

\* The receiver has seen the header of at most one block that it has not written.
Numbers ==
  /\ last_block_done = Len(out)
  /\ rblocknr \in {Len(out), Len(out) + 1}

Retries ==
  /\ sender = "wait" => retries <= MaxRetries
  /\ receiver \in {"purge", "error"} => rretries <= MaxRetries
  /\ receiver = "wait" => rretries < MaxRetries

\* An ACK is for the block in the sender's buffer, or for EOT.
AckIsTrue == Len(out) = blocknr \/ (receiver = "done" /\ blocknr = FileLen + 1)

\* As long as no byte was mistaken for EOT.
Honest ==
  /\ misread = FALSE
  /\ XmTypeOK /\ OutIsPrefix /\ SuccessIsTrue
  /\ Numbers /\ Retries
  /\ ToReceiver(toRecv, Len(out), blocknr)
  /\ ToSender(toSend, AckIsTrue)

\* What may be on its way to the sender when n blocks have been written, the
\* sender has the block b, and the receiver has left early: the ACK of block n,
\* if it is still in the sender's buffer, and that of the mistaken EOT.
ToSenderLate(line, n, b) ==
  /\ line \in Seq(Answers)
  /\ \A i \in 1..Len(line) : line[i].kind = "ack" => b <= n + 1
  /\ \A i, j \in 1..Len(line) : i < j /\ line[i].kind = "ack" /\ line[j].kind = "ack" => b <= n
  /\ \A i, j, k \in 1..Len(line) :
       ~(i < j /\ j < k /\ line[i].kind = "ack" /\ line[j].kind = "ack" /\ line[k].kind = "ack")

\* The receiver has mistaken a byte for EOT and returned: the sender is at most
\* two blocks ahead, and runs out of ACKs before it has sent the file.
Mistaken ==
  /\ misread = TRUE /\ receiver = "done"
  /\ XmTypeOK /\ OutIsPrefix /\ SuccessIsTrue
  /\ sender = "wait" => retries <= MaxRetries
  /\ Len(out) \in 0..FileLen
  /\ blocknr \in {Len(out), Len(out) + 1, Len(out) + 2}
  /\ ToSenderLate(toSend, Len(out), blocknr)

XmInv == Honest \/ Mistaken

-----------------------------------------------------------------------------
\* Quotient and remainder of a block number.
LEMMA Division ==
  ASSUME NEW n \in Nat
  PROVE  n = Wrap * (n \div Wrap) + (n % Wrap) /\ n \div Wrap \in Int /\ n % Wrap \in 0..(Wrap - 1)
  BY NumbersAssumption

\* One and two are no multiples of Wrap.
LEMMA NoMultiple ==
  ASSUME NEW k \in Int
  PROVE  Wrap * k # 1 /\ Wrap * k # 2
<1>1. CASE k > 0
  <2>1. Wrap * k >= Wrap
    BY <1>1, NumbersAssumption
  <2> QED
    BY <2>1, NumbersAssumption
<1>2. CASE k <= 0
  <2>1. Wrap * k <= 0
    BY <1>2, NumbersAssumption
  <2> QED
    BY <2>1
<1> QED
  BY <1>1, <1>2

\* Three block numbers in a row are told apart.
LEMMA NumbersDiffer ==
  ASSUME NEW n \in Nat
  PROVE  n % Wrap # (n + 1) % Wrap /\ n % Wrap # (n + 2) % Wrap
<1> SUFFICES ASSUME NEW d \in {1, 2}, n % Wrap = (n + d) % Wrap
             PROVE  FALSE
  OBVIOUS
<1> DEFINE a == n \div Wrap
           b == (n + d) \div Wrap
           r == n % Wrap
<1>1. n = Wrap * a + r /\ a \in Int /\ r \in Int
  BY Division
<1>2. n + d = Wrap * b + r /\ b \in Int
  <2>1. n + d \in Nat
    OBVIOUS
  <2> QED
    BY <2>1, Division
<1> HIDE DEF a, b, r
<1>3. Wrap * (b - a) = d
  <2>1. Wrap * (b - a) = Wrap * b - Wrap * a
    BY <1>1, <1>2, NumbersAssumption
  <2> QED
    BY <2>1, <1>1, <1>2, NumbersAssumption
<1>4. b - a \in Int
  BY <1>1, <1>2
<1>5. Wrap * (b - a) # 1 /\ Wrap * (b - a) # 2
  BY <1>4, NoMultiple
<1> QED
  BY <1>3, <1>5
-----------------------------------------------------------------------------
(***************************************************************************)
(* What the operations of the line keep.                                   *)
(***************************************************************************)
LEMMA RecvTail ==
  ASSUME NEW line, NEW done \in Nat, NEW next \in Nat, ToReceiver(line, done, next), line # <<>>
  PROVE  ToReceiver(Tail(line), done, next) /\ Arrives(Head(line), done, next)
<1>1. line \in Seq(Msgs)
  BY DEF ToReceiver
<1>2. /\ Tail(line) \in Seq(Msgs) /\ Len(Tail(line)) = Len(line) - 1 /\ Len(line) \in Nat \ {0}
      /\ \A i \in 1..Len(Tail(line)) : Tail(line)[i] = line[i + 1]
      /\ Head(line) = line[1]
  BY <1>1
<1> QED
  BY <1>2 DEF ToReceiver

\* The sender sends what the receiver may get next.
LEMMA RecvAppend ==
  ASSUME NEW line, NEW done \in Nat, NEW next \in Nat, ToReceiver(line, done, next), NEW msg, Arrives(msg, done, next),
         msg.kind = "block" => msg.data = next
  PROVE  ToReceiver(Append(line, msg), done, next)
<1>1. line \in Seq(Msgs) /\ msg \in Msgs
  BY DEF ToReceiver, Arrives
<1>2. /\ Append(line, msg) \in Seq(Msgs) /\ Len(Append(line, msg)) = Len(line) + 1 /\ Len(line) \in Nat
      /\ \A i \in 1..Len(line) : Append(line, msg)[i] = line[i]
      /\ Append(line, msg)[Len(line) + 1] = msg
  BY <1>1
<1> QED
  BY <1>2 DEF ToReceiver, Arrives

\* A message is replaced by what is left of it.
LEMMA RecvReplace ==
  ASSUME NEW line, NEW done \in Nat, NEW next \in Nat, ToReceiver(line, done, next), line # <<>>,
         NEW msg, Arrives(msg, done, next),
         msg.kind = "block" => Head(line).kind = "block" /\ msg.data = Head(line).data
  PROVE  ToReceiver(<<msg>> \o Tail(line), done, next)
<1> DEFINE hit == <<msg>> \o Tail(line)
<1>1. line \in Seq(Msgs) /\ msg \in Msgs
  BY DEF ToReceiver, Arrives
<1>2. /\ hit \in Seq(Msgs) /\ Len(hit) = Len(line) /\ Len(line) \in Nat \ {0}
      /\ hit[1] = msg /\ Head(line) = line[1]
      /\ \A i \in 2..Len(line) : hit[i] = line[i]
  BY <1>1
<1> QED
  BY <1>2 DEF ToReceiver

\* Garbage, and the rest of a block, may arrive at any time.
LEMMA RestArrives ==
  ASSUME NEW done \in Nat, NEW next \in Nat
  PROVE  /\ Arrives(Garbage, done, next) /\ Arrives(Stray, done, next)
         /\ Garbage.kind # "block" /\ Stray.kind # "block"
  BY DEF Arrives, Msgs, Garbage, Stray

\* A block arrives in another state.
LEMMA SpoiltArrives ==
  ASSUME NEW done \in Nat, NEW next \in Nat, NEW block, Arrives(block, done, next), block.kind = "block",
         NEW s \in {"badsum", "badheader", "cut"}, NEW spoilt, spoilt = [block EXCEPT !.state = s]
  PROVE  Arrives(spoilt, done, next) /\ spoilt.kind = "block" /\ spoilt.data = block.data
<1>1. block \in Blocks
  BY DEF Arrives, Msgs, EOT, Garbage, Stray
<1>2. spoilt \in Blocks /\ spoilt.kind = "block" /\ spoilt.nr = block.nr /\ spoilt.data = block.data
  BY <1>1 DEF Blocks
<1> QED
  BY <1>2 DEF Arrives, Msgs

\* The line garbles a message to the receiver.
LEMMA RecvHit ==
  ASSUME NEW line, NEW done \in Nat, NEW next \in Nat, ToReceiver(line, done, next), line # <<>>, NEW msg \in Garbled(Head(line))
  PROVE  ToReceiver(<<msg>> \o Tail(line), done, next)
<1>1. Arrives(Head(line), done, next)
  BY RecvTail
<1>2. CASE msg \in {Garbage, Stray}
  BY <1>2, RestArrives, RecvReplace
<1>3. CASE Head(line).kind = "block" /\ msg \notin {Garbage, Stray}
  <2>1. PICK s \in {"badsum", "badheader"} : msg = [Head(line) EXCEPT !.state = s]
    BY <1>3 DEF Garbled
  <2>2. s \in {"badsum", "badheader", "cut"}
    OBVIOUS
  <2>3. Arrives(msg, done, next) /\ msg.kind = "block" /\ msg.data = Head(line).data
    BY <1>1, <1>3, <2>1, <2>2, SpoiltArrives
  <2> QED
    BY <1>3, <2>3, RecvReplace
<1> QED
  BY <1>2, <1>3 DEF Garbled

\* The receive buffer has held only the first messages.
LEMMA RecvPrefix ==
  ASSUME NEW line, NEW done \in Nat, NEW next \in Nat, ToReceiver(line, done, next),
         NEW k \in 1..Len(line)
  PROVE  ToReceiver(SubSeq(line, 1, k - 1), done, next)
<1> DEFINE prefix == SubSeq(line, 1, k - 1)
<1>1. line \in Seq(Msgs)
  BY DEF ToReceiver
<1>2. /\ prefix \in Seq(Msgs) /\ Len(prefix) = k - 1 /\ Len(line) \in Nat
      /\ \A i \in 1..(k - 1) : prefix[i] = line[i]
  BY <1>1
<1> QED
  BY <1>2 DEF ToReceiver

\* And the beginning of another.
LEMMA RecvCut ==
  ASSUME NEW line, NEW done \in Nat, NEW next \in Nat, ToReceiver(line, done, next),
         NEW k \in 1..Len(line), line[k].kind = "block", NEW msg \in Cut(line[k])
  PROVE  ToReceiver(Append(SubSeq(line, 1, k - 1), msg), done, next)
<1> DEFINE prefix == SubSeq(line, 1, k - 1)
           cut == Append(prefix, msg)
<1>1. line \in Seq(Msgs) /\ Arrives(line[k], done, next) /\ ToReceiver(prefix, done, next)
  BY RecvPrefix DEF ToReceiver
<1>2. Arrives(msg, done, next) /\ (msg.kind = "block" => msg.data = line[k].data)
  <2>1. CASE msg = Garbage
    BY <2>1, RestArrives
  <2>2. CASE msg = [line[k] EXCEPT !.state = "cut"]
    BY <2>2, <1>1, SpoiltArrives
  <2> QED
    BY <2>1, <2>2 DEF Cut
<1>3. /\ prefix \in Seq(Msgs) /\ Len(prefix) = k - 1 /\ Len(line) \in Nat
      /\ \A i \in 1..(k - 1) : prefix[i] = line[i]
  BY <1>1
<1>4. msg \in Msgs
  BY <1>2 DEF Arrives
<1> HIDE DEF prefix
<1>5. /\ cut \in Seq(Msgs) /\ Len(cut) = k /\ cut[k] = msg
      /\ \A i \in 1..(k - 1) : cut[i] = line[i]
  BY <1>3, <1>4
<1> HIDE DEF cut
<1>6. \A i \in 1..Len(cut) : i \in 1..Len(line) /\ Arrives(cut[i], done, next)
        /\ (cut[i].kind = "block" => line[i].kind = "block" /\ cut[i].data = line[i].data)
  <2> SUFFICES ASSUME NEW i \in 1..Len(cut)
               PROVE  i \in 1..Len(line) /\ Arrives(cut[i], done, next)
                        /\ (cut[i].kind = "block" => line[i].kind = "block" /\ cut[i].data = line[i].data)
    OBVIOUS
  <2>1. CASE i = k
    BY <2>1, <1>2, <1>5
  <2>2. CASE i # k
    <3>1. i \in 1..(k - 1) /\ i \in 1..Len(line)
      BY <2>2, <1>3, <1>5
    <3> QED
      BY <3>1, <1>5 DEF ToReceiver
  <2> QED
    BY <2>1, <2>2
<1>7. ToReceiver(cut, done, next)
  BY <1>5, <1>6 DEF ToReceiver
<1> QED
  BY <1>7 DEF cut, prefix

\* The sender goes on to the next block.
LEMMA RecvNext ==
  ASSUME NEW line, NEW done \in Nat, NEW next \in Nat, ToReceiver(line, done, next), next <= FileLen
  PROVE  ToReceiver(line, done, next + 1)
<1>1. \A i \in 1..Len(line) : line[i].kind # "eot"
  BY NumbersAssumption DEF ToReceiver, Arrives
<1>2. \A i \in 1..Len(line) : line[i] \in Blocks => line[i].data \in Nat
  BY NumbersAssumption DEF Blocks
<1>3. \A i \in 1..Len(line) : line[i].kind = "block" => line[i] \in Blocks
  BY DEF ToReceiver, Arrives, Msgs, EOT, Garbage, Stray
<1> QED
  BY <1>1, <1>2, <1>3 DEF ToReceiver, Arrives

\* The receiver has written the block: older ones are behind it no more.
LEMMA RecvWritten ==
  ASSUME NEW line, NEW done \in Nat, NEW next \in Nat, ToReceiver(line, done, next), line # <<>>,
         Head(line).kind = "block", Head(line).data = done + 1
  PROVE  ToReceiver(Tail(line), done + 1, next)
<1>1. ToReceiver(Tail(line), done, next)
  BY RecvTail
<1>2. line \in Seq(Msgs)
  BY DEF ToReceiver
<1>3. /\ Len(Tail(line)) = Len(line) - 1 /\ Len(line) \in Nat \ {0}
      /\ \A i \in 1..Len(Tail(line)) : Tail(line)[i] = line[i + 1]
      /\ Head(line) = line[1]
  BY <1>2
<1>4. \A i \in 1..Len(Tail(line)) : Tail(line)[i].kind = "block" => Tail(line)[i].data >= done + 1
  BY <1>3 DEF ToReceiver
<1>5. \A i \in 1..Len(Tail(line)) : Tail(line)[i].kind = "block" => Tail(line)[i].data = done + 1
  BY <1>1, <1>4 DEF ToReceiver, Arrives
<1> QED
  BY <1>1, <1>5 DEF ToReceiver, Arrives

\* The sender takes an answer from the line.
LEMMA SendTail ==
  ASSUME NEW line, NEW expected \in BOOLEAN, ToSender(line, expected), line # <<>>
  PROVE  /\ ToSender(Tail(line), expected) /\ Head(line) \in Answers
         /\ Head(line).kind = "ack" =>
              expected /\ \A i \in 1..Len(Tail(line)) : Tail(line)[i].kind # "ack"
<1>1. line \in Seq(Answers)
  BY DEF ToSender
<1>2. /\ Tail(line) \in Seq(Answers) /\ Len(Tail(line)) = Len(line) - 1 /\ Len(line) \in Nat \ {0}
      /\ \A i \in 1..Len(Tail(line)) : Tail(line)[i] = line[i + 1]
      /\ Head(line) = line[1] /\ Head(line) \in Answers
  BY <1>1
<1> QED
  BY <1>2 DEF ToSender

\* The receiver answers, but not with an ACK.
LEMMA SendAppend ==
  ASSUME NEW line, NEW expected \in BOOLEAN, ToSender(line, expected), NEW msg \in Answers, msg.kind # "ack"
  PROVE  ToSender(Append(line, msg), expected)
<1>1. line \in Seq(Answers)
  BY DEF ToSender
<1>2. /\ Append(line, msg) \in Seq(Answers) /\ Len(Append(line, msg)) = Len(line) + 1
      /\ Len(line) \in Nat
      /\ \A i \in 1..Len(line) : Append(line, msg)[i] = line[i]
      /\ Append(line, msg)[Len(line) + 1] = msg
  BY <1>1
<1> QED
  BY <1>2 DEF ToSender

\* The line garbles an answer.
LEMMA SendHit ==
  ASSUME NEW line, NEW expected \in BOOLEAN, ToSender(line, expected), line # <<>>, NEW msg \in Garbled(Head(line))
  PROVE  ToSender(<<msg>> \o Tail(line), expected)
<1> DEFINE hit == <<msg>> \o Tail(line)
<1>1. line \in Seq(Answers) /\ Head(line) \in Answers
  BY SendTail DEF ToSender
<1>2. msg = Garbage /\ msg \in Answers /\ msg.kind # "ack"
  BY <1>1 DEF Garbled, Answers, ACK, NAK, C, CAN, Garbage
<1>3. /\ hit \in Seq(Answers) /\ Len(hit) = Len(line) /\ Len(line) \in Nat \ {0}
      /\ hit[1] = msg
      /\ \A i \in 2..Len(line) : hit[i] = line[i]
  BY <1>1, <1>2
<1> QED
  BY <1>2, <1>3 DEF ToSender
\* ACK when none is under way.
LEMMA SendAck ==
  ASSUME NEW line, NEW expected \in BOOLEAN, ToSender(line, expected), ~expected
  PROVE  ToSender(Append(line, ACK), TRUE)
<1>1. line \in Seq(Answers) /\ ACK \in Answers
  BY DEF ToSender, Answers
<1>2. /\ Append(line, ACK) \in Seq(Answers) /\ Len(Append(line, ACK)) = Len(line) + 1
      /\ Len(line) \in Nat
      /\ \A i \in 1..Len(line) : Append(line, ACK)[i] = line[i]
      /\ Append(line, ACK)[Len(line) + 1] = ACK
  BY <1>1
<1>3. \A i \in 1..Len(line) : line[i].kind # "ack"
  BY DEF ToSender
<1> QED
  BY <1>2, <1>3 DEF ToSender

\* The only ACK has been received.
LEMMA SendNone ==
  ASSUME NEW line, NEW expected \in BOOLEAN, NEW now \in BOOLEAN, ToSender(line, expected),
         \A i \in 1..Len(line) : line[i].kind # "ack"
  PROVE  ToSender(line, now)
  BY DEF ToSender
-----------------------------------------------------------------------------
\* What the invariant says of the numbers.
LEMMA XmFacts ==
  ASSUME Honest
  PROVE  /\ Len(out) \in 0..FileLen /\ Len(out) \in Nat
         /\ blocknr \in {Len(out), Len(out) + 1} /\ blocknr \in Nat /\ blocknr \in 1..(FileLen + 1)
         /\ AckIsTrue \in BOOLEAN
         /\ FileLen \in Nat
<1>1. out \in Seq(1..FileLen) /\ blocknr \in 1..(FileLen + 1)
  BY DEF Honest, XmTypeOK
<1>2. Len(out) \in {blocknr - 1, blocknr}
  BY DEF Honest, OutIsPrefix
<1>3. \A k \in 1..Len(out) : out[k] = k
  <2> DEFINE n == Len(out)
  <2>1. out = [k \in 1..n |-> k]
    BY DEF Honest, OutIsPrefix
  <2> HIDE DEF n
  <2>2. \A k \in 1..n : out[k] = k
    BY <2>1
  <2> QED
    BY <2>2 DEF n
<1>4. Len(out) \in Nat /\ \A k \in 1..Len(out) : out[k] \in 1..FileLen
  <2> DEFINE Nrs == 1..FileLen
  <2>1. out \in Seq(Nrs)
    BY <1>1
  <2> HIDE DEF Nrs
  <2>2. Len(out) \in Nat /\ \A k \in 1..Len(out) : out[k] \in Nrs
    BY <2>1
  <2> QED
    BY <2>2 DEF Nrs
<1>5. Len(out) \in 0..FileLen
  <2>1. CASE Len(out) = 0
    BY <2>1, NumbersAssumption
  <2>2. CASE Len(out) # 0
    <3>1. Len(out) \in 1..Len(out)
      BY <1>4, <2>2
    <3>2. Len(out) \in 1..FileLen
      BY <1>3, <1>4, <3>1
    <3> QED
      BY <3>2, NumbersAssumption
  <2> QED
    BY <2>1, <2>2
<1> QED
  BY <1>1, <1>2, <1>5, NumbersAssumption DEF AckIsTrue

\* A step of the sender, from what is new.
LEMMA SenderStep ==
  ASSUME Honest, UNCHANGED recvVars, misread' = FALSE,
         sender' \in {"wait", "done", "failed"}, sender' = "done" => receiver = "done",
         blocknr' \in 1..(FileLen + 1), blocknr' \in {Len(out), Len(out) + 1},
         retries' \in 0..(MaxRetries + 1), sender' = "wait" => retries' <= MaxRetries,
         usecrc' \in BOOLEAN,
         ToReceiver(toRecv', Len(out), blocknr'),
         ToSender(toSend', AckIsTrue')
  PROVE  Honest'
<1>1. XmTypeOK'
  BY DEF Honest, XmTypeOK, recvVars
<1>2. OutIsPrefix'
  <2>1. out' = out /\ blocknr' \in Int /\ Len(out) \in Int
    BY XmFacts DEF recvVars
  <2>2. Len(out) \in {blocknr' - 1, blocknr'}
    <3> DEFINE n == Len(out)
               b == blocknr'
    <3>1. b \in {n, n + 1} /\ b \in Int /\ n \in Int
      BY <2>1
    <3> HIDE DEF n, b
    <3>2. n \in {b - 1, b}
      BY <3>1
    <3> QED
      BY <3>2 DEF n, b
  <2>3. out = [k \in 1..Len(out) |-> k]
    BY DEF Honest, OutIsPrefix
  <2> QED
    BY <2>1, <2>2, <2>3, Zenon DEF OutIsPrefix
<1>3. SuccessIsTrue' /\ Numbers' /\ Retries'
  BY DEF Honest, SuccessIsTrue, Numbers, Retries, recvVars
<1>4. ToReceiver(toRecv, Len(out), blocknr)'
  BY DEF ToReceiver, Arrives, recvVars
<1>5. ToSender(toSend, AckIsTrue)'
  BY DEF ToSender
<1> QED
  BY <1>1, <1>2, <1>3, <1>4, <1>5 DEF Honest

\* A step of the receiver that writes nothing.
LEMMA ReceiverStep ==
  ASSUME Honest, UNCHANGED sendVars, UNCHANGED <<last_block_done, out>>, misread' = FALSE,
         receiver' \in {"purge", "error", "wait", "done", "failed"},
         receiver' = "done" => Len(out) = FileLen,
         receiver = "done" => receiver' = "done",
         rblocknr' \in 0..FileLen, rblocknr' \in {Len(out), Len(out) + 1},
         rretries' \in 0..(MaxRetries + 1),
         receiver' \in {"purge", "error"} => rretries' <= MaxRetries,
         receiver' = "wait" => rretries' < MaxRetries,
         rusecrc' \in BOOLEAN,
         ToReceiver(toRecv', Len(out), blocknr),
         ToSender(toSend', AckIsTrue')
  PROVE  Honest'
<1>1. XmTypeOK'
  BY DEF Honest, XmTypeOK, sendVars
<1>2. OutIsPrefix'
  BY DEF Honest, OutIsPrefix, sendVars
<1>3. SuccessIsTrue' /\ Numbers' /\ Retries'
  BY DEF Honest, SuccessIsTrue, Numbers, Retries, sendVars
<1>4. ToReceiver(toRecv, Len(out), blocknr)'
  BY DEF ToReceiver, Arrives, sendVars
<1>5. ToSender(toSend, AckIsTrue)'
  BY DEF ToSender
<1> QED
  BY <1>1, <1>2, <1>3, <1>4, <1>5 DEF Honest

\* Nothing has been sent.
LEMMA HonestInit == XmInit => Honest
<1> SUFFICES ASSUME XmInit
             PROVE  Honest
  OBVIOUS
<1>1. Len(out) = 0 /\ Len(toRecv) = 0 /\ Len(toSend) = 0
  BY DEF XmInit
<1>2. XmTypeOK
  <2>1. out \in Seq(1..FileLen)
    BY DEF XmInit
  <2>2. 1 \in 1..(FileLen + 1) /\ 0 \in 0..(MaxRetries + 1) /\ 0 \in 0..FileLen
    BY NumbersAssumption
  <2> QED
    BY <2>1, <2>2 DEF XmInit, XmTypeOK
<1>3. OutIsPrefix
  BY <1>1 DEF XmInit, OutIsPrefix
<1>4. SuccessIsTrue /\ Numbers /\ Retries
  BY <1>1, NumbersAssumption DEF XmInit, SuccessIsTrue, Numbers, Retries
<1>5. ToReceiver(toRecv, Len(out), blocknr)
  BY <1>1 DEF XmInit, ToReceiver
<1>6. ToSender(toSend, AckIsTrue)
  BY <1>1 DEF XmInit, ToSender
<1> QED
  BY <1>2, <1>3, <1>4, <1>5, <1>6 DEF Honest, XmInit

-----------------------------------------------------------------------------
\* What the sender sends next fits what is on the line.
LEMMA TransmitFits ==
  ASSUME Honest, NEW nr \in 1..(FileLen + 1), nr \in {Len(out), Len(out) + 1},
         NEW crc \in BOOLEAN, ToReceiver(toRecv, Len(out), nr), Transmit(nr, crc)
  PROVE  ToReceiver(toRecv', Len(out), nr)
<1>1. Len(out) \in Nat /\ nr \in Nat /\ FileLen \in Nat
  BY XmFacts
<1>2. CASE nr > FileLen
  <2>1. Arrives(EOT, Len(out), nr) /\ EOT.kind # "block"
    BY <1>1, <1>2 DEF Arrives, Msgs, EOT
  <2>2. toRecv' = Append(toRecv, EOT)
    BY <1>2 DEF Transmit
  <2> QED
    BY <1>1, <2>1, <2>2, RecvAppend
<1>3. CASE ~(nr > FileLen)
  <2>1. nr % Wrap \in 0..(Wrap - 1)
    BY <1>1, Division
  <2>2. Block(nr, crc) \in Blocks /\ Block(nr, crc).kind = "block" /\ Block(nr, crc).data = nr
        /\ Block(nr, crc).nr = nr % Wrap
    BY <1>1, <1>3, <2>1 DEF Block, Blocks
  <2>3. Arrives(Block(nr, crc), Len(out), nr)
    BY <1>1, <2>2 DEF Arrives, Msgs
  <2>4. toRecv' = Append(toRecv, Block(nr, crc))
    BY <1>3 DEF Transmit
  <2> QED
    BY <1>1, <2>2, <2>3, <2>4, RecvAppend
<1> QED
  BY <1>2, <1>3

\* The sender repeats a block.
LEMMA SendOnNakInv == Honest /\ SendOnNak => Honest'
<1> SUFFICES ASSUME Honest, SendOnNak
             PROVE  Honest'
  OBVIOUS
<1>1. UNCHANGED recvVars /\ UNCHANGED sendVars /\ toSend # <<>> /\ toSend' = Tail(toSend)
      /\ misread' = FALSE
  BY DEF SendOnNak, SenderGets, Honest, envVars
<1>2. ToReceiver(toRecv, Len(out), blocknr) /\ ToSender(toSend, AckIsTrue) /\ usecrc \in BOOLEAN
  BY DEF Honest, XmTypeOK
<1>3. ToReceiver(toRecv', Len(out), blocknr)
  BY <1>2, XmFacts, TransmitFits DEF SendOnNak
<1>4. ToSender(toSend', AckIsTrue)
  BY <1>1, <1>2, XmFacts, SendTail
<1>5. ToSender(toSend', AckIsTrue')
  BY <1>1, <1>4 DEF AckIsTrue, recvVars, sendVars
<1>6. /\ sender \in {"wait", "done", "failed"}
      /\ sender = "done" => receiver = "done"
      /\ retries \in 0..(MaxRetries + 1)
      /\ sender = "wait" => retries <= MaxRetries
  BY DEF Honest, XmTypeOK, SuccessIsTrue, Retries
<1>7. /\ sender' = sender /\ blocknr' = blocknr /\ retries' = retries /\ usecrc' = usecrc
  BY <1>1 DEF sendVars
<1>8. /\ blocknr' \in 1..(FileLen + 1) /\ blocknr' \in {Len(out), Len(out) + 1}
      /\ sender' \in {"wait", "done", "failed"}
      /\ sender' = "done" => receiver = "done"
      /\ retries' \in 0..(MaxRetries + 1)
      /\ sender' = "wait" => retries' <= MaxRetries
  BY <1>6, <1>7, XmFacts
<1>9. usecrc' \in BOOLEAN /\ ToReceiver(toRecv', Len(out), blocknr')
  BY <1>2, <1>3, <1>7
<1> QED
  BY <1>1, <1>5, <1>8, <1>9, SenderStep

\* The receiver asks for a CRC.
LEMMA SendOnCInv == Honest /\ SendOnC => Honest'
<1> SUFFICES ASSUME Honest, SendOnC
             PROVE  Honest'
  OBVIOUS
<1>1. /\ UNCHANGED recvVars /\ usecrc' = TRUE
      /\ sender' = sender /\ blocknr' = blocknr /\ retries' = retries
      /\ toSend # <<>> /\ toSend' = Tail(toSend) /\ misread' = FALSE
  BY DEF SendOnC, SenderGets, Honest, envVars
<1>2. ToReceiver(toRecv, Len(out), blocknr) /\ ToSender(toSend, AckIsTrue)
  BY DEF Honest
<1>3. ToReceiver(toRecv', Len(out), blocknr)
  BY <1>2, XmFacts, TransmitFits DEF SendOnC
<1>4. ToSender(toSend', AckIsTrue)
  BY <1>1, <1>2, XmFacts, SendTail
<1>5. ToSender(toSend', AckIsTrue')
  BY <1>1, <1>4 DEF AckIsTrue, recvVars
<1>6. /\ sender \in {"wait", "done", "failed"}
      /\ sender = "done" => receiver = "done"
      /\ retries \in 0..(MaxRetries + 1)
      /\ sender = "wait" => retries <= MaxRetries
  BY DEF Honest, XmTypeOK, SuccessIsTrue, Retries
<1>7. /\ blocknr' \in 1..(FileLen + 1) /\ blocknr' \in {Len(out), Len(out) + 1}
      /\ sender' \in {"wait", "done", "failed"}
      /\ sender' = "done" => receiver = "done"
      /\ retries' \in 0..(MaxRetries + 1)
      /\ sender' = "wait" => retries' <= MaxRetries
  BY <1>1, <1>6, XmFacts
<1>8. usecrc' \in BOOLEAN /\ ToReceiver(toRecv', Len(out), blocknr')
  BY <1>1, <1>3
<1> QED
  BY <1>1, <1>5, <1>7, <1>8, SenderStep

\* The sender goes on to the next block.
LEMMA SendOnAckInv == Honest /\ SendOnAck => Honest'
<1> SUFFICES ASSUME Honest, SendOnAck
             PROVE  Honest'
  OBVIOUS
<1>1. /\ UNCHANGED recvVars /\ usecrc' = usecrc /\ sender = "wait"
      /\ toSend # <<>> /\ toSend' = Tail(toSend) /\ Head(toSend).kind = "ack" /\ misread' = FALSE
  BY DEF SendOnAck, SenderGets, Honest, envVars
<1>2. /\ ToReceiver(toRecv, Len(out), blocknr) /\ ToSender(toSend, AckIsTrue)
      /\ usecrc \in BOOLEAN /\ retries \in 0..(MaxRetries + 1) /\ MaxRetries \in Nat
      /\ sender = "wait" => retries <= MaxRetries
  BY NumbersAssumption DEF Honest, XmTypeOK, Retries
<1>3. AckIsTrue /\ ToSender(toSend', AckIsTrue)
      /\ \A i \in 1..Len(toSend') : toSend'[i].kind # "ack"
  BY <1>1, <1>2, XmFacts, SendTail
<1>4. ToSender(toSend', FALSE) /\ ToSender(toSend', TRUE)
  BY <1>3, XmFacts, SendNone
<1>5. ToSender(toSend', AckIsTrue')
  BY <1>4 DEF AckIsTrue, ToSender
<1>6. CASE blocknr > FileLen
  <2>1. sender' = "done" /\ UNCHANGED <<blocknr, retries, toRecv>>
    BY <1>6 DEF SendOnAck
  <2>2. receiver = "done"
    BY <1>3, <1>6, XmFacts DEF AckIsTrue
  <2> QED
    BY <1>1, <1>2, <1>5, <2>1, <2>2, XmFacts, SenderStep
<1>7. CASE ~(blocknr > FileLen)
  <2>1. /\ blocknr' = blocknr + 1 /\ retries' = 0 /\ Transmit(blocknr + 1, usecrc) /\ sender' = sender
    BY <1>7 DEF SendOnAck
  <2>2. Len(out) = blocknr /\ blocknr <= FileLen
    BY <1>3, <1>7, XmFacts DEF AckIsTrue
  <2>3. blocknr + 1 \in 1..(FileLen + 1)
    BY <2>2, XmFacts
  <2>4. ToReceiver(toRecv, Len(out), blocknr + 1)
    BY <1>2, <2>2, XmFacts, RecvNext
  <2>5. ToReceiver(toRecv', Len(out), blocknr + 1)
    BY <1>2, <2>1, <2>2, <2>3, <2>4, TransmitFits
  <2>6. /\ blocknr' \in 1..(FileLen + 1) /\ blocknr' \in {Len(out), Len(out) + 1}
        /\ sender' = "wait" /\ retries' \in 0..(MaxRetries + 1) /\ retries' <= MaxRetries
        /\ usecrc' \in BOOLEAN /\ ToReceiver(toRecv', Len(out), blocknr')
    BY <1>1, <1>2, <2>1, <2>2, <2>3, <2>5
  <2> QED
    BY <1>1, <1>5, <2>6, SenderStep
<1> QED
  BY <1>6, <1>7

\* The steps of the sender that send nothing.
LEMMA SenderQuietInv ==
  Honest /\ (SendOnCan \/ SendSkip \/ SendTimeout \/ (sender = "wait" /\ SendEof /\ misread' = misread))
  => Honest'
<1> SUFFICES ASSUME Honest,
                    SendOnCan \/ SendSkip \/ SendTimeout \/ (sender = "wait" /\ SendEof /\ misread' = misread)
             PROVE  Honest'
  OBVIOUS
<1>1. /\ UNCHANGED recvVars /\ blocknr' = blocknr /\ usecrc' = usecrc /\ toRecv' = toRecv
      /\ sender = "wait" /\ misread' = FALSE
      /\ toSend' = toSend \/ (toSend # <<>> /\ toSend' = Tail(toSend))
  BY DEF SendOnCan, SendSkip, SendTimeout, SendEof, SenderGets, sendVars, envVars, Honest
<1>2. /\ ToReceiver(toRecv, Len(out), blocknr) /\ ToSender(toSend, AckIsTrue)
      /\ usecrc \in BOOLEAN /\ retries \in 0..(MaxRetries + 1) /\ MaxRetries \in Nat
      /\ sender = "wait" => retries <= MaxRetries
  BY NumbersAssumption DEF Honest, XmTypeOK, Retries
<1>3. ToSender(toSend', AckIsTrue)
  BY <1>1, <1>2, XmFacts, SendTail
<1>4. ToSender(toSend', AckIsTrue')
  BY <1>1, <1>3 DEF AckIsTrue, recvVars
<1>5. /\ sender' \in {"wait", "failed"}
      /\ retries' \in 0..(MaxRetries + 1)
      /\ sender' = "wait" => retries' <= MaxRetries
  BY <1>1, <1>2 DEF SendOnCan, SendSkip, SendTimeout, SendEof, sendVars, Counted
<1>6. /\ blocknr' \in 1..(FileLen + 1) /\ blocknr' \in {Len(out), Len(out) + 1}
      /\ usecrc' \in BOOLEAN /\ ToReceiver(toRecv', Len(out), blocknr')
  BY <1>1, <1>2, XmFacts
<1> QED
  BY <1>1, <1>4, <1>5, <1>6, SenderStep

-----------------------------------------------------------------------------
\* The receiver empties the line.
LEMMA PurgeInv == Honest /\ Purge => Honest'
<1> SUFFICES ASSUME Honest, Purge
             PROVE  Honest'
  OBVIOUS
<1>0. rretries \in Int /\ MaxRetries \in Int /\ rusecrc \in BOOLEAN
  BY NumbersAssumption DEF Honest, XmTypeOK
<1>1. /\ UNCHANGED sendVars /\ UNCHANGED <<last_block_done, out>>
      /\ rblocknr' = rblocknr /\ receiver \in {"purge", "error"} /\ misread' = FALSE
      /\ toRecv' \in {<<>>, toRecv} \cup Overflown
      /\ rretries' = rretries + 1
      /\ receiver' \in {"failed", "wait"}
      /\ receiver' = "wait" => rretries' < MaxRetries
  BY <1>0 DEF Purge, Counted, Honest, envVars
<1>10. rusecrc' \in BOOLEAN
  BY <1>0, Zenon DEF Purge
<1>2. /\ rblocknr \in 0..FileLen /\ rblocknr \in {Len(out), Len(out) + 1}
      /\ rretries \in 0..(MaxRetries + 1) /\ rretries <= MaxRetries
      /\ ToSender(toSend, AckIsTrue) /\ ToReceiver(toRecv, Len(out), blocknr)
      /\ MaxRetries \in Nat
  BY <1>1, NumbersAssumption DEF Honest, XmTypeOK, Numbers, Retries
<1>3. ToReceiver(toRecv', Len(out), blocknr)
  <2>1. CASE toRecv' = <<>>
    BY <2>1 DEF ToReceiver
  <2>2. CASE toRecv' \in Overflown
    <3>1. PICK k \in 1..Len(toRecv) :
            /\ toRecv[k].kind = "block"
            /\ \/ toRecv' = SubSeq(toRecv, 1, k - 1)
               \/ \E b \in Cut(toRecv[k]) : toRecv' = Append(SubSeq(toRecv, 1, k - 1), b)
      BY <2>2 DEF Overflown
    <3> QED
      BY <1>2, <3>1, XmFacts, RecvPrefix, RecvCut
  <2> QED
    BY <1>1, <1>2, <2>1, <2>2
<1>4. ToSender(toSend', AckIsTrue)
  <2>1. /\ C \in Answers /\ NAK \in Answers /\ CAN \in Answers
        /\ C.kind # "ack" /\ NAK.kind # "ack" /\ CAN.kind # "ack"
    BY DEF Answers, C, NAK, CAN
  <2>2. CASE toSend' = toSend \o <<CAN, CAN>>
    <3>1. ToSender(Append(Append(toSend, CAN), CAN), AckIsTrue)
      BY <1>2, <2>1, XmFacts, SendAppend
    <3>2. toSend \in Seq(Answers)
      BY <1>2 DEF ToSender
    <3>3. toSend \o <<CAN, CAN>> = Append(Append(toSend, CAN), CAN)
      BY <2>1, <3>2
    <3> QED
      BY <2>2, <3>1, <3>3
  <2>3. CASE toSend' = Append(toSend, C) \/ toSend' = Append(toSend, NAK)
    BY <1>2, <2>1, <2>3, XmFacts, SendAppend
  <2> QED
    BY <2>2, <2>3 DEF Purge
<1>5. AckIsTrue' = AckIsTrue
  BY <1>1 DEF AckIsTrue, sendVars
<1>6. ToSender(toSend', AckIsTrue')
  BY <1>4, <1>5
<1>7. /\ rblocknr' \in 0..FileLen /\ rblocknr' \in {Len(out), Len(out) + 1}
      /\ rretries' \in 0..(MaxRetries + 1)
  BY <1>1, <1>2
<1> QED
  BY <1>1, <1>3, <1>6, <1>7, <1>10, ReceiverStep

\* A message that is no good.
LEMMA FailsKeeps ==
  ASSUME NEW done \in Nat, NEW next \in Nat, ToReceiver(toRecv, done, next), toRecv # <<>>,
         Whole \/ Part
  PROVE  ToReceiver(toRecv', done, next)
<1>1. CASE Whole
  BY <1>1, RecvTail DEF Whole
<1>2. CASE Part
  BY <1>2, RestArrives, RecvReplace DEF Part
<1> QED
  BY <1>1, <1>2

\* The steps of the receiver that only start another purge.
LEMMA ReceiverQuietInv ==
  Honest /\ (RecvLost \/ RecvGarbage \/ RecvTimeout \/ (RecvStray /\ misread' = misread)) => Honest'
<1> SUFFICES ASSUME Honest, RecvLost \/ RecvGarbage \/ RecvTimeout \/ (RecvStray /\ misread' = misread)
             PROVE  Honest'
  OBVIOUS
<1>1. /\ UNCHANGED sendVars /\ UNCHANGED <<last_block_done, out>>
      /\ rblocknr' = rblocknr /\ rretries' = rretries /\ rusecrc' = rusecrc
      /\ toSend' = toSend /\ receiver = "wait" /\ receiver' \in {"purge", "error"} /\ misread' = FALSE
      /\ toRecv' = toRecv \/ (toRecv # <<>> /\ (Whole \/ Part))
  BY DEF RecvLost, RecvGarbage, RecvTimeout, RecvStray, ReceiverGets, Fails, Breaks, Honest, envVars
<1>2. /\ rblocknr \in 0..FileLen /\ rblocknr \in {Len(out), Len(out) + 1}
      /\ rretries \in 0..(MaxRetries + 1) /\ rretries < MaxRetries /\ rusecrc \in BOOLEAN
      /\ ToSender(toSend, AckIsTrue) /\ ToReceiver(toRecv, Len(out), blocknr)
      /\ MaxRetries \in Nat
  BY <1>1, NumbersAssumption DEF Honest, XmTypeOK, Numbers, Retries
<1>3. ToReceiver(toRecv', Len(out), blocknr)
  BY <1>1, <1>2, XmFacts, FailsKeeps
<1>4. AckIsTrue' = AckIsTrue
  BY <1>1 DEF AckIsTrue, sendVars
<1>5. ToSender(toSend', AckIsTrue')
  BY <1>1, <1>2, <1>4
<1>6. /\ rblocknr' \in 0..FileLen /\ rblocknr' \in {Len(out), Len(out) + 1}
      /\ rretries' \in 0..(MaxRetries + 1) /\ rretries' <= MaxRetries /\ rusecrc' \in BOOLEAN
  BY <1>1, <1>2
<1> QED
  BY <1>1, <1>3, <1>5, <1>6, ReceiverStep

\* EOT comes after the last block: the receiver has the whole file.
LEMMA RecvEotInv == Honest /\ RecvEot => Honest'
<1> SUFFICES ASSUME Honest, RecvEot
             PROVE  Honest'
  OBVIOUS
<1>1. /\ UNCHANGED sendVars /\ UNCHANGED <<last_block_done, out>>
      /\ rblocknr' = rblocknr /\ rretries' = rretries /\ rusecrc' = rusecrc
      /\ receiver = "wait" /\ receiver' = "done"
      /\ toSend' = Append(toSend, ACK)
      /\ toRecv # <<>> /\ toRecv' = Tail(toRecv) /\ Head(toRecv).kind = "eot" /\ misread' = FALSE
  BY DEF RecvEot, Finish, Whole, ReceiverGets, Honest
<1>2. /\ rblocknr \in 0..FileLen /\ rblocknr \in {Len(out), Len(out) + 1}
      /\ rretries \in 0..(MaxRetries + 1) /\ rusecrc \in BOOLEAN
      /\ ToSender(toSend, AckIsTrue) /\ ToReceiver(toRecv, Len(out), blocknr)
  BY <1>1 DEF Honest, XmTypeOK, Numbers
<1>3. ToReceiver(toRecv', Len(out), blocknr) /\ Arrives(Head(toRecv), Len(out), blocknr)
  BY <1>1, <1>2, XmFacts, RecvTail
<1>4. blocknr = FileLen + 1
  BY <1>1, <1>3 DEF Arrives
<1>5. Len(out) = FileLen /\ ~AckIsTrue
  BY <1>1, <1>4, XmFacts DEF AckIsTrue
<1>6. ToSender(toSend', TRUE)
  BY <1>1, <1>2, <1>5, XmFacts, SendAck
<1>7. AckIsTrue'
  BY <1>1, <1>4 DEF AckIsTrue, sendVars
<1>8. ToSender(toSend', AckIsTrue')
  BY <1>6, <1>7 DEF ToSender
<1> QED
  BY <1>1, <1>2, <1>3, <1>5, <1>8, ReceiverStep

\* A block that is new to the receiver is the next block of the file, whether
\* its number was seen before or not: numbers modulo Wrap do not confuse it.
LEMMA FreshIsNext ==
  ASSUME Honest, receiver = "wait", toRecv # <<>>, Head(toRecv).kind = "block",
         NEW nr, nr = IF IsCurrent(Head(toRecv)) THEN rblocknr ELSE rblocknr + 1,
         IsCurrent(Head(toRecv)) \/ IsNext(Head(toRecv))
  PROVE  nr = Head(toRecv).data
<1> DEFINE n == Len(out)
           block == Head(toRecv)
<1>1. ToReceiver(toRecv, n, blocknr) /\ rblocknr \in {n, n + 1}
  BY DEF Honest, Numbers
<1>2. n \in Nat /\ blocknr \in Nat
  BY XmFacts
<1>3. Arrives(block, n, blocknr)
  BY <1>1, <1>2, RecvTail
<1>4. block.nr = block.data % Wrap /\ block.data \in {n, n + 1}
  BY <1>3 DEF Arrives
<1>5. /\ n % Wrap # (n + 1) % Wrap
      /\ n % Wrap # (n + 2) % Wrap
      /\ (n + 1) % Wrap # (n + 2) % Wrap
  <2>1. n + 1 \in Nat /\ (n + 1) + 1 = n + 2
    BY <1>2
  <2> QED
    BY <1>2, <2>1, NumbersDiffer
<1> HIDE DEF n, block
<1>6. /\ IsCurrent(block) <=> block.nr = rblocknr % Wrap
      /\ IsNext(block) <=> block.nr = (rblocknr + 1) % Wrap
  BY DEF IsCurrent, IsNext
<1>7. nr = IF IsCurrent(block) THEN rblocknr ELSE rblocknr + 1
  BY DEF block
<1>8. IsCurrent(block) \/ IsNext(block)
  BY DEF block
<1>9. CASE rblocknr = n
  <2>1. CASE block.data = n
    BY <1>4, <1>5, <1>6, <1>7, <1>9, <2>1 DEF block
  <2>2. CASE block.data = n + 1
    BY <1>4, <1>5, <1>6, <1>7, <1>8, <1>9, <2>2 DEF block
  <2> QED
    BY <2>1, <2>2, <1>4
<1>10. CASE rblocknr = n + 1
  <2>0. (n + 1) + 1 = n + 2
    BY <1>2
  <2>1. CASE block.data = n
    BY <1>4, <1>5, <1>6, <1>8, <1>10, <2>0, <2>1
  <2>2. CASE block.data = n + 1
    BY <1>4, <1>5, <1>6, <1>7, <1>10, <2>0, <2>2 DEF block
  <2> QED
    BY <2>1, <2>2, <1>4
<1> QED
  BY <1>1, <1>9, <1>10

\* A good block is written if it is the next one, and only then acknowledged.
LEMMA RecvBlockInv == Honest /\ RecvBlock => Honest'
<1> SUFFICES ASSUME Honest, RecvBlock
             PROVE  Honest'
  OBVIOUS
<1> DEFINE block == Head(toRecv)
           nr == IF IsCurrent(block) THEN rblocknr ELSE rblocknr + 1
<1>1. /\ UNCHANGED sendVars /\ rusecrc' = rusecrc /\ receiver = "wait"
      /\ toRecv # <<>> /\ (Whole \/ Part) /\ block.kind = "block" /\ misread' = FALSE
      /\ IsCurrent(block) \/ IsNext(block)
      /\ rblocknr' = nr
  BY DEF RecvBlock, ReceiverGets, Fails, Breaks, Honest
<1>2. /\ rblocknr \in 0..FileLen /\ rblocknr \in {Len(out), Len(out) + 1}
      /\ rretries \in 0..(MaxRetries + 1) /\ rretries < MaxRetries /\ rusecrc \in BOOLEAN
      /\ ToSender(toSend, AckIsTrue) /\ ToReceiver(toRecv, Len(out), blocknr)
      /\ last_block_done = Len(out) /\ MaxRetries \in Nat
  BY <1>1, NumbersAssumption DEF Honest, XmTypeOK, Numbers, Retries
<1>3. ToReceiver(toRecv', Len(out), blocknr) /\ Arrives(block, Len(out), blocknr)
  BY <1>1, <1>2, XmFacts, RecvTail, FailsKeeps
<1>4. nr = block.data
  BY <1>1, FreshIsNext
<1>5. block.data \in {Len(out), Len(out) + 1} /\ block.data \in 1..FileLen /\ block.data <= blocknr
  BY <1>1, <1>3 DEF Arrives, Msgs, Blocks, EOT, Garbage, Stray
<1> HIDE DEF block, nr
<1>6. /\ rblocknr' \in 0..FileLen /\ rblocknr' \in {Len(out), Len(out) + 1}
  BY <1>1, <1>4, <1>5, XmFacts
<1>7. CASE /\ UNCHANGED <<last_block_done, out, toSend>>
           /\ \/ receiver' \in {"purge", "error"} /\ rretries' \in {rretries, MaxRetries}
              \/ receiver' = "wait" /\ rretries' = rretries
  <2>1. last_block_done' = last_block_done /\ out' = out /\ toSend' = toSend
    BY <1>7
  <2>2. AckIsTrue' = AckIsTrue
    BY <1>1, <1>7 DEF AckIsTrue, sendVars
  <2>3. ToSender(toSend', AckIsTrue')
    BY <1>2, <2>1, <2>2
  <2>4. /\ receiver' \in {"purge", "error", "wait"}
        /\ rretries' \in 0..(MaxRetries + 1)
        /\ receiver' \in {"purge", "error"} => rretries' <= MaxRetries
        /\ receiver' = "wait" => rretries' < MaxRetries
    BY <1>2, <1>7
  <2> QED
    BY <1>1, <1>2, <1>3, <1>6, <2>1, <2>3, <2>4, ReceiverStep
<1>8. CASE /\ Fresh(nr) /\ out' = Append(out, block.data) /\ toSend' = Append(toSend, ACK)
           /\ rretries' = 0 /\ last_block_done' = nr /\ receiver' = "wait" /\ Whole
  <2>1. block.data = Len(out) + 1
    BY <1>2, <1>4, <1>5, <1>8, XmFacts DEF Fresh
  <2>2. blocknr = Len(out) + 1
    BY <1>5, <2>1, XmFacts
  <2>3. out' = Append(out, Len(out) + 1) /\ Len(out) + 1 \in 1..FileLen
    BY <1>5, <1>8, <2>1
  <2>4. out' \in Seq(1..FileLen) /\ Len(out') = Len(out) + 1
    <3> DEFINE Nrs == 1..FileLen
    <3>1. out \in Seq(Nrs) /\ Len(out) + 1 \in Nrs
      BY <2>3 DEF Honest, XmTypeOK
    <3> HIDE DEF Nrs
    <3>2. out' \in Seq(Nrs) /\ Len(out') = Len(out) + 1
      BY <2>3, <3>1
    <3> QED
      BY <3>2 DEF Nrs
  <2>5. out' = [k \in 1..Len(out') |-> k]
    <3> DEFINE n == Len(out)
    <3>1. out = [k \in 1..n |-> k] /\ n \in Nat
      BY XmFacts DEF Honest, OutIsPrefix
    <3> HIDE DEF n
    <3>2. Append([k \in 1..n |-> k], n + 1) = [k \in 1..(n + 1) |-> k]
      BY <3>1, SMTT(30)
    <3>3. out' = [k \in 1..(n + 1) |-> k]
      BY <2>3, <3>1, <3>2 DEF n
    <3> QED
      BY <2>4, <3>3, Zenon DEF n
  <2>6. ToReceiver(toRecv', Len(out'), blocknr)
    BY <1>1, <1>2, <1>8, <2>1, <2>4, XmFacts, RecvWritten DEF block, Whole
  <2>7. ~AckIsTrue
    BY <1>1, <2>2, XmFacts DEF AckIsTrue
  <2>8. ToSender(toSend', TRUE)
    BY <1>2, <1>8, <2>7, XmFacts, SendAck
  <2>9. blocknr' = blocknr /\ sender' = sender /\ retries' = retries /\ usecrc' = usecrc
    BY <1>1 DEF sendVars
  <2>10. AckIsTrue'
    BY <2>2, <2>4, <2>9 DEF AckIsTrue
  <2>11. XmTypeOK'
    <3>1. last_block_done' \in 0..FileLen
      BY <1>4, <1>5, <1>8
    <3>2. rretries' \in 0..(MaxRetries + 1)
      BY <1>2, <1>8
    <3> QED
      BY <1>1, <1>2, <1>6, <1>8, <2>4, <2>9, <3>1, <3>2 DEF Honest, XmTypeOK
  <2>12. OutIsPrefix'
    <3>1. Len(out') \in {blocknr' - 1, blocknr'}
      BY <2>2, <2>4, <2>9
    <3> QED
      BY <2>5, <3>1, Zenon DEF OutIsPrefix
  <2>13. SuccessIsTrue' /\ Retries'
    BY <1>1, <1>2, <1>8, <2>9, NumbersAssumption DEF Honest, SuccessIsTrue, Retries
  <2>14. Numbers'
    BY <1>1, <1>4, <1>8, <2>1, <2>4 DEF Numbers
  <2>15. ToReceiver(toRecv, Len(out), blocknr)' /\ ToSender(toSend, AckIsTrue)'
    BY <2>6, <2>8, <2>9, <2>10 DEF ToReceiver, Arrives, ToSender
  <2> QED
    BY <1>1, <2>11, <2>12, <2>13, <2>14, <2>15 DEF Honest
<1>9. \/ /\ UNCHANGED <<last_block_done, out, toSend>>
         /\ \/ receiver' \in {"purge", "error"} /\ rretries' \in {rretries, MaxRetries}
            \/ receiver' = "wait" /\ rretries' = rretries
      \/ /\ Fresh(nr) /\ out' = Append(out, block.data) /\ toSend' = Append(toSend, ACK)
         /\ rretries' = 0 /\ last_block_done' = nr /\ receiver' = "wait" /\ Whole
  BY <1>1 DEF RecvBlock, block, nr, Fails, Breaks
<1> QED
  BY <1>7, <1>8, <1>9

\* The line fails.
LEMMA LineFailsInv == Honest /\ LineFails => Honest'
<1> SUFFICES ASSUME Honest, LineFails
             PROVE  Honest'
  OBVIOUS
<1>1. /\ sendVars' = sendVars /\ recvVars' = recvVars /\ misread' = FALSE
      /\ \/ toRecv # <<>> /\ Hit(Head(toRecv), toRecv, Tail(toRecv)) /\ toSend' = toSend
         \/ toSend # <<>> /\ Hit(Head(toSend), toSend, Tail(toSend)) /\ toRecv' = toRecv
  BY DEF LineFails, Honest
<1>2. ToSender(toSend, AckIsTrue) /\ ToReceiver(toRecv, Len(out), blocknr)
  BY DEF Honest
<1>3. ToReceiver(toRecv', Len(out), blocknr)
  BY <1>1, <1>2, XmFacts, RecvTail, RecvHit DEF Hit
<1>4. ToSender(toSend', AckIsTrue)
  BY <1>1, <1>2, XmFacts, SendTail, SendHit DEF Hit
<1>5. AckIsTrue' = AckIsTrue
  BY <1>1 DEF AckIsTrue, sendVars, recvVars
<1>6. XmTypeOK' /\ OutIsPrefix' /\ SuccessIsTrue' /\ Numbers' /\ Retries'
  BY <1>1 DEF Honest, XmTypeOK, OutIsPrefix, SuccessIsTrue, Numbers, Retries, sendVars, recvVars
<1>7. ToReceiver(toRecv, Len(out), blocknr)' /\ ToSender(toSend, AckIsTrue)'
  BY <1>1, <1>3, <1>4, <1>5 DEF ToReceiver, Arrives, ToSender, sendVars, recvVars
<1> QED
  BY <1>1, <1>6, <1>7 DEF Honest

\* The driver notes an error.
LEMMA LineErrorInv == Honest /\ LineError => Honest'
<1> SUFFICES ASSUME Honest, LineError
             PROVE  Honest'
  OBVIOUS
<1>1. misread' = FALSE /\ misread' = misread
  BY DEF LineError, Honest
<1>2. CASE /\ receiver \in {"wait", "purge"}
           /\ receiver' = "error"
           /\ UNCHANGED <<sendVars, rblocknr, last_block_done, rretries, rusecrc, out, toRecv, toSend>>
  <2>1. /\ rblocknr \in 0..FileLen /\ rblocknr \in {Len(out), Len(out) + 1}
        /\ rretries \in 0..(MaxRetries + 1) /\ rretries <= MaxRetries /\ rusecrc \in BOOLEAN
        /\ ToSender(toSend, AckIsTrue) /\ ToReceiver(toRecv, Len(out), blocknr)
    BY <1>2, NumbersAssumption DEF Honest, XmTypeOK, Numbers, Retries
  <2>2. AckIsTrue' = AckIsTrue
    BY <1>2 DEF AckIsTrue, sendVars
  <2> QED
    BY <1>1, <1>2, <2>1, <2>2, ReceiverStep
<1>3. CASE sender = "wait" /\ SendEof
  BY <1>1, <1>3, SenderQuietInv
<1> QED
  BY <1>2, <1>3 DEF LineError

-----------------------------------------------------------------------------
(***************************************************************************)
(* The receiver that mistakes a byte for EOT, and what follows.            *)
(***************************************************************************)
\* The sender takes an answer.
LEMMA LateTail ==
  ASSUME NEW line, NEW n \in Nat, NEW b \in Nat, ToSenderLate(line, n, b), line # <<>>
  PROVE  /\ ToSenderLate(Tail(line), n, b)
         /\ Head(line).kind = "ack" => b <= n + 1 /\ ToSenderLate(Tail(line), n, b + 1)
<1>1. line \in Seq(Answers)
  BY DEF ToSenderLate
<1>2. /\ Tail(line) \in Seq(Answers) /\ Len(Tail(line)) = Len(line) - 1 /\ Len(line) \in Nat \ {0}
      /\ \A i \in 1..Len(Tail(line)) : Tail(line)[i] = line[i + 1]
      /\ Head(line) = line[1]
  BY <1>1
<1> DEFINE rest == Tail(line)
<1> HIDE DEF rest
<1>3. /\ rest \in Seq(Answers) /\ Len(rest) = Len(line) - 1 /\ Len(line) \in Nat \ {0}
      /\ \A i \in 1..Len(rest) : rest[i] = line[i + 1] /\ i + 1 \in 1..Len(line)
      /\ Head(line) = line[1] /\ 1 \in 1..Len(line)
  BY <1>2 DEF rest
<1>4. ToSenderLate(rest, n, b)
  <2>1. \A i \in 1..Len(rest) : rest[i].kind = "ack" => b <= n + 1
    BY <1>3 DEF ToSenderLate
  <2>2. \A i, j \in 1..Len(rest) : i < j /\ rest[i].kind = "ack" /\ rest[j].kind = "ack" => b <= n
    <3> SUFFICES ASSUME NEW i \in 1..Len(rest), NEW j \in 1..Len(rest), i < j,
                        rest[i].kind = "ack", rest[j].kind = "ack"
                 PROVE  b <= n
      OBVIOUS
    <3>1. i + 1 \in 1..Len(line) /\ j + 1 \in 1..Len(line) /\ i + 1 < j + 1
          /\ line[i + 1].kind = "ack" /\ line[j + 1].kind = "ack"
      BY <1>3
    <3> QED
      BY <3>1 DEF ToSenderLate
  <2>3. \A i, j, k \in 1..Len(rest) :
          ~(i < j /\ j < k /\ rest[i].kind = "ack" /\ rest[j].kind = "ack" /\ rest[k].kind = "ack")
    <3> SUFFICES ASSUME NEW i \in 1..Len(rest), NEW j \in 1..Len(rest), NEW k \in 1..Len(rest),
                        i < j, j < k, rest[i].kind = "ack", rest[j].kind = "ack", rest[k].kind = "ack"
                 PROVE  FALSE
      OBVIOUS
    <3>1. i + 1 < j + 1 /\ j + 1 < k + 1
      OBVIOUS
    <3>2. /\ i + 1 \in 1..Len(line) /\ j + 1 \in 1..Len(line) /\ k + 1 \in 1..Len(line)
          /\ line[i + 1].kind = "ack" /\ line[j + 1].kind = "ack" /\ line[k + 1].kind = "ack"
      BY <1>3
    <3> QED
      BY <3>1, <3>2 DEF ToSenderLate
  <2> QED
    BY <1>3, <2>1, <2>2, <2>3 DEF ToSenderLate
<1>5. ASSUME Head(line).kind = "ack"
      PROVE  b <= n + 1 /\ ToSenderLate(rest, n, b + 1)
  <2>1. line[1].kind = "ack" /\ b <= n + 1
    BY <1>3, <1>5 DEF ToSenderLate
  <2>2. \A i \in 1..Len(rest) : rest[i].kind = "ack" => b + 1 <= n + 1
    <3> SUFFICES ASSUME NEW i \in 1..Len(rest), rest[i].kind = "ack"
                 PROVE  b <= n
      OBVIOUS
    <3>1. i + 1 \in 1..Len(line) /\ 1 < i + 1 /\ line[i + 1].kind = "ack"
      BY <1>3
    <3> QED
      BY <1>3, <2>1, <3>1 DEF ToSenderLate
  <2>3. \A i, j \in 1..Len(rest) : ~(i < j /\ rest[i].kind = "ack" /\ rest[j].kind = "ack")
    <3> SUFFICES ASSUME NEW i \in 1..Len(rest), NEW j \in 1..Len(rest),
                        i < j, rest[i].kind = "ack", rest[j].kind = "ack"
                 PROVE  FALSE
      OBVIOUS
    <3>1. /\ i + 1 \in 1..Len(line) /\ j + 1 \in 1..Len(line) /\ 1 < i + 1 /\ i + 1 < j + 1
          /\ line[i + 1].kind = "ack" /\ line[j + 1].kind = "ack"
      BY <1>3
    <3> QED
      BY <1>3, <2>1, <3>1 DEF ToSenderLate
  <2> QED
    BY <1>3, <2>1, <2>2, <2>3 DEF ToSenderLate
<1> QED
  BY <1>4, <1>5 DEF rest

\* An answer is garbled.
LEMMA LateHit ==
  ASSUME NEW line, NEW n \in Nat, NEW b \in Nat, ToSenderLate(line, n, b), line # <<>>,
         NEW msg \in Garbled(Head(line))
  PROVE  ToSenderLate(<<msg>> \o Tail(line), n, b)
<1> DEFINE hit == <<msg>> \o Tail(line)
<1>1. line \in Seq(Answers) /\ Head(line) \in Answers
  BY DEF ToSenderLate
<1>2. msg = Garbage /\ msg \in Answers /\ msg.kind # "ack"
  BY <1>1 DEF Garbled, Answers, ACK, NAK, C, CAN, Garbage
<1>3. /\ hit \in Seq(Answers) /\ Len(hit) = Len(line) /\ Len(line) \in Nat \ {0}
      /\ hit[1] = msg
      /\ \A i \in 2..Len(line) : hit[i] = line[i]
  BY <1>1, <1>2
<1> HIDE DEF hit
<1>4. \A i \in 1..Len(hit) : hit[i].kind = "ack" => i \in 1..Len(line) /\ line[i].kind = "ack"
  BY <1>2, <1>3
<1>5. ToSenderLate(hit, n, b)
  <2>1. \A i, j, k \in 1..Len(hit) :
          ~(i < j /\ j < k /\ hit[i].kind = "ack" /\ hit[j].kind = "ack" /\ hit[k].kind = "ack")
    BY <1>4 DEF ToSenderLate
  <2>2. \A i, j \in 1..Len(hit) : i < j /\ hit[i].kind = "ack" /\ hit[j].kind = "ack" => b <= n
    BY <1>4 DEF ToSenderLate
  <2>3. \A i \in 1..Len(hit) : hit[i].kind = "ack" => b <= n + 1
    BY <1>4 DEF ToSenderLate
  <2> QED
    BY <1>3, <2>1, <2>2, <2>3 DEF ToSenderLate
<1> QED
  BY <1>5 DEF hit

\* The receiver acknowledges the EOT that it has not got.
LEMMA LateAck ==
  ASSUME NEW line, NEW expected \in BOOLEAN, ToSender(line, expected), NEW n \in Nat, NEW b \in {n, n + 1},
         expected => b = n
  PROVE  ToSenderLate(Append(line, ACK), n, b)
<1> DEFINE longer == Append(line, ACK)
<1>1. line \in Seq(Answers) /\ ACK \in Answers
  BY DEF ToSender, Answers
<1>2. /\ longer \in Seq(Answers) /\ Len(longer) = Len(line) + 1 /\ Len(line) \in Nat
      /\ \A i \in 1..Len(line) : longer[i] = line[i]
  BY <1>1
<1> HIDE DEF longer
<1>3. \A i \in 1..Len(longer) : i \in 1..Len(line) \/ i = Len(line) + 1
  BY <1>2
<1>4. \A i \in 1..Len(line) : longer[i].kind = "ack" => expected
  BY <1>2 DEF ToSender
<1>5. \A i, j \in 1..Len(line) : longer[i].kind = "ack" /\ longer[j].kind = "ack" => i = j
  BY <1>2 DEF ToSender
<1>6. \A i, j, k \in 1..Len(longer) :
        ~(i < j /\ j < k /\ longer[i].kind = "ack" /\ longer[j].kind = "ack" /\ longer[k].kind = "ack")
  BY <1>2, <1>3, <1>5
<1>7. \A i, j \in 1..Len(longer) : i < j /\ longer[i].kind = "ack" /\ longer[j].kind = "ack" => b <= n
  BY <1>2, <1>3, <1>4
<1> QED
  BY <1>2, <1>6, <1>7 DEF ToSenderLate, longer

\* The receiver takes a byte of the rest of a block for EOT.
LEMMA MisreadInv == Honest /\ RecvStray /\ misread' # misread => Mistaken'
<1> SUFFICES ASSUME Honest, RecvStray, misread' # misread
             PROVE  Mistaken'
  OBVIOUS
<1>1. /\ UNCHANGED sendVars /\ Finish /\ misread' = TRUE /\ receiver = "wait"
  BY DEF RecvStray, ReceiverGets, envVars
<1>2. /\ UNCHANGED <<rblocknr, last_block_done, rretries, rusecrc, out>>
      /\ toSend' = Append(toSend, ACK) /\ receiver' = "done"
  BY <1>1 DEF Finish
<1>3. XmTypeOK'
  BY <1>1, <1>2 DEF Honest, XmTypeOK, sendVars
<1>4. OutIsPrefix' /\ SuccessIsTrue'
  BY <1>1, <1>2 DEF Honest, OutIsPrefix, SuccessIsTrue, sendVars
<1>5. AckIsTrue => blocknr = Len(out)
  BY <1>1, XmFacts DEF AckIsTrue
<1>6. ToSenderLate(toSend', Len(out), blocknr)
  BY <1>2, <1>5, XmFacts, LateAck DEF Honest
<1>7. /\ Len(out) \in 0..FileLen /\ blocknr \in {Len(out), Len(out) + 1, Len(out) + 2}
      /\ sender = "wait" => retries <= MaxRetries
  BY XmFacts DEF Honest, Retries
<1>8. out' = out /\ blocknr' = blocknr /\ sender' = sender /\ retries' = retries
  BY <1>1, <1>2 DEF sendVars
<1>9. ToSenderLate(toSend, Len(out), blocknr)'
  BY <1>6, <1>8 DEF ToSenderLate
<1> QED
  BY <1>1, <1>2, <1>3, <1>4, <1>7, <1>8, <1>9 DEF Mistaken

\* A step of the sender, or of the line, when the receiver has gone.
LEMMA LateStep ==
  ASSUME Mistaken, UNCHANGED recvVars, misread' = misread,
         sender' \in {"wait", "done", "failed"}, sender' = "done" => Len(out) = FileLen,
         blocknr' \in 1..(FileLen + 1), blocknr' \in {Len(out), Len(out) + 1, Len(out) + 2},
         retries' \in 0..(MaxRetries + 1), sender' = "wait" => retries' <= MaxRetries,
         usecrc' \in BOOLEAN,
         ToSenderLate(toSend', Len(out), blocknr')
  PROVE  Mistaken'
<1>1. XmTypeOK'
  BY DEF Mistaken, XmTypeOK, recvVars
<1>2. OutIsPrefix' /\ SuccessIsTrue'
  BY DEF Mistaken, OutIsPrefix, SuccessIsTrue, recvVars
<1>3. ToSenderLate(toSend, Len(out), blocknr)'
  BY DEF ToSenderLate, recvVars
<1> QED
  BY <1>1, <1>2, <1>3 DEF Mistaken, recvVars

\* What the sender and the line still do does not make the sender succeed.
LEMMA MistakenNext == Mistaken /\ XmNext => Mistaken'
<1> SUFFICES ASSUME Mistaken, XmNext
             PROVE  Mistaken'
  OBVIOUS
<1>1. /\ receiver = "done" /\ misread = TRUE
      /\ sender \in {"wait", "done", "failed"} /\ usecrc \in BOOLEAN
      /\ blocknr \in 1..(FileLen + 1) /\ blocknr \in {Len(out), Len(out) + 1, Len(out) + 2}
      /\ retries \in 0..(MaxRetries + 1) /\ MaxRetries \in Nat
      /\ sender = "wait" => retries <= MaxRetries
      /\ sender = "done" => Len(out) = FileLen
      /\ Len(out) \in 0..FileLen /\ Len(out) \in Nat /\ blocknr \in Nat /\ FileLen \in Nat
      /\ ToSenderLate(toSend, Len(out), blocknr)
  BY NumbersAssumption DEF Mistaken, XmTypeOK, SuccessIsTrue
<1>2. ~Receiver
  BY <1>1 DEF Receiver, Purge, RecvLost, RecvBlock, RecvEot, RecvGarbage, RecvStray, RecvTimeout,
              ReceiverGets
<1>3. CASE SendOnNak \/ SendOnC \/ SendSkip \/ SendOnCan
  <2>1. /\ UNCHANGED recvVars /\ misread' = misread
        /\ toSend # <<>> /\ toSend' = Tail(toSend)
        /\ blocknr' = blocknr /\ retries' = retries
        /\ sender = "wait" /\ sender' \in {"wait", "failed"}
        /\ usecrc' \in {usecrc, TRUE}
    BY <1>3 DEF SendOnNak, SendOnC, SendSkip, SendOnCan, SenderGets, sendVars, envVars
  <2>2. ToSenderLate(toSend', Len(out), blocknr)
    BY <1>1, <2>1, LateTail
  <2> QED
    BY <1>1, <2>1, <2>2, LateStep
<1>4. CASE SendOnAck
  <2>1. /\ UNCHANGED recvVars /\ misread' = misread /\ sender = "wait" /\ usecrc' = usecrc
        /\ toSend # <<>> /\ toSend' = Tail(toSend) /\ Head(toSend).kind = "ack"
    BY <1>4 DEF SendOnAck, SenderGets, envVars
  <2>2. /\ blocknr <= Len(out) + 1
        /\ ToSenderLate(toSend', Len(out), blocknr) /\ ToSenderLate(toSend', Len(out), blocknr + 1)
    BY <1>1, <2>1, LateTail
  <2>3. CASE blocknr > FileLen
    <3>1. sender' = "done" /\ blocknr' = blocknr /\ retries' = retries
      BY <1>4, <2>3 DEF SendOnAck
    <3>2. Len(out) = FileLen
      BY <1>1, <2>2, <2>3
    <3> QED
      BY <1>1, <2>1, <2>2, <3>1, <3>2, LateStep
  <2>4. CASE ~(blocknr > FileLen)
    <3>1. sender' = sender /\ blocknr' = blocknr + 1 /\ retries' = 0
      BY <1>4, <2>4 DEF SendOnAck
    <3>2. blocknr + 1 \in 1..(FileLen + 1) /\ blocknr + 1 \in {Len(out), Len(out) + 1, Len(out) + 2}
      BY <1>1, <2>2, <2>4
    <3> QED
      BY <1>1, <2>1, <2>2, <3>1, <3>2, LateStep
  <2> QED
    BY <2>3, <2>4
<1>5. ASSUME sender = "wait", SendEof, misread' = misread
      PROVE  Mistaken'
  <2>1. /\ UNCHANGED recvVars /\ toSend' = toSend /\ blocknr' = blocknr /\ usecrc' = usecrc
        /\ sender' \in {"wait", "failed"} /\ retries' = retries + 1
        /\ sender' = "wait" => retries' <= MaxRetries
    BY <1>1, <1>5 DEF SendEof, Counted
  <2> QED
    BY <1>1, <1>5, <2>1, LateStep
<1>6. CASE SendTimeout
  BY <1>5, <1>6 DEF SendTimeout, envVars
<1>7. CASE LineFails
  <2>1. /\ UNCHANGED recvVars /\ UNCHANGED sendVars /\ misread' = misread
        /\ toSend' = toSend \/ (toSend # <<>> /\ Hit(Head(toSend), toSend, Tail(toSend)))
    BY <1>7 DEF LineFails
  <2>2. ToSenderLate(toSend', Len(out), blocknr)
    BY <1>1, <2>1, LateTail, LateHit DEF Hit
  <2> QED
    BY <1>1, <2>1, <2>2, LateStep DEF sendVars
<1>8. CASE LineError
  BY <1>1, <1>5, <1>8 DEF LineError
<1> QED
  BY <1>2, <1>3, <1>4, <1>6, <1>7, <1>8 DEF XmNext, Sender

-----------------------------------------------------------------------------
\* Every step preserves the invariant.
LEMMA XmInvNext == XmInv /\ [XmNext]_xmVars => XmInv'
<1> SUFFICES ASSUME XmInv, [XmNext]_xmVars
             PROVE  XmInv'
  OBVIOUS
<1>1. CASE Honest /\ Sender
  BY <1>1, SendOnNakInv, SendOnCInv, SendOnAckInv, SenderQuietInv DEF Sender, XmInv
<1>2. CASE Honest /\ Receiver
  <2>1. CASE RecvStray
    BY <1>2, <2>1, ReceiverQuietInv, MisreadInv DEF XmInv
  <2>2. CASE ~RecvStray
    BY <1>2, <2>2, PurgeInv, ReceiverQuietInv, RecvBlockInv, RecvEotInv DEF Receiver, XmInv
  <2> QED
    BY <2>1, <2>2
<1>3. CASE Honest /\ (LineFails \/ LineError)
  BY <1>3, LineFailsInv, LineErrorInv DEF XmInv
<1>4. CASE Mistaken /\ XmNext
  BY <1>4, MistakenNext DEF XmInv
<1>5. CASE UNCHANGED xmVars
  <2>0. ASSUME Honest
        PROVE  Honest'
    <3>1. ToReceiver(toRecv, Len(out), blocknr)' /\ ToSender(toSend, AckIsTrue)'
      BY <1>5, <2>0 DEF xmVars, sendVars, recvVars, Honest, ToReceiver, Arrives, ToSender, AckIsTrue
    <3>2. XmTypeOK' /\ OutIsPrefix' /\ SuccessIsTrue' /\ Numbers' /\ Retries'
      BY <1>5, <2>0 DEF xmVars, sendVars, recvVars, envVars, Honest, XmTypeOK, OutIsPrefix,
                        SuccessIsTrue, Numbers, Retries
    <3> QED
      BY <1>5, <2>0, <3>1, <3>2 DEF Honest, xmVars, envVars
  <2>1. Honest => Honest'
    BY <2>0
  <2>2. ASSUME Mistaken
        PROVE  Mistaken'
    <3>1. ToSenderLate(toSend', Len(out), blocknr')
      BY <1>5, <2>2 DEF xmVars, sendVars, Mistaken, ToSenderLate
    <3> QED
      BY <1>5, <2>2, <3>1, LateStep DEF xmVars, sendVars, envVars, Mistaken, XmTypeOK, SuccessIsTrue
  <2> QED
    BY <2>1, <2>2 DEF XmInv
<1> QED
  BY <1>1, <1>2, <1>3, <1>4, <1>5 DEF XmNext, XmInv

-----------------------------------------------------------------------------
\* The invariant holds whatever the line does: until a byte is mistaken for EOT,
\* only the last block that was written and the next one are under way, in this
\* order, and at most one ACK; after it, at most two ACKs (xmodem_send() and
\* xmodem_recv() on a line that keeps its order).
THEOREM XmInvariance == XmSpec => []XmInv
<1>1. XmInit => XmInv
  BY HonestInit DEF XmInv
<1> QED
  BY <1>1, XmInvNext, PTL DEF XmSpec

\* Block numbers, retry counters and what is written keep their types: the
\* receiver never counts a block that the file has not (xmodem.c:185-203).
THEOREM XModemTypeCorrect == XmSpec => []XmTypeOK
<1>1. XmInv => XmTypeOK
  BY DEF XmInv, Honest, Mistaken
<1> QED
  BY <1>1, XmInvariance, PTL

\* No block is lost, repeated or out of order in the received file, also if a
\* byte is mistaken for EOT; otherwise the sender is at most one block ahead
\* (xmodem.c:263-284).
THEOREM ReceivedIsSent == XmSpec => []OutIsPrefix
<1>1. XmInv => OutIsPrefix
  BY DEF XmInv, Honest, Mistaken
<1> QED
  BY <1>1, XmInvariance, PTL

\* xmodem_send() returns true only when xmodem_recv() has and the file is
\* complete, also if a byte was mistaken for EOT (xmodem.c:378-380);
\* xmodem_recv() returns true with an incomplete file only if one was
\* (xmodem.c:161, 287-290).
THEOREM TrueMeansReceived == XmSpec => []SuccessIsTrue
<1>1. XmInv => SuccessIsTrue
  BY DEF XmInv, Honest, Mistaken
<1> QED
  BY <1>1, XmInvariance, PTL
=============================================================================
