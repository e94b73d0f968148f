------------------------------- MODULE XModem -------------------------------
(***************************************************************************)
(* The XModem protocol, net/xmodem.c: xmodem_send() at one end of a serial *)
(* line and xmodem_recv() at the other.  The line may lose or garble what  *)
(* is sent, and the driver may note an error, which makes kfile_getc()     *)
(* fail.  A block is one message, and what is left of one that was damaged *)
(* or read in part is a message too, Stray: the receiver reads it byte by  *)
(* byte for control codes, if kfile_resync() does not swallow it.  Damage  *)
(* that turns one code into another, or that makes a block anew, whose     *)
(* header and checksum are right, is left out.                             *)
(***************************************************************************)
EXTENDS Integers, Sequences

CONSTANTS
  FileLen,        \* the file to send has this many blocks
  Wrap,           \* block numbers are sent modulo Wrap (256)
  MaxRetries,     \* CONFIG_XMODEM_MAXRETRIES
  MaxCrcRetries,  \* CONFIG_XMODEM_MAXCRCRETRIES
  MaxFaults,      \* bound: how often the line fails if answers come in time,
  LateFaults,     \*   and when they may be late
  Patience        \* which ends may have patience

ASSUME NumbersAssumption ==
  /\ FileLen \in Nat /\ MaxFaults \in Nat /\ LateFaults \in Nat
  /\ Wrap \in Nat /\ Wrap > 2
  /\ MaxCrcRetries \in Nat /\ MaxRetries \in Nat \ {0}
ASSUME PatienceAssumption == Patience \subseteq SUBSET {"sender", "receiver"}

VARIABLES
  sender,     \* xmodem_send(): "wait", or the result TRUE or FALSE as "done", "failed"
  blocknr,    \* sender: the block in the buffer; past the end of file, size is 0
  retries,    \* sender: how many timeouts since the last ACK
  usecrc,     \* sender: C was received
  receiver,   \* xmodem_recv(): "wait", "done" or "failed", or about to purge the
              \* input, in "error" if kfile_getc() has failed
  rblocknr,   \* receiver: the last block whose header was seen
  last_block_done,
  rretries,   \* receiver: how many purges since the last good block
  rusecrc,    \* receiver: expect a CRC and not a checksum
  out,        \* the blocks written to the received file
  toRecv,     \* the line: what is on its way to the receiver,
  toSend,     \*   and to the sender
  faults,     \* how often the line has failed
  spared,     \* no ACK was hit, and the received file could be written
  patient,    \* the ends that do not time out while the other will answer yet
  misread     \* the receiver has taken a byte of a damaged block for EOT

sendVars == <<sender, blocknr, retries, usecrc>>
recvVars == <<receiver, rblocknr, last_block_done, rretries, rusecrc, out>>
envVars == <<faults, spared, patient, misread>>
xmVars == <<sendVars, recvVars, toRecv, toSend, envVars>>

ACK == [kind |-> "ack"]
NAK == [kind |-> "nak"]
C   == [kind |-> "c"]
CAN == [kind |-> "can"]
EOT == [kind |-> "eot"]
Garbage == [kind |-> "garbage"]
Stray   == [kind |-> "stray"]

\* A block with its number, what it is checked with, and its data: the number
\* of the block of the file.
Block(nr, crc) ==
  [kind |-> "block", nr |-> nr % Wrap, crc |-> crc, data |-> nr, state |-> "good"]

-----------------------------------------------------------------------------
\* Mutant of Counted: retries are not counted.
CountedNot(n) == n

\* retries++.
Counted(n) == n + 1

\* Mutant of Transmit: the last block is taken for the end of the file.
TransmitShort(nr, crc) ==
  toRecv' = Append(toRecv, IF nr >= FileLen THEN EOT ELSE Block(nr, crc))

\* What the sender sends when the block nr is in its buffer.
Transmit(nr, crc) ==
  toRecv' = Append(toRecv, IF nr > FileLen THEN EOT ELSE Block(nr, crc))

\* The sender receives a message of a kind.
SenderGets(kind) ==
  /\ sender = "wait" /\ toSend # <<>>
  /\ Head(toSend).kind = kind
  /\ toSend' = Tail(toSend)
  /\ UNCHANGED <<recvVars, envVars>>

SendOnNak ==
  /\ SenderGets("nak")
  /\ Transmit(blocknr, usecrc)
  /\ UNCHANGED sendVars

SendOnC ==
  /\ SenderGets("c")
  /\ usecrc' = TRUE
  /\ Transmit(blocknr, TRUE)
  /\ UNCHANGED <<sender, blocknr, retries>>

\* The next block is read and sent, or all is done.
SendOnAck ==
  /\ SenderGets("ack")
  /\ IF blocknr > FileLen
     THEN sender' = "done" /\ UNCHANGED <<blocknr, retries, toRecv>>
     ELSE /\ blocknr' = blocknr + 1
          /\ retries' = 0
          /\ Transmit(blocknr + 1, usecrc)
          /\ UNCHANGED sender
  /\ UNCHANGED usecrc

SendOnCan ==
  /\ SenderGets("can")
  /\ sender' = "failed"
  /\ UNCHANGED <<blocknr, retries, usecrc, toRecv>>

SendSkip == SenderGets("garbage") /\ UNCHANGED <<sendVars, toRecv>>

\* Mutant of SendEof: the sender does not give up.
SendEofForever ==
  /\ retries' = Counted(retries)
  /\ UNCHANGED <<sender, blocknr, usecrc, recvVars, toRecv, toSend>>

\* kfile_getc() returns EOF.
SendEof ==
  /\ retries' = Counted(retries)
  /\ sender' = IF retries' <= MaxRetries THEN "wait" ELSE "failed"
  /\ UNCHANGED <<blocknr, usecrc, recvVars, toRecv, toSend>>

SendTimeout ==
  /\ sender = "wait" /\ toSend = <<>>
  /\ "sender" \in patient => receiver \in {"done", "failed"}
  /\ SendEof
  /\ UNCHANGED envVars

-----------------------------------------------------------------------------
\* Nothing more comes in time.
Silence == "receiver" \in patient => toSend = <<>> \/ sender # "wait"

\* A block without its end: its header, or less than that.
Cut(block) ==
  {Garbage} \cup IF block.state = "badheader" THEN {} ELSE {[block EXCEPT !.state = "cut"]}

\* What is sent while nobody reads overflows the receive buffer: a block is cut
\* or lost, and what follows it is lost.
Overflown ==
  LET kept(k) == SubSeq(toRecv, 1, k - 1)
      blocks == {k \in 1..Len(toRecv) : toRecv[k].kind = "block"}
  IN {kept(k) : k \in blocks} \cup
     UNION {{Append(kept(k), b) : b \in Cut(toRecv[k])} : k \in blocks}

\* Discard the input, count the retry, and ask again.  While an error is noted
\* kfile_getc() takes nothing from the buffer (ser.c:172), and after 200 ms
\* kfile_resync() only clears the error (kfile.c:270).
Purge ==
  /\ receiver \in {"purge", "error"}
  /\ toRecv' \in IF receiver = "purge" THEN {<<>>} ELSE {toRecv} \cup Overflown
  /\ rretries' = Counted(rretries)
  /\ IF rretries' >= MaxRetries
     THEN /\ toSend' = toSend \o <<CAN, CAN>>
          /\ receiver' = "failed"
          /\ UNCHANGED rusecrc
     ELSE /\ receiver' = "wait"
          /\ rusecrc' = (rusecrc /\ (rblocknr = 0 => rretries' < MaxCrcRetries))
          /\ toSend' = Append(toSend,
               IF rblocknr = 0 /\ rretries' < MaxCrcRetries THEN C ELSE NAK)
  /\ UNCHANGED <<sendVars, rblocknr, last_block_done, out, envVars>>

\* The receiver receives a message of a kind: all of it, or its beginning.
ReceiverGets(kind) ==
  /\ receiver = "wait" /\ toRecv # <<>>
  /\ Head(toRecv).kind = kind
  /\ UNCHANGED sendVars

Whole == toRecv' = Tail(toRecv)
Part == toRecv' = <<Stray>> \o Tail(toRecv)

\* The message is no good: a byte is wrong, or it is not the last one that was
\* expected and the rest does not come.
Fails ==
  /\ Whole
  /\ \/ receiver' = "purge"
     \/ receiver' = "error" /\ Tail(toRecv) = <<>> /\ Silence

\* The driver has noted the damage as an error, and the rest is not read.
Breaks(block) ==
  /\ block.state \in {"badsum", "badheader"}
  /\ Part
  /\ receiver' = "error"

\* Mutant of IsCurrent: the repeated block is compared with its predecessor.
IsCurrentLast(block) == block.nr = last_block_done % Wrap

\* The number of a block is that of the last one, or of the next one.
IsCurrent(block) == block.nr = rblocknr % Wrap
IsNext(block) == block.nr = (rblocknr + 1) % Wrap

\* Mutant of Fresh: whatever is received is written.
FreshAlways(nr) == TRUE

\* The block has not been written yet.
Fresh(nr) == last_block_done < nr

\* A block with a bad header, or with a number that is not expected.
RecvLost ==
  /\ ReceiverGets("block")
  /\ LET block == Head(toRecv) IN
     block.state = "badheader" \/ ~(IsCurrent(block) \/ IsNext(block))
  /\ Fails \/ Breaks(Head(toRecv))
  /\ UNCHANGED <<rblocknr, last_block_done, rretries, rusecrc, out, toSend, envVars>>

\* A block that is expected.  Its header counts before it is known to be good; a
\* block that was written before is neither written nor acknowledged again.
RecvBlock ==
  /\ ReceiverGets("block")
  /\ LET block == Head(toRecv)
         nr == IF IsCurrent(block) THEN rblocknr ELSE rblocknr + 1
     IN
     /\ block.state # "badheader" /\ (IsCurrent(block) \/ IsNext(block))
     /\ rblocknr' = nr
     /\ \/ /\ block.state # "good" \/ block.crc # rusecrc
           /\ Fails \/ Breaks(block)
           /\ UNCHANGED <<last_block_done, rretries, out, toSend, spared>>
        \/ /\ block.state = "good" /\ block.crc = rusecrc
           /\ ~Fresh(nr)
           /\ Whole
           /\ UNCHANGED <<receiver, last_block_done, rretries, out, toSend, spared>>
        \/ /\ block.state = "good" /\ block.crc = rusecrc
           /\ Fresh(nr)
           /\ Whole
           /\ \/ /\ out' = Append(out, block.data)
                 /\ toSend' = Append(toSend, ACK)
                 /\ rretries' = 0
                 /\ last_block_done' = nr
                 /\ UNCHANGED <<receiver, spared>>
              \/ \* kfile_write() fails: give up
                 /\ rretries' = MaxRetries
                 /\ receiver' = "purge"
                 /\ spared' = FALSE
                 /\ UNCHANGED <<last_block_done, out, toSend>>
  /\ UNCHANGED <<rusecrc, faults, patient, misread>>

\* XM_EOT: acknowledge it and return true.
Finish ==
  /\ toSend' = Append(toSend, ACK)
  /\ receiver' = "done"
  /\ UNCHANGED <<rblocknr, last_block_done, rretries, rusecrc, out, faults, spared, patient>>

RecvEot == ReceiverGets("eot") /\ Whole /\ Finish /\ UNCHANGED misread

\* A byte that is no code, or the beginning of a header.
RecvGarbage ==
  /\ ReceiverGets("garbage")
  /\ Fails
  /\ UNCHANGED <<rblocknr, last_block_done, rretries, rusecrc, out, toSend, envVars>>

\* A byte of the rest of a block: garbage, or a header that is none, or a 4,
\* which is EOT.
RecvStray ==
  /\ ReceiverGets("stray")
  /\ \/ /\ Fails
        /\ UNCHANGED <<rblocknr, last_block_done, rretries, rusecrc, out, toSend, envVars>>
     \/ (Whole \/ Part) /\ Finish /\ misread' = TRUE

\* kfile_getc() returns EOF.
RecvTimeout ==
  /\ receiver = "wait" /\ toRecv = <<>>
  /\ Silence
  /\ receiver' = "error"
  /\ UNCHANGED <<sendVars, rblocknr, last_block_done, rretries, rusecrc, out, toRecv, toSend, envVars>>

-----------------------------------------------------------------------------
\* The line loses a message, or some of its bytes or bits.  The second byte of
\* block 4, which comes first when the first is lost, is the code of EOT.
Garbled(msg) ==
  IF msg.kind = "block"
  THEN {[msg EXCEPT !.state = s] : s \in {"badsum", "badheader"}} \cup {Garbage, Stray}
  ELSE {Garbage}

Hit(msg, line, rest) ==
  \/ line' = rest
  \/ \E g \in Garbled(msg) : line' = <<g>> \o rest

\* The answers come in time, at both ends.
InTime == patient = {"sender", "receiver"}

\* The line fails, within the bound.
Fault ==
  /\ faults < IF InTime THEN MaxFaults ELSE LateFaults
  /\ faults' = faults + 1

LineFails ==
  /\ Fault
  /\ \/ /\ toRecv # <<>> /\ Hit(Head(toRecv), toRecv, Tail(toRecv))
        /\ UNCHANGED <<toSend, spared>>
     \/ /\ toSend # <<>> /\ Hit(Head(toSend), toSend, Tail(toSend))
        /\ spared' = (spared /\ Head(toSend) # ACK)
        /\ UNCHANGED toRecv
  /\ UNCHANGED <<sendVars, recvVars, patient, misread>>

\* The driver notes an error, and kfile_getc() returns EOF at one end.
LineError ==
  /\ Fault
  /\ \/ /\ receiver \in {"wait", "purge"}
        /\ receiver' = "error"
        /\ UNCHANGED <<sendVars, rblocknr, last_block_done, rretries, rusecrc, out,
                       toRecv, toSend>>
     \/ sender = "wait" /\ SendEof
  /\ UNCHANGED <<spared, patient, misread>>

XmInit ==
  /\ sender = "wait" /\ blocknr = 1 /\ retries = 0 /\ usecrc = FALSE
  /\ receiver = "purge" /\ rblocknr = 0 /\ last_block_done = 0
  /\ rretries = 0 /\ rusecrc = TRUE
  /\ out = <<>>
  /\ toRecv = <<>> /\ toSend = <<>>
  /\ faults = 0 /\ spared = TRUE /\ misread = FALSE
  /\ patient \in Patience

Sender == SendOnNak \/ SendOnC \/ SendOnAck \/ SendOnCan \/ SendSkip \/ SendTimeout

Receiver == Purge \/ RecvLost \/ RecvBlock \/ RecvEot \/ RecvGarbage \/ RecvStray
            \/ RecvTimeout

XmNext == Sender \/ Receiver \/ LineFails \/ LineError

XmSpec == XmInit /\ [][XmNext]_xmVars

\* Both programs go on, and their timeouts expire.
XmFairSpec == XmSpec /\ WF_xmVars(Sender) /\ WF_xmVars(Receiver)

-----------------------------------------------------------------------------
XmTypeOK ==
  /\ sender \in {"wait", "done", "failed"}
  /\ receiver \in {"purge", "error", "wait", "done", "failed"}
  /\ blocknr \in 1..(FileLen + 1) /\ retries \in 0..(MaxRetries + 1)
  /\ rblocknr \in 0..FileLen /\ last_block_done \in 0..FileLen
  /\ rretries \in 0..(MaxRetries + 1)
  /\ usecrc \in BOOLEAN /\ rusecrc \in BOOLEAN /\ misread \in BOOLEAN
  /\ out \in Seq(1..FileLen)

\* Whatever is lost, garbled or late: the received file is the beginning of
\* the sent one, without a gap and with no block twice ("Avoid flushing the
\* same block twice", xmodem.c:263-267), though block numbers are sent modulo
\* 256 and count before their block is known to be good.  And the sender is at
\* most one block ahead of what was written, and never behind: an ACK is for
\* the block that was sent last, if no byte was mistaken for EOT.
OutIsPrefix ==
  /\ out = [k \in 1..Len(out) |-> k]
  /\ ~misread => Len(out) \in {blocknr - 1, blocknr}

\* xmodem_send() returns true only when xmodem_recv() has and the whole file was
\* written, come what may.  xmodem_recv() returns true only with the whole file,
\* but for one case: it takes a byte of a damaged block for EOT.
SuccessIsTrue ==
  /\ sender = "done" => receiver = "done" /\ Len(out) = FileLen
  /\ receiver = "done" /\ ~misread => Len(out) = FileLen

\* Both ends return, however bad the line is.
BothReturn == <>(sender # "wait" /\ receiver \in {"done", "failed"})

\* If the answers come in time, the line may fail a few times and the transfer
\* still succeeds at both ends, but for lost ACKs and the mistaken EOT.
Recovers == InTime => <>(~spared \/ misread \/ (sender = "done" /\ receiver = "done"))

\* xmodem.c:263-267: "This could happen when the sender does not receive our
\* acknowledge and resends the same block."  The transfer goes on.
\* xmodem_recv() gives up only when the file cannot be written.
SurvivesLostAck == receiver = "failed" => rretries > MaxRetries
=============================================================================
