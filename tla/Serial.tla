------------------------------- MODULE Serial -------------------------------
(***************************************************************************)
(* A serial port: drv/ser.c, and below it the UART drivers of the AVR      *)
(* (cpu/avr/drv/ser_mega.c) and of the STM32 (ser_stm32.c).  One process   *)
(* uses the port; the interrupt handlers, which it never interrupts, share *)
(* the two buffers, the status and the flag "sending" with it.             *)
(*                                                                         *)
(* The receive buffer is the circular buffer of Fifo.  The process is the  *)
(* only one that moves the tail of the transmit buffer, and the handlers   *)
(* take from it in one step: it is the queue that Fifo implements.  The    *)
(* driver of the STM32 pops in the process too (txStart), and there the    *)
(* two consumers are told apart.                                           *)
(***************************************************************************)
EXTENDS Fifo

CONSTANTS
  Drivers,  \* the drivers: "mega", "mega485" (SER_UART0_BUS_TXOFF is defined:
            \* an RS-485 transceiver is turned after the last bit), "stm32"
  TxChars,  \* the characters the process sends
  TxSize    \* how many characters the transmit buffer holds

ASSUME DriversAssumption == Drivers \subseteq {"mega", "mega485", "stm32"}
ASSUME TxAssumption == TxChars \subseteq Chars /\ TxSize \in Nat \ {0}

VARIABLES
  driver,   \* the driver in use
  pc,       \* where the process is
  char,     \* the character it is sending
  txfifo,   \* the transmit buffer
  sending,  \* AvrSerial.sending, CM3Serial.sending
  status,   \* Serial.status
  missed,   \* a character was thrown away since the errors were last cleared
  rxie,     \* interrupt enabled: a character was received,
  txie,     \*   the data register is empty,
  tcie,     \*   the last bit has left (the transceiver's)
  dr,       \* the transmit data register, or NoChar
  shift,    \* the shift register, or NoChar
  txc,      \* TXC of the transceiver's UART: the last bit has left.  The flag
            \* stays until its interrupt is served
  late      \* history: with a transceiver, somebody was late by the time of a
            \* character.  The handler of the empty register: the UART had run
            \* dry, or what it was to send had been purged.  Or the process:
            \* its character had left before it came to start the transmission

txVars == <<txfifo, sending, dr, shift, txc, late>>
uartVars == <<dr, shift, txc, late>>
irqVars == <<rxie, txie, tcie>>
serVars == <<fifoVars, driver, pc, char, txVars, status, missed, irqVars>>

RxErrors == {"overrun", "rxtimeout", "frame"}  \* SERRF_RX
TxErrors == {"txtimeout"}                      \* SERRF_TX

At(label) == pc = label
Goto(label) == pc' = label

TxFull == Len(txfifo) = TxSize

-----------------------------------------------------------------------------
\* ser_putchar(c) begins.  With a timeout of 0 it may return EOF at once.
PutChar(c) ==
  /\ At("user")
  /\ \/ TxFull /\ UNCHANGED <<pc, char>>
     \/ Goto(IF TxFull THEN "put_wait" ELSE "put_push") /\ char' = c
  /\ UNCHANGED <<fifoVars, driver, txVars, status, missed, irqVars>>

\* Mutant of PutWait: the wait ends though the buffer is full.
PutWaitBlind ==
  /\ At("put_wait")
  /\ Goto("put_push")
  /\ UNCHANGED <<fifoVars, driver, char, txVars, status, missed, irqVars>>

\* Wait while the buffer is full.
PutWait ==
  /\ At("put_wait")
  /\ ~TxFull
  /\ Goto("put_push")
  /\ UNCHANGED <<fifoVars, driver, char, txVars, status, missed, irqVars>>

PutTimeout ==
  /\ At("put_wait")
  /\ status' = status \cup {"txtimeout"}
  /\ Goto("user") /\ char' = NoChar
  /\ UNCHANGED <<fifoVars, driver, txVars, missed, irqVars>>

PutPush ==
  /\ At("put_push")
  /\ txfifo' = Append(txfifo, char)
  /\ Goto("tx_start") /\ char' = NoChar
  /\ UNCHANGED <<fifoVars, driver, sending, uartVars, status, missed, irqVars>>

\* uart0_enabletxirq(), and the beginning of the STM32's txStart().
TxStart ==
  /\ At("tx_start")
  /\ IF sending THEN Goto("user") /\ UNCHANGED sending
     ELSE IF driver = "stm32" THEN Goto("tx_pop") /\ UNCHANGED sending
     ELSE sending' = TRUE /\ Goto("tx_begin")
  /\ late' = (late \/ (driver = "mega485" /\ ~sending /\ txfifo = <<>>))
  /\ UNCHANGED <<fifoVars, driver, char, txfifo, dr, shift, txc, status, missed, irqVars>>

\* SER_UART0_BUS_TXBEGIN overwrites the control register; CR1 |= CR1_TXEIE.
TxBegin ==
  /\ At("tx_begin")
  /\ txie' = TRUE
  /\ tcie' = FALSE
  /\ Goto("user")
  /\ UNCHANGED <<fifoVars, driver, char, txVars, status, missed, rxie>>

\* STM32: fifo_pop(txfifo) reads head and the character there.  A received
\* character may have made the interrupt handler take it already (StmRx), and
\* to pop from an empty buffer is undefined (fifobuf.h:183): the process is not
\* modelled any further.
TxPop ==
  /\ At("tx_pop")
  /\ IF txfifo = <<>>
     THEN Goto("undefined") /\ UNCHANGED char
     ELSE Goto("tx_move") /\ char' = Head(txfifo)
  /\ UNCHANGED <<fifoVars, driver, txVars, status, missed, irqVars>>

\* It moves head.  The buffer held that one character: when it is gone, the
\* handler has moved head in the meantime.  Then head is stored as the handler
\* left it, and the character is sent twice; or, if it is loaded again to be
\* incremented, it ends past tail.
TxMove ==
  /\ At("tx_move")
  /\ IF txfifo = <<>>
     THEN (Goto("tx_ready") \/ Goto("undefined")) /\ UNCHANGED txfifo
     ELSE Goto("tx_ready") /\ txfifo' = Tail(txfifo)
  /\ UNCHANGED <<fifoVars, driver, char, sending, uartVars, status, missed, irqVars>>

\* stm32_uartPutChar(): wait for the data register, then store.
TxReady ==
  /\ At("tx_ready")
  /\ dr = NoChar
  /\ Goto("tx_store")
  /\ UNCHANGED <<fifoVars, driver, char, txVars, status, missed, irqVars>>

\* Characters that are still in the buffer are left to the interrupt of the
\* empty data register.  There are none: each ser_putchar() pushes one and this
\* function pops one, so the STM32 never enables that interrupt, and the model
\* has no action for it.
TxStore ==
  /\ At("tx_store")
  /\ dr' = char
  /\ char' = NoChar
  /\ IF txfifo = <<>> THEN Goto("user") /\ UNCHANGED sending
                      ELSE Goto("tx_begin") /\ sending' = TRUE
  /\ UNCHANGED <<fifoVars, driver, txfifo, shift, txc, late, status, missed, irqVars>>

-----------------------------------------------------------------------------
\* ser_getchar() begins.  With a timeout of 0 it may return EOF at once.
GetChar ==
  /\ At("user")
  /\ IF IsEmpty THEN Goto("get_wait") ELSE Goto("get_status")
  /\ UNCHANGED <<fifoVars, driver, char, txVars, status, missed, irqVars>>

\* Wait while the buffer is empty and there is no error.
GetWait ==
  /\ At("get_wait")
  /\ ~IsEmpty \/ status \cap RxErrors # {}
  /\ Goto("get_status")
  /\ UNCHANGED <<fifoVars, driver, char, txVars, status, missed, irqVars>>

GetTimeout ==
  /\ At("get_wait")
  /\ status' = status \cup {"rxtimeout"}
  /\ Goto("user")
  /\ UNCHANGED <<fifoVars, driver, char, txVars, missed, irqVars>>

\* Any receive error makes the call fail.
GetStatus ==
  /\ At("get_status")
  /\ Goto(IF status \cap RxErrors # {} THEN "user" ELSE "get_pop")
  /\ UNCHANGED <<fifoVars, driver, char, txVars, status, missed, irqVars>>

\* fifo_pop_locked().
GetPop ==
  /\ At("get_pop")
  /\ \/ PopMove /\ UNCHANGED pc
     \/ PopRead /\ Goto("user")
  /\ UNCHANGED <<driver, char, txVars, status, missed, irqVars>>

-----------------------------------------------------------------------------
\* ser_clearerr().
ClearErr ==
  /\ At("user")
  /\ status' = {} /\ missed' = FALSE
  /\ UNCHANGED <<fifoVars, driver, pc, char, txVars, irqVars>>

\* ser_purge() and ser_purgeRx(): which buffers go is decided by the caller.
Purge ==
  /\ At("user")
  /\ FlushLoad
  /\ \E next \in {"purge_rx", "purge_both"} : Goto(next)
  /\ UNCHANGED <<driver, char, txVars, status, missed, irqVars>>

PurgeRx ==
  /\ At("purge_rx") \/ At("purge_both") \/ At("close_rx")
  /\ FlushStore
  /\ Goto(CASE At("purge_rx") -> "user"
            [] At("purge_both") -> "purge_tx"
            [] At("close_rx") -> "close_tx")
  /\ UNCHANGED <<driver, char, txVars, status, missed, irqVars>>

PurgeTx ==
  /\ At("purge_tx") \/ At("close_tx")
  /\ txfifo' = <<>>
  /\ late' = (late \/ (driver = "mega485" /\ txie /\ dr = NoChar /\ shift = NoChar))
  /\ Goto(IF At("close_tx") THEN "open" ELSE "user")
  /\ UNCHANGED <<fifoVars, driver, char, sending, dr, shift, txc, status, missed, irqVars>>

\* ser_flush(), also at the beginning of ser_close().
Flush ==
  /\ At("user")
  /\ \E next \in {"flush", "close_flush"} : Goto(next)
  /\ UNCHANGED <<fifoVars, driver, char, txVars, status, missed, irqVars>>

\* Mutant of FlushWait: only the buffer is looked at.
FlushWaitBuffer ==
  /\ At("flush") \/ At("close_flush")
  /\ txfifo = <<>>
  /\ Goto(IF At("flush") THEN "user" ELSE "close")
  /\ UNCHANGED <<fifoVars, driver, char, txVars, status, missed, irqVars>>

\* The buffer is empty and the flag is off.  (Nobody fills the buffer in the
\* meantime, so the two tests of the loop are one.)
FlushWait ==
  /\ At("flush") \/ At("close_flush")
  /\ txfifo = <<>> /\ ~sending
  /\ Goto(IF At("flush") THEN "user" ELSE "close")
  /\ UNCHANGED <<fifoVars, driver, char, txVars, status, missed, irqVars>>

\* The cleanup() of the drivers; then ser_purge() begins.
Close ==
  /\ At("close")
  /\ FlushLoad
  /\ rxie' = FALSE /\ txie' = FALSE /\ tcie' = FALSE
  /\ sending' = IF driver = "stm32" THEN FALSE ELSE sending
  /\ Goto("close_rx")
  /\ UNCHANGED <<driver, char, txfifo, uartVars, status, missed>>

\* ser_reopen() goes on with ser_open(): the buffers are initialised, and
\* init() lets characters in.
Open ==
  /\ At("open")
  /\ head' = 0 /\ tail' = 0
  /\ txfifo' = <<>>
  /\ rxie' = TRUE
  /\ Goto("open_clear")
  /\ UNCHANGED <<buf, writing, reading, mark, driver, char, sending, uartVars,
                 status, missed, txie, tcie>>

\* ser_setstatus(0).  It forgets the errors since init() too.
OpenClear ==
  /\ At("open_clear")
  /\ status' = {} /\ missed' = FALSE
  /\ Goto("user")
  /\ UNCHANGED <<fifoVars, driver, char, txVars, irqVars>>

-----------------------------------------------------------------------------
\* A received character goes to the buffer, or is thrown away with an error;
\* base is what the handler leaves in the status word.
Receive(c, base) ==
  IF IsFull
  THEN /\ status' = base \cup {"overrun"}
       /\ missed' = TRUE
       /\ UNCHANGED fifoVars
  ELSE /\ Push(c)
       /\ status' = base
       /\ UNCHANGED missed

\* Mutant of MegaRx: the status is overwritten.
MegaRxOverwrite(c, errors) ==
  /\ driver # "stm32" /\ rxie
  /\ Receive(c, errors)
  /\ UNCHANGED <<driver, pc, char, txVars, irqVars>>

\* USART0_RX_vect; errors are those of the line.
MegaRx(c, errors) ==
  /\ driver # "stm32" /\ rxie
  /\ Receive(c, status \cup errors)
  /\ UNCHANGED <<driver, pc, char, txVars, irqVars>>

\* USART0_UDRE_vect: the data register is empty.
MegaTx ==
  /\ driver # "stm32" /\ txie /\ dr = NoChar
  /\ IF txfifo = <<>>
     THEN /\ txie' = FALSE
          /\ tcie' = (driver = "mega485")
          /\ sending' = IF driver = "mega" THEN FALSE ELSE sending
          /\ UNCHANGED <<txfifo, dr>>
     ELSE /\ dr' = Head(txfifo) /\ txfifo' = Tail(txfifo)
          /\ UNCHANGED <<txie, tcie, sending>>
  /\ UNCHANGED <<fifoVars, driver, pc, char, shift, txc, late, status, missed, rxie>>

\* Mutant of MegaTxDone: the buffer is not looked at again.
MegaTxDoneBlind ==
  /\ tcie /\ txc
  /\ tcie' = FALSE /\ txc' = FALSE
  /\ sending' = FALSE
  /\ UNCHANGED <<fifoVars, driver, pc, char, txfifo, dr, shift, late, status, missed, rxie, txie>>

\* USART0_TX_vect, requested by TXC.  Serving it clears the flag; the handler
\* looks at the buffer, and not at the UART.
MegaTxDone ==
  /\ tcie /\ txc
  /\ tcie' = FALSE /\ txc' = FALSE
  /\ IF txfifo = <<>> THEN sending' = FALSE /\ UNCHANGED txie
                      ELSE txie' = TRUE /\ UNCHANGED sending
  /\ UNCHANGED <<fifoVars, driver, pc, char, txfifo, dr, shift, late, status, missed, rxie>>

\* uart_irq_tx() of the STM32, when the data register is empty: the flag of the
\* status register is set whether or not its interrupt is enabled.
StmTransmit ==
  IF txfifo = <<>>
  THEN /\ txie' = FALSE /\ sending' = FALSE
       /\ UNCHANGED <<txfifo, dr>>
  ELSE /\ dr' = Head(txfifo) /\ txfifo' = Tail(txfifo)
       /\ UNCHANGED <<txie, sending>>

\* uart_common_irq_handler(), for a received character: the status word is
\* overwritten with the errors of the line.
StmRx(c, errors) ==
  /\ driver = "stm32" /\ rxie
  /\ Receive(c, errors)
  /\ IF dr = NoChar THEN StmTransmit ELSE UNCHANGED <<txfifo, dr, sending, txie>>
  /\ UNCHANGED <<driver, pc, char, shift, txc, late, rxie, tcie>>

\* The hardware moves the character to the shift register, and to the line.
Shift ==
  /\ dr # NoChar /\ shift = NoChar
  /\ shift' = dr /\ dr' = NoChar
  /\ UNCHANGED <<fifoVars, driver, pc, char, txfifo, sending, txc, late, status, missed, irqVars>>

\* After the last bit with nothing to follow, TXC is set: too early when more
\* was to follow, and nothing but TX_vect clears it.
Sent ==
  /\ shift # NoChar
  /\ shift' = NoChar
  /\ IF driver = "mega485" /\ dr = NoChar
     THEN txc' = TRUE /\ late' = (late \/ ~tcie)
     ELSE UNCHANGED <<txc, late>>
  /\ UNCHANGED <<fifoVars, driver, pc, char, txfifo, sending, dr, status, missed, irqVars>>

-----------------------------------------------------------------------------
SerInit ==
  /\ FifoInit
  /\ driver \in Drivers
  /\ pc = "user" /\ char = NoChar
  /\ txfifo = <<>> /\ sending = FALSE
  /\ status = {} /\ missed = FALSE
  /\ rxie = TRUE /\ txie = FALSE /\ tcie = FALSE
  /\ dr = NoChar /\ shift = NoChar /\ txc = FALSE /\ late = FALSE

\* What the process does within a call, but for timeouts.
Continue ==
  \/ PutWait \/ PutPush \/ TxStart \/ TxBegin \/ TxPop \/ TxMove \/ TxReady \/ TxStore
  \/ GetWait \/ GetStatus \/ GetPop
  \/ PurgeRx \/ PurgeTx \/ FlushWait \/ Close \/ Open \/ OpenClear

Decide ==
  \/ \E c \in TxChars : PutChar(c)
  \/ GetChar \/ ClearErr \/ Purge \/ Flush

Hardware ==
  \/ \E c \in Chars, errors \in SUBSET {"frame"} : MegaRx(c, errors) \/ StmRx(c, errors)
  \/ Shift \/ Sent

SerNext ==
  \/ Continue \/ Decide \/ PutTimeout \/ GetTimeout
  \/ MegaTx \/ MegaTxDone \/ Hardware

SerSpec == SerInit /\ [][SerNext]_serVars

\* The process gets time to execute, the line takes what it is given, and an
\* interrupt that stays requested and enabled is served.
SerFairSpec ==
  /\ SerSpec
  /\ WF_serVars(Continue)
  /\ WF_serVars(Shift) /\ WF_serVars(Sent)
  /\ WF_serVars(MegaTx) /\ WF_serVars(MegaTxDone)

-----------------------------------------------------------------------------
SerTypeOK ==
  /\ FifoTypeOK
  /\ driver \in Drivers
  /\ char \in Chars \cup {NoChar}
  /\ txfifo \in Seq(Chars) /\ Len(txfifo) <= TxSize
  /\ sending \in BOOLEAN /\ missed \in BOOLEAN
  /\ txc \in BOOLEAN /\ late \in BOOLEAN
  /\ status \subseteq RxErrors \cup TxErrors
  /\ <<rxie, txie, tcie>> \in BOOLEAN \X BOOLEAN \X BOOLEAN
  /\ dr \in Chars \cup {NoChar} /\ shift \in Chars \cup {NoChar}

\* ser_mega.c: a character thrown away because the buffer is full leaves an
\* error that stays until the application clears it: received data is never
\* incomplete without a sign.
OverrunReported == driver # "stm32" /\ missed => "overrun" \in status

\* ser_mega.c:989-1003: with a transceiver, nothing is left in the transmit
\* buffer nor in the UART when ser_flush() returns: it is turned to receive only
\* then.  This takes a handler that is not late, for nothing clears a TXC that
\* was set too early.  Without a transceiver nobody waits for the UART: so says
\* ser.c:315-317, and ser.c:327-329 says otherwise.
FlushMeansSent ==
  [][/\ pc \in {"flush", "close_flush"} /\ pc' # pc
     => /\ txfifo = <<>>
        /\ driver = "mega485" /\ ~late => dr = NoChar /\ shift = NoChar]_serVars

\* ser_flush() returns: the interrupt that empties the buffer is running when
\* there is something in it ("racy code here!", ser_mega.c), and is started
\* again if it is just about to stop.  After a handler or a process that was late
\* the transceiver may wait for the end of a character that was never sent.
FlushReturns == pc \in {"flush", "close_flush"} ~> pc \in {"user", "close"} \/ late
=============================================================================
