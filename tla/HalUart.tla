------------------------------ MODULE HalUart ------------------------------
(***************************************************************************)
(* The UART drivers, hal/drivers/*/halUart.c: a ring buffer for each       *)
(* direction, shared by the main loop and the interrupts.                  *)
(*                                                                         *)
(* The drivers differ only in their interrupts: the AVR and XMEGA ones     *)
(* have a vector for the empty data register and one for a byte received,  *)
(* the SAMD ones a single handler that serves both flags. On the XMEGA the *)
(* first one may interrupt the second, which shares nothing with it.       *)
(* Interrupts come between any two steps of the main loop that are not in  *)
(* one ATOMIC_SECTION. Bytes are numbered as they are written or arrive.   *)
(***************************************************************************)
EXTENDS Integers, Sequences

CONSTANTS
  Size,       \* HAL_UART_TX_FIFO_SIZE and HAL_UART_RX_FIFO_SIZE
  Families,   \* the families of drivers: subset of {"AVR", "XMEGA", "SAMD"}
  MaxBytes    \* bound: bytes written, and bytes that arrive

ASSUME UartAssumption ==
  /\ {Size, MaxBytes} \subseteq Nat \ {0}
  /\ Families \subseteq {"AVR", "XMEGA", "SAMD"}

VARIABLES
  family,     \* the driver this program is linked with
  txFifo,     \* FifoBuffer_t of the bytes to be sent, the main loop's alone
  rxFifo,     \* FifoBuffer_t of the bytes received
  udrEmpty,   \* the data register may be written
  newData,    \* a byte has come since the last announcement
  udr,        \* the data register of the transmitter, NoByte when empty
  dreOn,      \* the interrupt of the empty data register is enabled
  pc,         \* "idle": outside HAL_UartTaskHandler; "put": with a byte taken from
              \* txFifo; "check": before its second part; "received": in the callback
  byte,       \* the local variable byte
  avail,      \* bytes announced to the application and not read
  wire, got,  \* the last byte on the line, the last byte the application read
  written, arrived \* bytes written and arrived so far

main  == <<pc, byte, avail>>
regs  == <<udrEmpty, udr, dreOn>>
ends  == <<wire, got>>
count == <<written, arrived>>
vars  == <<family, txFifo, rxFifo, newData, main, regs, ends, count>>

NoByte == 0
Bytes == 1..MaxBytes
Cells == 0..(Size - 1)

Fifos == [data : [Cells -> Bytes \cup {NoByte}], head : Cells, tail : Cells, bytes : 0..Size]
EmptyFifo == [data |-> [c \in Cells |-> NoByte], head |-> 0, tail |-> 0, bytes |-> 0]

Full(f) == f.bytes = Size
Step(c) == IF c + 1 = Size THEN 0 ELSE c + 1

Push(f, b) == [f EXCEPT !.data[f.tail] = b, !.tail = Step(f.tail), !.bytes = @ + 1]
First(f) == f.data[f.head]
Pop(f) == [f EXCEPT !.head = Step(f.head), !.bytes = @ - 1]

\* HAL_UartInit
Init ==
  /\ family \in Families
  /\ txFifo = EmptyFifo /\ rxFifo = EmptyFifo
  /\ udrEmpty = TRUE /\ newData = FALSE
  /\ udr = NoByte /\ dreOn = FALSE
  /\ pc = "idle" /\ byte = NoByte /\ avail = 0
  /\ wire = NoByte /\ got = NoByte
  /\ written = 0 /\ arrived = 0

-----------------------------------------------------------------------------
(***************************************************************************)
(* The application, between the turns of the main loop or in the callback. *)
(* A byte written to a full buffer is dropped. It reads no more bytes than *)
(* were announced: HAL_UartReadByte does not look whether there is one.    *)
(***************************************************************************)
App == pc \in {"idle", "received"}

HAL_UartWriteByte ==
  /\ App
  /\ written < MaxBytes /\ written' = written + 1
  /\ txFifo' = IF Full(txFifo) THEN txFifo ELSE Push(txFifo, written + 1)
  /\ UNCHANGED <<family, rxFifo, newData, main, regs, ends, arrived>>

HAL_UartReadByte ==
  /\ App
  /\ avail > 0 /\ avail' = avail - 1
  /\ got' = First(rxFifo)
  /\ rxFifo' = Pop(rxFifo)
  /\ UNCHANGED <<family, txFifo, newData, pc, byte, regs, wire, count>>

-----------------------------------------------------------------------------
(***************************************************************************)
(* HAL_UartTaskHandler                                                     *)
(***************************************************************************)
TxTake ==
  /\ pc = "idle"
  /\ IF txFifo.bytes > 0 /\ udrEmpty
       THEN byte' = First(txFifo) /\ txFifo' = Pop(txFifo) /\ pc' = "put"
       ELSE UNCHANGED <<byte, txFifo>> /\ pc' = "check"
  /\ UNCHANGED <<family, rxFifo, newData, avail, regs, ends, count>>

\* Faulty variant, for mutation: the register is not marked as full.
TxPut_StillEmpty ==
  /\ pc = "put" /\ pc' = "check"
  /\ udr' = byte
  /\ byte' = NoByte
  /\ dreOn' = TRUE
  /\ UNCHANGED <<udrEmpty, family, txFifo, rxFifo, newData, avail, ends, count>>

\* Interrupts are off from the write to the register to the end of this section.
TxPut ==
  /\ pc = "put" /\ pc' = "check"
  /\ udr' = byte
  /\ byte' = NoByte
  /\ dreOn' = TRUE
  /\ udrEmpty' = FALSE
  /\ UNCHANGED <<family, txFifo, rxFifo, newData, avail, ends, count>>

\* newData and the number of bytes are read, and newData reset, with interrupts off;
\* the callback is called after.
TakeNews ==
  /\ pc = "check"
  /\ newData' = FALSE
  /\ IF newData THEN avail' = rxFifo.bytes /\ pc' = "received"
                ELSE avail' = avail /\ pc' = "idle"
  /\ UNCHANGED <<family, txFifo, rxFifo, byte, regs, ends, count>>

\* Faulty variant, for mutation: newData is reset after the callback as well.
ReceivedReturns_Resets ==
  /\ pc = "received" /\ pc' = "idle"
  /\ newData' = FALSE
  /\ UNCHANGED <<family, txFifo, rxFifo, byte, avail, regs, ends, count>>

\* HAL_UartBytesReceived returns, whatever it has read and written.
ReceivedReturns ==
  /\ pc = "received" /\ pc' = "idle"
  /\ UNCHANGED <<family, txFifo, rxFifo, newData, byte, avail, regs, ends, count>>

HAL_UartTaskHandler == TxTake \/ TxPut \/ TakeNews \/ ReceivedReturns

-----------------------------------------------------------------------------
(***************************************************************************)
(* The interrupts and the line.                                            *)
(***************************************************************************)

\* The transmitter takes the byte from its register.
Transmits ==
  /\ udr # NoByte
  /\ wire' = udr /\ udr' = NoByte
  /\ UNCHANGED <<family, txFifo, rxFifo, newData, main, udrEmpty, dreOn, got, count>>

\* Faulty variant, for mutation: a full buffer is written all the same.
Accept_Always(b) ==
  /\ rxFifo' = [Push(rxFifo, b) EXCEPT !.bytes = IF @ > Size THEN Size ELSE @]
  /\ newData' = TRUE

\* A byte received without error goes into the buffer, if it has room.
Accept(b) ==
  IF Full(rxFifo) THEN UNCHANGED <<rxFifo, newData>>
  ELSE rxFifo' = Push(rxFifo, b) /\ newData' = TRUE

DataRegisterEmpty == udrEmpty' = TRUE /\ dreOn' = FALSE

\* A byte has come; one with a framing, overrun or parity error is read and forgotten.
ByteReceived(ok) ==
  /\ arrived < MaxBytes /\ arrived' = arrived + 1
  /\ IF ok THEN Accept(arrived + 1) ELSE UNCHANGED <<rxFifo, newData>>
  /\ UNCHANGED <<family, txFifo, main, regs, ends, written>>

RegisterEmpty ==
  /\ dreOn /\ udr = NoByte
  /\ DataRegisterEmpty
  /\ UNCHANGED <<family, txFifo, rxFifo, newData, main, udr, ends, count>>

ISR_UDRE == family = "AVR" /\ RegisterEmpty
ISR_RX(ok) == family = "AVR" /\ ByteReceived(ok)

ISR_DRE == family = "XMEGA" /\ RegisterEmpty
ISR_RXC(ok) == family = "XMEGA" /\ ByteReceived(ok)

\* The single handler looks at both flags, whichever has caused it: the empty
\* register is noticed also when its interrupt is disabled.
HAL_IrqHandlerSercom(rxc, ok) ==
  LET dre == udr = NoByte
  IN /\ family = "SAMD"
     /\ (dreOn /\ dre) \/ rxc
     /\ IF dre THEN DataRegisterEmpty ELSE UNCHANGED <<udrEmpty, dreOn>>
     /\ IF rxc THEN arrived < MaxBytes /\ arrived' = arrived + 1 ELSE UNCHANGED arrived
     /\ IF rxc /\ ok THEN Accept(arrived + 1) ELSE UNCHANGED <<rxFifo, newData>>
     /\ UNCHANGED <<family, txFifo, main, udr, ends, written>>

TransmitterInterrupt == ISR_UDRE \/ ISR_DRE \/ HAL_IrqHandlerSercom(FALSE, FALSE)

ReceiverInterrupt ==
  \E ok \in BOOLEAN : ISR_RX(ok) \/ ISR_RXC(ok) \/ HAL_IrqHandlerSercom(TRUE, ok)

Next ==
  \/ HAL_UartWriteByte
  \/ HAL_UartReadByte
  \/ HAL_UartTaskHandler
  \/ Transmits
  \/ TransmitterInterrupt
  \/ ReceiverInterrupt

Spec == Init /\ [][Next]_vars

\* The main loop runs, and a callback returns; the transmitter sends what is in its
\* register, and its interrupt is served. Nothing is assumed of the bytes received.
Fairness ==
  /\ WF_vars(HAL_UartTaskHandler)
  /\ WF_vars(Transmits)
  /\ WF_vars(TransmitterInterrupt)

FairSpec == Spec /\ Fairness

-----------------------------------------------------------------------------
(***************************************************************************)
(* Properties.                                                             *)
(***************************************************************************)

\* Every variable has the type of the C variable it stands for.
TypeOK ==
  /\ family \in Families
  /\ txFifo \in Fifos /\ rxFifo \in Fifos
  /\ udrEmpty \in BOOLEAN /\ newData \in BOOLEAN /\ dreOn \in BOOLEAN
  /\ {udr, byte, wire, got} \subseteq Bytes \cup {NoByte}
  /\ pc \in {"idle", "put", "check", "received"}
  /\ avail \in 0..Size
  /\ written \in 0..MaxBytes /\ arrived \in 0..MaxBytes

\* The bytes of a ring buffer, oldest first.
Content(f) == [k \in 1..f.bytes |-> f.data[(f.head + (k - 1)) % Size]]
Held(b) == IF b = NoByte THEN <<>> ELSE <<b>>

Received == INSTANCE BoundedFifo
              WITH Capacity <- Size, queue <- Content(rxFifo), out <- got
Sent == INSTANCE BoundedFifo
          WITH Capacity <- Size + 2, out <- wire,
               queue <- Held(udr) \o Held(byte) \o Content(txFifo)

\* Receiving: every byte accepted by the interrupt is read by the application once,
\* in order, although the interrupt comes at any time; a reader that keeps to what
\* was announced never meets an empty buffer, and a full one loses only the new byte.
ReceiverIsFifo == Received!Spec

\* Sending: every byte accepted goes out on the line once, in order: none is
\* overwritten in the data register or lost between buffer, register and interrupt.
TransmitterIsFifo == Sent!Spec

\* Every byte received is announced, whatever the application leaves unread, and
\* every byte written leaves: no interrupt between two steps of the main loop is
\* lost, so the buffers never stand still with work to do.
EveryByteServed ==
  /\ rxFifo.bytes > avail ~> rxFifo.bytes = avail
  /\ txFifo.bytes > 0 ~> txFifo.bytes = 0
=============================================================================
