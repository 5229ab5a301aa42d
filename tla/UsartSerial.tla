----------------------------- MODULE UsartSerial ----------------------------
(***************************************************************************)
(* USARTSerial: a ring buffer each way between user code and the interrupt *)
(* of the USART.  write may be called with interrupts masked, or from an   *)
(* interrupt of higher priority.  begin, end and flush are left out.       *)
(***************************************************************************)
EXTENDS Integers, Sequences

CONSTANT SerialBufferSize

\* Bytes are numbered, enough to tell apart those on their way.
OutCircle == SerialBufferSize + 1
InCircle  == SerialBufferSize

VARIABLES
  writer,   \* user code: idle; wait, head, enable: in write; read
  level,    \* where write is called: thread, handler: of higher priority, masked
  tx, txHead, txTail,
  rx, rxHead, rxTail,
  txEnabled,  \* the TXE interrupt
  dr,         \* the transmit data register, empty or with a byte
  shifted,    \* the last byte to leave it
  rdr,        \* the receive data register
  taken,      \* the last byte read
  written, arrived  \* the next byte to write, and to arrive

sending   == <<tx, txHead, txTail, txEnabled, dr, written>>
receiving == <<rx, rxHead, rxTail, rdr, arrived>>
usart     == <<writer, level, sending, shifted, receiving, taken>>

After(i) == (i + 1) % SerialBufferSize

Init ==
  /\ writer = "idle" /\ level = "thread"
  /\ tx = [i \in 0 .. SerialBufferSize - 1 |-> 0] /\ txHead = 0 /\ txTail = 0
  /\ rx = tx /\ rxHead = 0 /\ rxTail = 0
  /\ txEnabled = TRUE /\ dr = <<>> /\ shifted = <<>> /\ rdr = <<>> /\ taken = <<>>
  /\ written = 0 /\ arrived = 0

-----------------------------------------------------------------------------
(* The interrupt *)

TxPending == txEnabled /\ dr = <<>>
Pending   == rdr # <<>> \/ TxPending

\* User code goes on when no interrupt is to be served first.
Runs == level # "thread" \/ ~Pending

\* Mutant: a full buffer is not noticed.
BugStoreChar(c) == rx' = [rx EXCEPT ![rxHead] = c] /\ rxHead' = After(rxHead)

\* store_char
StoreChar(c) ==
  IF After(rxHead) = rxTail THEN UNCHANGED <<rx, rxHead>>
  ELSE rx' = [rx EXCEPT ![rxHead] = c] /\ rxHead' = After(rxHead)

Interrupt ==
  /\ level = "thread" /\ Pending
  /\ IF rdr = <<>> THEN UNCHANGED <<rx, rxHead>> ELSE StoreChar(rdr[1])
  /\ rdr' = <<>>
  /\ IF ~TxPending THEN UNCHANGED <<txEnabled, dr, txTail>>
     ELSE IF txHead = txTail THEN txEnabled' = FALSE /\ UNCHANGED <<dr, txTail>>
     ELSE dr' = <<tx[txTail]>> /\ txTail' = After(txTail) /\ UNCHANGED txEnabled
  /\ UNCHANGED <<writer, level, tx, txHead, shifted, rxTail, taken, written, arrived>>

-----------------------------------------------------------------------------
(* User code *)

\* write: "Get him busy"
Write ==
  /\ writer = "idle" /\ Runs /\ writer' = "wait"
  /\ level' \in {"thread", "handler", "masked"}
  /\ txEnabled' = (txEnabled \/ (~TxPending /\ txHead # txTail))
  /\ UNCHANGED <<tx, txHead, txTail, dr, written, shifted, receiving, taken>>

MustWait == After(txHead) = txTail \/ (level = "masked" /\ txHead # txTail)

\* Nobody else empties the buffer.
SendByPolling ==
  /\ writer = "wait" /\ Runs /\ MustWait /\ TxPending
  /\ dr' = <<tx[txTail]>> /\ txTail' = After(txTail)
  /\ UNCHANGED <<writer, level, tx, txHead, txEnabled, written, shifted, receiving, taken>>

Fill ==
  /\ writer = "wait" /\ Runs /\ ~MustWait /\ writer' = "head"
  /\ tx' = [tx EXCEPT ![txHead] = written]
  /\ UNCHANGED <<level, txHead, txTail, txEnabled, dr, written, shifted, receiving, taken>>

SetHead ==
  /\ writer = "head" /\ Runs /\ writer' = "enable"
  /\ txHead' = After(txHead) /\ written' = (written + 1) % OutCircle
  /\ UNCHANGED <<level, tx, txTail, txEnabled, dr, shifted, receiving, taken>>

\* Mutant: the interrupt is enabled only if there was nothing to send before.
BugEnable ==
  /\ writer = "enable" /\ Runs /\ writer' = "idle" /\ level' = "thread"
  /\ txEnabled' = (txEnabled \/ txHead = txTail)
  /\ UNCHANGED <<tx, txHead, txTail, dr, written, shifted, receiving, taken>>

Enable ==
  /\ writer = "enable" /\ Runs /\ writer' = "idle" /\ level' = "thread" /\ txEnabled' = TRUE
  /\ UNCHANGED <<tx, txHead, txTail, dr, written, shifted, receiving, taken>>

\* read: "if the head isn't ahead of the tail, we don't have any characters"
Read ==
  /\ writer = "idle" /\ Runs /\ rxHead # rxTail /\ writer' = "read"
  /\ UNCHANGED <<level, sending, shifted, receiving, taken>>

ReadDone ==
  /\ writer = "read" /\ Runs /\ writer' = "idle"
  /\ taken' = <<rx[rxTail]>> /\ rxTail' = After(rxTail)
  /\ UNCHANGED <<level, sending, shifted, rx, rxHead, rdr, arrived>>

-----------------------------------------------------------------------------
(* The hardware *)

Shift ==
  /\ dr # <<>> /\ dr' = <<>> /\ shifted' = dr
  /\ UNCHANGED <<writer, level, tx, txHead, txTail, txEnabled, written, receiving, taken>>

Arrive ==
  /\ rdr = <<>> /\ rdr' = <<arrived>> /\ arrived' = (arrived + 1) % InCircle
  /\ UNCHANGED <<writer, level, sending, shifted, rx, rxHead, rxTail, taken>>

Next ==
  \/ Interrupt \/ Write \/ SendByPolling \/ Fill \/ SetHead \/ Enable
  \/ Read \/ ReadDone \/ Shift \/ Arrive

-----------------------------------------------------------------------------
(* Properties *)

\* Types; and a byte in the transmit buffer is sent without waiting for a further call:
\* outside write the interrupt is enabled.
TypeOK ==
  /\ writer \in {"idle", "wait", "head", "enable", "read"}
  /\ level \in {"thread", "handler", "masked"}
  /\ tx \in [0 .. SerialBufferSize - 1 -> 0 .. OutCircle - 1]
  /\ rx \in [0 .. SerialBufferSize - 1 -> 0 .. InCircle - 1]
  /\ {txHead, txTail, rxHead, rxTail} \subseteq 0 .. SerialBufferSize - 1
  /\ \A r \in {dr, shifted, rdr, taken} : r = <<>> \/ r[1] \in 0 .. OutCircle - 1
  /\ txEnabled \in BOOLEAN /\ written \in 0 .. OutCircle - 1 /\ arrived \in 0 .. InCircle - 1
  /\ writer = "idle" /\ txHead # txTail => txEnabled

Contents(buffer, head, tail) ==
  [k \in 1 .. (head - tail) % SerialBufferSize |-> buffer[(tail + k - 1) % SerialBufferSize]]

TxQueue == INSTANCE BoundedQueue
  WITH next <- written, q <- dr \o Contents(tx, txHead, txTail), out <- shifted,
       Cap <- SerialBufferSize, Circle <- OutCircle, Losses <- {},
       Ring <- SerialBufferSize

RxQueue == INSTANCE BoundedQueue
  WITH next <- arrived, q <- Contents(rx, rxHead, rxTail) \o rdr, out <- taken,
       Cap <- SerialBufferSize, Circle <- InCircle, Losses <- {"newest"},
       Ring <- SerialBufferSize

\* Whatever the interrupt comes between, what is written goes out and what arrives is
\* read, in order; only what arrives when the buffer is full is lost.
IsQueue == TxQueue!Spec /\ RxQueue!Spec
=============================================================================
