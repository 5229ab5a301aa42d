------------------------------ MODULE UsbSerial -----------------------------
(***************************************************************************)
(* The serial port over USB: the ring buffer from USB_USART_Send_Data to   *)
(* the two interrupts that send it in packets, and the packet buffer from  *)
(* the host to USB_USART_Receive_Data.  The device is configured.          *)
(***************************************************************************)
EXTENDS Integers, Sequences

CONSTANTS
  USART_RX_DATA_SIZE, VIRTUAL_COM_PORT_DATA_SIZE,
  PtrRange     \* 2^16, the range of USB_Rx_ptr

\* Bytes are numbered: the ring holds one round of the circle, its old contents the other.
Circle == 2 * USART_RX_DATA_SIZE
Octets == 0 .. Circle - 1

VARIABLES
  sender,   \* user code: idle; in, wrap: in USB_USART_Send_Data; last: in
            \* USB_USART_Receive_Data
  ring, ptrIn, ptrOut, rxLength,  \* USART_Rx_Buffer and its pointers
  txState, packet, \* USB_Tx_State; the packet in the endpoint's memory
  host,            \* what the host has read last
  rxState, rxBuf, rxPtr,  \* USB_Rx_State, USB_Rx_Buffer, USB_Rx_ptr
  ready,           \* endpoint 3 accepts a packet
  char,            \* what USB_USART_Receive_Data has returned last
  put, offered     \* the next byte of user code, and of the host

toHost   == <<ring, ptrIn, ptrOut, rxLength, txState, packet, host, put>>
fromHost == <<rxState, rxBuf, rxPtr, ready, char, offered>>
usb      == <<sender, toHost, fromHost>>

NextOctet(b) == (b + 1) % Circle

Init ==
  /\ sender = "idle"
  /\ ring = [i \in 0 .. USART_RX_DATA_SIZE - 1 |-> 0]
  /\ ptrIn = 0 /\ ptrOut = 0 /\ rxLength = 0 /\ txState = 0
  /\ packet = <<>> /\ host = <<>> /\ put = 0
  /\ rxState = 0 /\ rxBuf = <<>> /\ rxPtr = 0 /\ ready = TRUE /\ char = <<>> /\ offered = 0

-----------------------------------------------------------------------------
(* To the host *)

Waiting == (ptrIn - ptrOut) % USART_RX_DATA_SIZE

SendData ==
  /\ sender = "idle" /\ sender' = "in" /\ ring' = [ring EXCEPT ![ptrIn] = put]
  /\ UNCHANGED <<ptrIn, ptrOut, rxLength, txState, packet, host, put, fromHost>>

SendDataIn ==
  /\ sender = "in" /\ sender' = "wrap"
  /\ ptrIn' = ptrIn + 1 /\ put' = NextOctet(put)
  /\ UNCHANGED <<ring, ptrOut, rxLength, txState, packet, host, fromHost>>

\* "To avoid buffer overflow"
SendDataWrap ==
  /\ sender = "wrap" /\ sender' = "idle"
  /\ ptrIn' = IF ptrIn = USART_RX_DATA_SIZE THEN 0 ELSE ptrIn
  /\ UNCHANGED <<ring, ptrOut, rxLength, txState, packet, host, put, fromHost>>

Least(a, b) == IF a < b THEN a ELSE b

\* Mutant: a packet that does not take all that is left moves the pointer past it.
BugTakePacket(ptr, length) ==
  LET n == Least(length, VIRTUAL_COM_PORT_DATA_SIZE)
  IN  /\ packet' = [k \in 1 .. n |-> ring[ptr + k - 1]]
      /\ ptrOut' = ptr + length /\ rxLength' = length - n

\* At most a packet goes, the rest has to wait for EP1_IN_Callback.
TakePacket(ptr, length) ==
  LET n == Least(length, VIRTUAL_COM_PORT_DATA_SIZE)
  IN  /\ packet' = [k \in 1 .. n |-> ring[ptr + k - 1]]
      /\ ptrOut' = ptr + n /\ rxLength' = length - n

\* SOF_Callback, every fifth frame: Handle_USBAsynchXfer.
Handle_USBAsynchXfer ==
  /\ txState # 1
  /\ LET ptr == IF ptrOut = USART_RX_DATA_SIZE THEN 0 ELSE ptrOut
         length == IF ptr > ptrIn THEN USART_RX_DATA_SIZE - ptr ELSE ptrIn - ptr
     IN  IF ptr = ptrIn THEN ptrOut' = ptr /\ UNCHANGED <<txState, packet, rxLength>>
                        ELSE txState' = 1 /\ TakePacket(ptr, length)
  /\ UNCHANGED <<sender, ring, ptrIn, host, put, fromHost>>

\* The host has read the packet.
EP1_IN_Callback ==
  /\ txState = 1 /\ host' = packet
  /\ IF rxLength = 0 THEN txState' = 0 /\ packet' = <<>> /\ UNCHANGED <<ptrOut, rxLength>>
                     ELSE TakePacket(ptrOut, rxLength) /\ UNCHANGED txState
  /\ UNCHANGED <<sender, ring, ptrIn, put, fromHost>>

-----------------------------------------------------------------------------
(* From the host *)

EP3_OUT_Callback ==
  /\ ready /\ ready' = FALSE /\ rxState' = 1 /\ rxPtr' = 0
  /\ \E n \in 1 .. VIRTUAL_COM_PORT_DATA_SIZE :
       /\ rxBuf' = [k \in 1 .. n |-> (offered + k - 1) % Circle]
       /\ offered' = (offered + n) % Circle
  /\ UNCHANGED <<sender, toHost, char>>

NextPtr == (rxPtr + 1) % PtrRange

\* Past the end of the packet is what the buffer has held before, or what lies behind it.
ReceiveData ==
  /\ sender = "idle" /\ rxState = 1 /\ Len(rxBuf) - rxPtr # 1
  /\ \E c \in IF rxPtr < Len(rxBuf) THEN {rxBuf[rxPtr + 1]} ELSE Octets : char' = <<c>>
  /\ rxPtr' = NextPtr
  /\ UNCHANGED <<sender, toHost, rxState, rxBuf, ready, offered>>

\* "Enable the receive of data on EP3"
ReceiveLast ==
  /\ sender = "idle" /\ rxState = 1 /\ Len(rxBuf) - rxPtr = 1
  /\ sender' = "last" /\ rxState' = 0 /\ ready' = TRUE
  /\ UNCHANGED <<toHost, rxBuf, rxPtr, char, offered>>

ReceiveLastDone ==
  /\ sender = "last" /\ sender' = "idle"
  /\ char' = <<rxBuf[rxPtr + 1]>> /\ rxPtr' = NextPtr
  /\ UNCHANGED <<toHost, rxState, rxBuf, ready, offered>>

Next ==
  \/ SendData \/ SendDataIn \/ SendDataWrap \/ Handle_USBAsynchXfer \/ EP1_IN_Callback
  \/ EP3_OUT_Callback \/ ReceiveData \/ ReceiveLast \/ ReceiveLastDone

-----------------------------------------------------------------------------
(* Properties *)

TypeOK ==
  /\ sender \in {"idle", "in", "wrap", "last"}
  /\ ring \in [0 .. USART_RX_DATA_SIZE - 1 -> Octets]
  /\ {ptrIn, ptrOut} \subseteq 0 .. USART_RX_DATA_SIZE
  /\ rxLength \in 0 .. USART_RX_DATA_SIZE /\ ptrOut + rxLength <= USART_RX_DATA_SIZE
  /\ {txState, rxState} \subseteq {0, 1} /\ ready \in BOOLEAN
  /\ \A s \in {packet, host, rxBuf, char} :
       s \in Seq(Octets) /\ Len(s) <= VIRTUAL_COM_PORT_DATA_SIZE
  /\ rxPtr \in 0 .. PtrRange - 1 /\ (sender = "last" => rxPtr < Len(rxBuf))
  /\ {put, offered} \subseteq Octets

Queued == [k \in 1 .. Waiting |-> ring[(ptrOut + k - 1) % USART_RX_DATA_SIZE]]

ToHost == INSTANCE BoundedQueue
  WITH next <- put, q <- packet \o Queued, out <- host, Circle <- Circle,
       Cap <- USART_RX_DATA_SIZE + VIRTUAL_COM_PORT_DATA_SIZE,
       Losses <- {"ring"}, Ring <- USART_RX_DATA_SIZE

\* A transfer goes on although the writer has overtaken it.
Overtaken == rxLength > Waiting

\* The write pointer is past the end, and the ring empty or full.
AtWrap == ptrIn = USART_RX_DATA_SIZE /\ ptrOut \in {0, USART_RX_DATA_SIZE}

FromHost == INSTANCE BoundedQueue
  WITH next <- offered, q <- SubSeq(rxBuf, rxPtr + 1, Len(rxBuf)), out <- char,
       Circle <- Circle, Cap <- VIRTUAL_COM_PORT_DATA_SIZE,
       Losses <- {"last"}, Ring <- USART_RX_DATA_SIZE

PastEnd == rxState = 1 /\ rxPtr >= Len(rxBuf)

\* What is sent reaches the host in order, or is lost by whole rings: while the writer
\* has overtaken a transfer, or the interrupt comes in the wrap of its pointer, more
\* than that may go wrong, and nothing else afterwards.  "Data sent by USB Host" is
\* returned in order, but for the last byte of a packet that the next one supersedes,
\* unless reading has passed the end of that one.
IsQueue ==
  /\ ToHost!Init /\ [][Overtaken \/ AtWrap \/ ToHost!Next]_(ToHost!queue)
  /\ FromHost!Init /\ [][PastEnd \/ FromHost!Next]_(FromHost!queue)
=============================================================================
