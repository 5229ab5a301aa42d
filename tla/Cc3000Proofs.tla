---------------------------- MODULE Cc3000Proofs ----------------------------
(***************************************************************************)
(* Theorems about Cc3000Driver, for any number of buffers, calls, events   *)
(* and timeouts.                                                           *)
(***************************************************************************)
EXTENDS Cc3000Driver, TLAPS

\* Where main stands between two steps of a write tells the state of the bus:
\* nobody but main starts the transfer, so nothing can end it before.
WriteInv ==
  /\ main = "first rest" =>
       (spi = "FIRST_WRITE" /\ dma = "write") \/ (spi = "WRITE_PROCEED" /\ dma = "none")
  /\ main = "proceed" => spi \in {"WRITE_WAIT_IRQ", "WRITE_PROCEED"} /\ dma = "none"

BusInv == BusExclusive /\ WriteInv /\ dma \in {"none", "write", "header", "payload"}

LEMMA InitBus == Init => BusInv
  BY DEF Init, BusInv, BusExclusive, WriteInv, Selected

\* The interrupt of the IRQ line: a read starts only on a bus the flash does not
\* hold, and the states it leaves are not those of a write under way.
LEMMA EdgeBus == BusInv /\ SPI_EXTI_IntHandler => BusInv'
<1> SUFFICES ASSUME BusInv, SPI_EXTI_IntHandler PROVE BusInv'
  OBVIOUS
<1> USE DEF BusInv, BusExclusive, WriteInv, Selected
<1>1. UNCHANGED main
  BY DEF SPI_EXTI_IntHandler, thread
<1>2. CASE Initialized
  BY <1>1, <1>2 DEF Initialized
<1>3. CASE ReadRequested
  BY <1>1, <1>3 DEF ReadRequested, StartRead, Assert, MayAcquire
<1>4. CASE ReadPostponed
  BY <1>1, <1>4 DEF ReadPostponed
<1>5. CASE WriteAllowed
  BY <1>1, <1>5 DEF WriteAllowed
<1>6. CASE Ignored
  BY <1>1, <1>6 DEF Ignored, bus
<1>7. QED
  BY <1>2, <1>3, <1>4, <1>5, <1>6 DEF SPI_EXTI_IntHandler

\* The end of a transfer: the bus is given back with the chip select.
LEMMA TransferBus == BusInv /\ SPI_DMA_IntHandler => BusInv'
<1> SUFFICES ASSUME BusInv, SPI_DMA_IntHandler PROVE BusInv'
  OBVIOUS
<1> USE DEF BusInv, BusExclusive, WriteInv, Selected
<1>1. UNCHANGED main
  BY DEF SPI_DMA_IntHandler, thread
<1>2. CASE HeaderDone
  BY <1>1, <1>2 DEF HeaderDone
<1>3. CASE PayloadDone
  BY <1>1, <1>3 DEF PayloadDone, Deassert, MayAcquire
<1>4. CASE FirstBytesDone
  BY <1>1, <1>4 DEF FirstBytesDone
<1>5. CASE WriteDone
  BY <1>1, <1>5 DEF WriteDone, Deassert, MayAcquire
<1>6. QED
  BY <1>2, <1>3, <1>4, <1>5 DEF SPI_DMA_IntHandler

\* main writes: from a free bus, or on the bus it reserved.
LEMMA WriteBus == BusInv /\ SpiWrite => BusInv'
<1> SUFFICES ASSUME BusInv, SpiWrite PROVE BusInv'
  OBVIOUS
<1> USE DEF BusInv, BusExclusive, WriteInv, Selected, Goto
<1>1. CASE SpiOpen
  BY <1>1 DEF SpiOpen, bus
<1>2. CASE FirstWrite
  BY <1>2 DEF FirstWrite, StartWrite, Assert
<1>3. CASE FirstRest
  BY <1>3 DEF FirstRest, StartWrite
<1>4. CASE Reserve
  BY <1>4 DEF Reserve, Assert
<1>5. CASE Proceed
  BY <1>5 DEF Proceed, StartWrite
<1>6. CASE Written
  BY <1>6 DEF Written, bus
<1>7. QED
  BY <1>1, <1>2, <1>3, <1>4, <1>5, <1>6 DEF SpiWrite

\* Steps of main that leave the bus alone, and go neither to the flash nor into
\* the middle of a write.
Elsewhere ==
  /\ UNCHANGED <<spi, owner, dma>>
  /\ main # "flash"
  /\ main' \notin {"flash", "first rest", "proceed"}

LEMMA ElsewhereBus == BusInv /\ Elsewhere => BusInv'
  BY DEF Elsewhere, BusInv, BusExclusive, WriteInv, Selected

LEMMA WaitBus == BusInv /\ (hci_event_handler \/ Timeout \/ DataTimeout) => BusInv'
<1> SUFFICES ASSUME BusInv, hci_event_handler \/ Timeout \/ DataTimeout
             PROVE  BusInv'
  OBVIOUS
<1>1. main \in {"written", "recv"} => Elsewhere \/ ~hci_event_handler
  BY DEF hci_event_handler, SimpleLinkWaitEvent, SimpleLinkWaitData, TakePacket,
         Goto, bus, Elsewhere
<1>2. CASE TakePacket /\ UNCHANGED bus
  <2>1. main \in {"event", "data"} /\ UNCHANGED <<spi, owner, dma>>
    BY <1>2 DEF TakePacket, bus
  <2>2. main' \in {main, "recv", "started", "free"}
    BY <1>2 DEF TakePacket, AfterPacket, Return
  <2>3. QED
    BY <2>1, <2>2, ElsewhereBus DEF Elsewhere
<1>3. CASE SimpleLinkWaitEvent \/ SimpleLinkWaitData
  <2>1. main \in {"written", "recv"} /\ main' \in {"event", "data"}
    BY <1>3 DEF SimpleLinkWaitEvent, SimpleLinkWaitData, Goto
  <2>2. hci_event_handler
    BY <2>1 DEF Timeout, DataTimeout
  <2>3. QED
    BY <1>1, <2>1, <2>2, ElsewhereBus
<1>4. CASE Timeout \/ DataTimeout
  BY <1>4, ElsewhereBus DEF Timeout, DataTimeout, Return, Goto, bus, Elsewhere
<1>5. QED
  BY <1>2, <1>3, <1>4 DEF hci_event_handler

LEMMA CallBus ==
  ASSUME BusInv, NEW op \in Ops \cup {"bufferSize"},
         HostFlowControlConsumeBuff \/ NewCommand(op)
  PROVE  BusInv'
<1>1. CASE HostFlowControlConsumeBuff
  BY <1>1, ElsewhereBus
  DEF HostFlowControlConsumeBuff, TransmitFailed, SocketInactive, NoBuffer,
      ReadCredit, CompareAndSwap, Goto, bus, Elsewhere
<1>2. CASE NewCommand(op)
  BY <1>2, ElsewhereBus
  DEF NewCommand, ReadBufferSize, Issue, Command, bus, Elsewhere
<1>3. QED
  BY <1>1, <1>2

\* An access to the flash: it waits for the bus, and a read that was put off
\* meanwhile starts when the flash has given it back.
LEMMA FlashBus ==
  BusInv /\ (sFLASH_CS_LOW \/ sFLASH_CS_HIGH \/ handle_spi_request) => BusInv'
<1> SUFFICES ASSUME BusInv, sFLASH_CS_LOW \/ sFLASH_CS_HIGH \/ handle_spi_request
             PROVE  BusInv'
  OBVIOUS
<1> USE DEF BusInv, BusExclusive, WriteInv, Selected, Goto
<1>1. CASE sFLASH_CS_LOW
  BY <1>1 DEF sFLASH_CS_LOW, MayAcquire
<1>2. CASE sFLASH_CS_HIGH
  BY <1>2 DEF sFLASH_CS_HIGH, MayAcquire
<1>3. CASE handle_spi_request
  BY <1>3 DEF handle_spi_request, Resumed, StartRead, Assert, MayAcquire, bus
<1>4. QED
  BY <1>1, <1>2, <1>3

LEMMA ChipBus == BusInv /\ (ChipWorks \/ ChipEvent \/ Blinks) => BusInv'
  BY DEF ChipWorks, ChipEvent, Blinks, vars, bus, thread, BusInv, BusExclusive,
         WriteInv, Selected

LEMMA StepBus == BusInv /\ [Next]_vars => BusInv'
<1>1. ASSUME BusInv, UNCHANGED vars PROVE BusInv'
  BY <1>1 DEF vars, bus, thread, BusInv, BusExclusive, WriteInv, Selected
<1>2. ASSUME BusInv, Next PROVE BusInv'
  <2>1. CASE MainWorks
    BY <1>2, <2>1, WriteBus, WaitBus, CallBus, FlashBus DEF MainWorks
  <2>2. CASE SocketCall
    BY <1>2, <2>2, CallBus DEF SocketCall
  <2>3. CASE Interrupts \/ sFLASH_CS_LOW \/ ChipWorks \/ ChipEvent \/ Blinks
    BY <1>2, <2>3, EdgeBus, TransferBus, FlashBus, ChipBus DEF Interrupts
  <2>4. QED
    BY <1>2, <2>1, <2>2, <2>3 DEF Next
<1>3. QED
  BY <1>1, <1>2

\* The SPI bus is never driven by both the CC3000 and the serial flash, and each
\* transfer ends in a state SPI_DMA_IntHandler expects, whatever the interrupts
\* interrupt and the chip sends.
THEOREM BusIsExclusive == Spec => []BusExclusive
<1>1. BusInv => BusExclusive
  BY DEF BusInv
<1>2. QED
  BY InitBus, StepBus, <1>1, PTL DEF Spec
=============================================================================
