---------------------------- MODULE Cc3000Driver ----------------------------
(***************************************************************************)
(* Talking to the CC3000 over a SPI bus shared with the serial flash: the  *)
(* driver that main runs (wlan_start, SpiWrite, hci_event_handler, the     *)
(* calls socket, recv and send), the two interrupts that preempt it (the   *)
(* falling edge of the chip's IRQ line and the end of a DMA transfer), and *)
(* the bus arbiter.  main waits for answers in loops: a loop is the guard  *)
(* of an action, and an interrupt strikes between any two actions of main. *)
(*                                                                         *)
(* The chip is external: it lowers its line when it has a packet to send   *)
(* or is ready to be written to, and raises it with the chip select.       *)
(* wlan_stop, patches and the contents of packets are left out.            *)
(***************************************************************************)
EXTENDS Naturals, Sequences, FiniteSets

CONSTANTS
  Buffers,     \* transmit buffers of the chip
  MaxCall,     \* bound: calls of socket, recv and send
  MaxEvent,    \* bound: unsolicited events
  MaxRefused,  \* bound: sends that fail because the socket is closed
  MaxLate,     \* bound: waits that time out although an answer would come
  Preempted    \* an interrupt may hold main for as long as the chip works

ASSUME BoundAssumption ==
  /\ Buffers \in Nat \ {0} /\ Preempted \in BOOLEAN
  /\ {MaxCall, MaxEvent, MaxRefused, MaxLate} \subseteq Nat

VARIABLES
  spi,           \* ulSpiState
  owner,         \* spi_bus_lock
  irq,           \* the interrupt of the IRQ line is enabled (NVIC)
  edge,          \* a falling edge is pending
  low,           \* the IRQ line is low
  dma,           \* the transfer in progress
  buffer,        \* wlan_rx_buffer
  received,      \* usEventOrDataReceived
  opcode,        \* usRxEventOpcode
  dataPending,   \* usRxDataPending
  solicited,     \* solicitedResponse
  freeBuffers,   \* usNumberOfFreeBuffers
  transmitError, \* slTransmitDataError
  active,        \* the socket's bit of socket_active_status
  main,          \* where main is
  call,          \* the command main is at: its opcode and its number
  seen,          \* freeBuffers as HostFlowControlConsumeBuff read it
  result,        \* the packet copied to pRetParams last
  work,          \* chip: the commands it has not answered
  outbox,        \* chip: the packets it wants to send
  sending,       \* chip: buffers it transmits from
  faults,        \* how often each kind of fault happened
  dropped,       \* history: calls whose answer the driver discarded
  failed         \* history: calls whose answer said the socket is closed

pins    == <<irq, edge, low>>
bus     == <<spi, owner, dma>>
waiting == <<opcode, dataPending>>
flow    == <<freeBuffers, transmitError, active>>
chip    == <<work, outbox, sending>>
thread  == <<main, call, seen, result>>
history == <<dropped, failed>>
vars == <<pins, bus, buffer, received, waiting, solicited, flow, thread, chip,
          faults, history>>

Ops == {"socket", "recv", "send"}
BootOps == {"start", "bufferSize"}
Packet(op, id, more) == [op |-> op, id |-> id, more |-> more]
Nothing == Packet("nothing", 0, FALSE)
Garbage == Packet("garbage", 0, FALSE)  \* what the chip shifts out in a write
Numbers == 0..MaxCall + 1               \* of calls: wlan_start makes two
Answers == [op : Ops \cup BootOps \cup {"sendFailed", "data"}, id : Numbers,
            more : BOOLEAN]
Events == {Packet(op, 0, FALSE) : op \in {"freeBuffer", "known", "unknown"}}
IsEvent(p) == p.op \notin {"data", "garbage"}

Selected == spi \in {"FIRST_WRITE", "WRITE_WAIT_IRQ", "WRITE_PROCEED",
                     "READ_IRQ", "READ_PROCEED"}  \* chip select is low

Init ==
  /\ spi = "POWERUP" /\ owner = "none" /\ dma = "none"
  /\ irq = TRUE /\ edge = FALSE /\ low = FALSE
  /\ buffer = Nothing /\ received = FALSE /\ solicited = FALSE
  /\ opcode = "none" /\ dataPending = FALSE
  /\ freeBuffers = 0 /\ transmitError = FALSE /\ active = FALSE
  /\ main = "open" /\ call = [op |-> "start", id |-> 0]
  /\ seen = 0 /\ result = Nothing
  /\ work = <<>> /\ outbox = <<>> /\ sending = 0
  /\ faults = [event |-> 0, refused |-> 0, late |-> 0]
  /\ dropped = {} /\ failed = {}

-----------------------------------------------------------------------------
(* The bus arbiter: a try that fails leaves the bus alone; acquire and      *)
(* release spin.                                                            *)

\* Mutant: the bus is not arbitrated.
BugMayAcquire(who) == TRUE

MayAcquire(who) == owner \in {"none", who}
Assert   == MayAcquire("CC3000") /\ owner' = "CC3000"
Deassert == MayAcquire("CC3000") /\ owner' = "none" /\ low' = FALSE

-----------------------------------------------------------------------------
(* The interrupt of the IRQ line.                                           *)

Interrupt == main # "panic" /\ irq /\ edge /\ edge' = FALSE

StartRead ==
  /\ Assert /\ spi' = "READ_IRQ" /\ dma' = "header" /\ buffer' = Garbage

Initialized ==
  /\ Interrupt /\ low /\ spi = "POWERUP" /\ spi' = "INITIALIZED"
  /\ UNCHANGED <<owner, dma, buffer>>

ReadRequested ==
  /\ Interrupt /\ low /\ spi = "IDLE" /\ MayAcquire("CC3000")
  /\ StartRead

ReadPostponed ==
  /\ Interrupt /\ low /\ spi = "IDLE" /\ ~MayAcquire("CC3000")
  /\ spi' = "READ_PREP_IRQ"
  /\ UNCHANGED <<owner, dma, buffer>>

WriteAllowed ==
  /\ Interrupt /\ low /\ spi = "WRITE_WAIT_IRQ" /\ spi' = "WRITE_PROCEED"
  /\ UNCHANGED <<owner, dma, buffer>>

Ignored ==
  /\ Interrupt
  /\ ~low \/ spi \notin {"POWERUP", "IDLE", "WRITE_WAIT_IRQ"}
  /\ UNCHANGED <<bus, buffer>>

SPI_EXTI_IntHandler ==
  /\ Initialized \/ ReadRequested \/ ReadPostponed \/ WriteAllowed \/ Ignored
  /\ UNCHANGED <<irq, low, received, waiting, solicited, flow, thread, chip,
                 faults, history>>

-----------------------------------------------------------------------------
(* The interrupt at the end of a DMA transfer, and the packets it can deal  *)
(* with itself.                                                             *)

\* Mutant: nothing is special about the answer to a send.
BugHandled(p) ==
  \/ p.op \in {"known", "freeBuffer", "sendFailed"}
  \/ p.op \notin {"unknown", opcode}

\* hci_unsol_event_handler returns 1
Handled(p) ==
  \/ p.op \in {"known", "freeBuffer", "sendFailed"}
  \/ p.op \notin {"unknown", "send", opcode}

\* hci_unsolicited_event_handler gives the buffer back at once
Released(p) == IsEvent(p) /\ (Handled(p) \/ ~solicited)

\* Mutant: a credit is given twice.
BugCredit(p) == IF p.op = "freeBuffer" THEN 2 ELSE 0

Credit(p) == IF p.op = "freeBuffer" THEN 1 ELSE 0

Unsolicited(p) ==
  /\ freeBuffers' = freeBuffers + Credit(p)
  /\ IF p.op = "sendFailed"
     THEN transmitError' = TRUE /\ active' = FALSE
     ELSE UNCHANGED <<transmitError, active>>

\* Mutant: SpiPauseSpi is not called.
BugPaused(p) == FALSE

\* SpiPauseSpi, until SpiResumeSpi gives the buffer back
Paused(p) == ~Released(p)

Awaited(p) == p.id = call.id /\ main \in {"writing", "written", "event"}

HeaderDone ==
  /\ dma = "header" /\ spi = "READ_IRQ"
  /\ spi' = "READ_PROCEED" /\ dma' = "payload"
  /\ UNCHANGED <<owner, pins, buffer, received, flow, chip, history>>

PayloadDone ==
  LET p == Head(outbox) IN
  /\ dma = "payload" /\ spi = "READ_PROCEED"
  /\ spi' = "IDLE" /\ dma' = "none" /\ Deassert
  /\ outbox' = Tail(outbox) /\ buffer' = p
  /\ received' = ~Released(p) /\ irq' = ~Paused(p)
  /\ Unsolicited(p)
  /\ failed' = failed \cup IF p.op = "sendFailed" THEN {p.id} ELSE {}
  /\ dropped' = dropped \cup
       IF Released(p) /\ Awaited(p) /\ p.op = call.op THEN {p.id} ELSE {}
  /\ UNCHANGED <<edge, work, sending>>

\* the first four bytes of the first packet
FirstBytesDone ==
  /\ dma = "write" /\ spi = "FIRST_WRITE"
  /\ spi' = "WRITE_PROCEED" /\ dma' = "none"
  /\ UNCHANGED <<owner, pins, buffer, received, flow, chip, history>>

WriteDone ==
  /\ dma = "write" /\ spi = "WRITE_PROCEED"
  /\ spi' = "IDLE" /\ dma' = "none" /\ Deassert
  /\ work' = Append(work, call)
  /\ UNCHANGED <<irq, edge, buffer, received, flow, outbox, sending, history>>

SPI_DMA_IntHandler ==
  /\ main # "panic"
  /\ HeaderDone \/ PayloadDone \/ FirstBytesDone \/ WriteDone
  /\ UNCHANGED <<waiting, solicited, thread, faults>>

-----------------------------------------------------------------------------
(* main: starting the chip and its first packet.                            *)

Goto(place) == main' = place /\ UNCHANGED <<call, seen, result>>

SpiOpen ==
  /\ main = "open" /\ spi = "INITIALIZED" /\ Goto("first")
  /\ UNCHANGED <<bus, buffer, solicited, pins>>

StartWrite == dma' = "write" /\ buffer' = Garbage

FirstWrite ==
  /\ main = "first" /\ spi = "INITIALIZED"
  /\ spi' = "FIRST_WRITE" /\ Assert /\ solicited' = TRUE
  /\ StartWrite /\ Goto("first rest")
  /\ UNCHANGED pins

FirstRest ==
  /\ main = "first rest" /\ spi # "FIRST_WRITE"
  /\ StartWrite /\ Goto("writing")
  /\ UNCHANGED <<spi, owner, solicited, pins>>

(* main: SpiWrite of every other packet.                                    *)

Reserve ==
  /\ main = "reserve" /\ spi = "IDLE"
  /\ spi' = "WRITE_WAIT_IRQ" /\ Assert /\ solicited' = TRUE
  /\ Goto("proceed")
  /\ UNCHANGED <<dma, buffer, pins>>

\* Mutant: only the interrupt sees the line go low.
BugMayWrite == spi = "WRITE_PROCEED"

\* WaitFor looks at the line itself: the interrupt may be paused
MayWrite == spi = "WRITE_PROCEED" \/ low

Proceed ==
  /\ main = "proceed" /\ MayWrite
  /\ spi' = "WRITE_PROCEED" /\ StartWrite /\ Goto("writing")
  /\ UNCHANGED <<owner, solicited, pins>>

Written ==
  /\ main = "writing" /\ spi # "WRITE_PROCEED" /\ Goto("written")
  /\ UNCHANGED <<bus, buffer, solicited, pins>>

SpiWrite ==
  /\ SpiOpen \/ FirstWrite \/ FirstRest \/ Reserve \/ Proceed \/ Written
  /\ UNCHANGED <<received, waiting, flow, chip, faults, history>>

-----------------------------------------------------------------------------
(* main: waiting for the answer, and for the data that follows it.          *)

SimpleLinkWaitEvent ==
  /\ main = "written" /\ opcode' = call.op /\ Goto("event")
  /\ UNCHANGED <<dataPending, pins, received, solicited, flow, history>>

\* the call returns; a new socket's status is set to active
Return ==
  /\ main' = IF call.op = "start" THEN "started" ELSE "free"
  /\ active' = (active \/ (call.op = "socket" /\ result'.op = "socket"))
  /\ UNCHANGED call

HasData == call.op = "recv" /\ result'.op = "recv" /\ result'.more

AfterPacket ==
  IF opcode' # "none" \/ dataPending'
  THEN UNCHANGED <<main, call, active>>
  ELSE IF main = "event" /\ HasData
       THEN main' = "recv" /\ UNCHANGED <<call, active>>
       ELSE Return

TakeEvent ==
  /\ IsEvent(buffer)
  /\ freeBuffers' = IF buffer.op = "bufferSize" /\ ~Handled(buffer)
                    THEN Buffers ELSE freeBuffers
  /\ result' = IF Handled(buffer) \/ buffer.op = "unknown"
               THEN result ELSE buffer
  /\ IF buffer.op = opcode
     THEN opcode' = "none" /\ solicited' = FALSE
     ELSE UNCHANGED <<opcode, solicited>>
  /\ UNCHANGED dataPending

TakeData ==
  /\ ~IsEvent(buffer)
  /\ dataPending' = FALSE
  /\ result' = IF dataPending THEN buffer ELSE result
  /\ UNCHANGED <<freeBuffers, opcode, solicited>>

\* Mutant: usEventOrDataReceived is not reset.
BugGiveBuffer == irq' = TRUE /\ UNCHANGED received

GiveBuffer == irq' = TRUE /\ received' = FALSE

TakePacket ==
  /\ main \in {"event", "data"} /\ received
  /\ TakeEvent \/ TakeData
  /\ GiveBuffer
  /\ AfterPacket
  /\ UNCHANGED <<edge, low, transmitError, seen, history>>

SimpleLinkWaitData ==
  /\ main = "recv" /\ dataPending' = TRUE /\ Goto("data")
  /\ UNCHANGED <<opcode, pins, received, solicited, flow, history>>

hci_event_handler ==
  /\ SimpleLinkWaitEvent \/ TakePacket \/ SimpleLinkWaitData
  /\ UNCHANGED <<bus, buffer, chip, faults>>

\* the answer is lost, or the timeout is shorter than the chip's work
GivesUp ==
  \/ call.id \in dropped \cup failed /\ UNCHANGED faults
  \/ /\ faults.late < MaxLate
     /\ faults' = [faults EXCEPT !.late = @ + 1]

Timeout ==
  /\ main = "event" /\ ~received /\ GivesUp
  /\ result' = Nothing /\ Return
  /\ UNCHANGED <<pins, bus, buffer, received, waiting, solicited, freeBuffers,
                 transmitError, seen, chip, history>>

\* no case of the switch is for opcode 0: INVALID_CASE
DataTimeout ==
  /\ main = "data" /\ ~received /\ GivesUp
  /\ Goto("panic")
  /\ UNCHANGED <<pins, bus, buffer, received, waiting, solicited, flow, chip,
                 history>>

\* with interrupts disabled, until a release build resets the Core
Blinks == main = "panic" /\ UNCHANGED vars

-----------------------------------------------------------------------------
(* main: the calls of the socket API, and the credit for a transmit buffer. *)

Command(op) == call' = [op |-> op, id |-> call.id + 1] /\ result' = Nothing

ReadBufferSize ==
  /\ main = "started" /\ main' = "reserve" /\ Command("bufferSize")

Issue(op) ==
  /\ main = "free" /\ call.id <= MaxCall /\ Command(op)
  /\ main' = IF op = "send" THEN "consume" ELSE "reserve"

TransmitFailed ==
  /\ main = "consume" /\ transmitError
  /\ transmitError' = FALSE /\ Goto("free")
  /\ UNCHANGED <<freeBuffers, active>>

SocketInactive ==
  /\ main = "consume" /\ ~transmitError /\ ~active /\ Goto("free")
  /\ UNCHANGED flow

NoBuffer ==
  /\ main = "consume" /\ ~transmitError /\ active /\ freeBuffers = 0
  /\ Goto("free")
  /\ UNCHANGED flow

ReadCredit ==
  /\ main = "consume" /\ ~transmitError /\ active /\ freeBuffers > 0
  /\ seen' = freeBuffers /\ main' = "swap"
  /\ UNCHANGED <<call, result, flow>>

\* Mutant: the count is stored without the comparison.
BugSwap ==
  /\ main = "swap" /\ freeBuffers' = seen - 1 /\ Goto("reserve")
  /\ UNCHANGED <<transmitError, active>>

CompareAndSwap ==
  /\ main = "swap"
  /\ IF freeBuffers = seen
     THEN freeBuffers' = seen - 1 /\ Goto("reserve")
     ELSE UNCHANGED freeBuffers /\ Goto("consume")
  /\ UNCHANGED <<transmitError, active>>

HostFlowControlConsumeBuff ==
  /\ TransmitFailed \/ SocketInactive \/ NoBuffer \/ ReadCredit \/ CompareAndSwap
  /\ UNCHANGED <<pins, bus, buffer, received, waiting, solicited, chip, faults,
                 history>>

NewCommand(op) ==
  /\ IF op = "bufferSize" THEN ReadBufferSize ELSE Issue(op)
  /\ UNCHANGED <<seen, flow, pins, bus, buffer, received, waiting, solicited, chip, faults,
                 history>>

-----------------------------------------------------------------------------
(* main: an access to the serial flash.                                     *)

sFLASH_CS_LOW ==
  /\ main = "free" /\ MayAcquire("SFLASH") /\ owner' = "SFLASH"
  /\ Goto("flash")
  /\ UNCHANGED <<pins, spi, dma, buffer, received, waiting, solicited, flow, chip,
                 faults, history>>

\* up to the release; handle_spi_request comes next
sFLASH_CS_HIGH ==
  /\ main = "flash" /\ MayAcquire("SFLASH") /\ owner' = "none"
  /\ Goto("released")
  /\ UNCHANGED <<pins, spi, dma, buffer, received, waiting, solicited, flow, chip,
                 faults, history>>

\* Mutant: nobody comes back to a read that was postponed.
BugResumed == FALSE

Resumed == spi = "READ_PREP_IRQ" /\ MayAcquire("CC3000")

handle_spi_request ==
  /\ main = "released" /\ Goto("free")
  /\ IF Resumed
     THEN StartRead
     ELSE UNCHANGED <<bus, buffer>>
  /\ UNCHANGED <<pins, received, waiting, solicited, flow, chip, faults, history>>

-----------------------------------------------------------------------------
(* The chip.                                                                *)

LowersLine ==
  /\ ~low
  /\ \/ main = "open" /\ spi = "POWERUP"
     \/ spi = "WRITE_WAIT_IRQ"
     \/ ~Selected /\ outbox # <<>>
  /\ low' = TRUE /\ edge' = TRUE
  /\ UNCHANGED <<irq, chip, faults>>

\* between the write and SimpleLinkWaitEvent lie few instructions
InTime == Preempted \/ Head(work).op = "send"
          \/ main \notin {"first rest", "writing", "written"}

Answer(p) ==
  \/ /\ ~p.more
     /\ outbox' = Append(outbox, p)
  \/ /\ p.op = "recv" /\ p.more
     /\ outbox' = outbox \o <<p, Packet("data", p.id, FALSE)>>

Replies ==
  /\ work # <<>> /\ InTime /\ work' = Tail(work)
  /\ \/ /\ \E more \in BOOLEAN :
             Answer(Packet(Head(work).op, Head(work).id, more))
        /\ UNCHANGED faults
     \/ /\ Head(work).op = "send" /\ faults.refused < MaxRefused
        /\ faults' = [faults EXCEPT !.refused = @ + 1]
        /\ Answer(Packet("sendFailed", Head(work).id, FALSE))
  /\ sending' = IF Head(work).op = "send" THEN sending + 1 ELSE sending
  /\ UNCHANGED pins

Transmitted ==
  /\ sending > 0 /\ sending' = sending - 1
  /\ outbox' = Append(outbox, Packet("freeBuffer", 0, FALSE))
  /\ UNCHANGED <<pins, work, faults>>

Unasked ==
  /\ faults.event < MaxEvent /\ spi \notin {"POWERUP", "INITIALIZED"}
  /\ \E op \in {"known", "unknown"} :
       outbox' = Append(outbox, Packet(op, 0, FALSE))
  /\ faults' = [faults EXCEPT !.event = @ + 1]
  /\ UNCHANGED <<pins, work, sending>>

ChipWorks ==
  /\ LowersLine \/ Replies \/ Transmitted
  /\ UNCHANGED <<bus, buffer, received, waiting, solicited, flow, thread, history>>

ChipEvent ==
  /\ Unasked
  /\ UNCHANGED <<bus, buffer, received, waiting, solicited, flow, thread, history>>

-----------------------------------------------------------------------------
SocketCall == \E op \in Ops : NewCommand(op)
MainWorks == SpiWrite \/ NewCommand("bufferSize") \/ hci_event_handler \/ Timeout \/ DataTimeout
             \/ HostFlowControlConsumeBuff \/ sFLASH_CS_HIGH \/ handle_spi_request
Interrupts == SPI_EXTI_IntHandler \/ SPI_DMA_IntHandler

Next == MainWorks \/ Interrupts \/ SocketCall \/ sFLASH_CS_LOW \/ ChipWorks
        \/ ChipEvent \/ Blinks

Spec == Init /\ [][Next]_vars
FairSpec == Spec /\ WF_vars(MainWorks) /\ WF_vars(Interrupts) /\ WF_vars(ChipWorks)

-----------------------------------------------------------------------------
(* Every variable keeps its type.                                           *)
TypeOK ==
  /\ spi \in {"POWERUP", "INITIALIZED", "IDLE", "FIRST_WRITE", "WRITE_WAIT_IRQ",
              "WRITE_PROCEED", "READ_IRQ", "READ_PROCEED", "READ_PREP_IRQ"}
  /\ owner \in {"none", "CC3000", "SFLASH"}
  /\ dma \in {"none", "write", "header", "payload"}
  /\ {irq, edge, low, received, dataPending, solicited, transmitError, active}
       \subseteq BOOLEAN
  /\ {buffer, result} \subseteq Answers \cup Events \cup {Nothing, Garbage}
  /\ opcode \in Ops \cup BootOps \cup {"none"}
  /\ call \in [op : Ops \cup BootOps, id : Numbers]
  /\ freeBuffers \in 0..Buffers /\ seen \in 0..Buffers /\ sending \in 0..Buffers
  /\ Len(work) <= MaxCall + 2 /\ Len(outbox) <= 2 * (MaxCall + 2) + MaxEvent
  /\ dropped \cup failed \subseteq Numbers

(* The bus is never driven by two: the flash selects only while main is at  *)
(* it, the CC3000 owns the bus exactly while its chip select is low, and    *)
(* every transfer ends in a state whose case SPI_DMA_IntHandler has.        *)
BusExclusive ==
  /\ owner = "SFLASH" <=> main = "flash"
  /\ owner = "CC3000" <=> Selected
  /\ dma = "header" => spi = "READ_IRQ"
  /\ dma = "payload" => spi = "READ_PROCEED"
  /\ dma = "write" => spi \in {"FIRST_WRITE", "WRITE_PROCEED"}

(* A packet that main has still to look at is not overwritten, neither by   *)
(* the next read nor by what the chip shifts out while main writes, as long *)
(* as no wait has timed out.                                                *)
UnreadKept ==
  received /\ faults.late = 0 /\ dropped \cup failed = {} => buffer # Garbage

(* The driver discards no answer that main waits for or is about to.        *)
AnswerKept == dropped = {}

(* What a call returns is the answer to this call and not to an earlier     *)
(* one, as long as the chip answers before the timeout.                     *)
AnswersMatch ==
  faults.late = 0 /\ result # Nothing => result.id = call.id

\* a buffer consumed for a packet that has not reached the chip
Reserved ==
  IF call.op = "send" /\ (main \in {"reserve", "proceed"} \/ dma = "write")
  THEN 1 ELSE 0

(* No credit for a transmit buffer is lost or made up, although main takes  *)
(* them while the interrupt gives them back.                                *)
BuffersConserved ==
  faults.late = 0 /\ dropped = {} /\ call.op \in Ops =>
    Buffers = freeBuffers + Reserved + sending
              + Cardinality({i \in DOMAIN outbox : outbox[i].op = "freeBuffer"})
              + Cardinality({i \in DOMAIN work : work[i].op = "send"})

(* Every call returns, and the timeout is needed only for answers lost.     *)
CallsReturn == main # "free" ~> main \in {"free", "panic"}

(* The chip gets rid of its packets, be it while main holds the bus for the *)
(* flash; after a timeout a packet may wait for the next call.              *)
ChipServed ==
  outbox # <<>> ~>
    (outbox = <<>> \/ dropped \cup failed # {} \/ faults.late > 0)
=============================================================================
