# TLA+ models of the mask-devices firmware

This directory models the firmware of the *mask devices*: home-audio controls
built on the Spark Core, an STM32F103 with a CC3000 Wi-Fi chip. The repository
holds the Core's firmware (`core-firmware`, `core-common-lib`,
`core-communication-lib`) with the device applications
(`core-firmware/applications`). Paths below are relative to `src/`.

Contents: [the system](#the-system) · [modules](#modules) ·
[runs](#runs-bounds-and-fairness) · [what the code does differently](#what-the-code-does-differently-from-what-is-said-of-it) ·
[theorems](#theorems) · [what is not modelled](#what-is-not-modelled) · [plan](#plan)

To check a run or a proof:

    tlc -workers 2 -config ota_update.cfg MCOtaUpdate
    tlapm EepromProofs.tla

## The system

One thread, `main`, alternates between `SPARK_WLAN_Loop`, which keeps the Core on
Wi-Fi and in a session with the cloud, and the `loop()` of an application.
Interrupts change what `main` works on at any moment. No operating system, no
locks: flags in RAM, interrupts that are masked, one compare-and-swap.

```
 application (smartamp, panel, ...)          EEPROM class -> internal flash
   | WiFi.*, Spark.*, TCPClient, EEPROM          ^
   v                                             |
 SPARK_WLAN_Loop <---flags--- WLAN_Async_Callback, button, RTC alarm, SysTick
   | process()                     ^ (interrupts)
   v                               |
 SparkProtocol (CoAP, updates) --> socket API --> hci, evnt_handler --> CC3000
   | callbacks                                        | SPI bus (arbiter)
   v                                                  |
 hw_config FLASH_* -----------> serial flash driver --+
```

| Component | State | Operations | Hard behaviour | What makes it correct |
|---|---|---|---|---|
| EEPROM emulation (`core-firmware/src/spark_wiring_eeprom.cpp`) | two pages of internal flash; an address table in RAM | read, write; page transfer, format, recovery at boot | power loss between any two flash operations, and inside one; flash errors | a completed write survives; a read returns the last stored value; there is always a page to read |
| Over-the-air update (`spark_protocol.cpp`, `spark_utilities.cpp`, `hw_config.c`, `main.cpp`) | write address, index of the chunk due, the serial flash, two flags | UPDATE_BEGIN, CHUNK, UPDATE_DONE, chunk timeout, watchdog | damaged, lost and repeated chunks without a number; writes that do not verify; broken or silent connections | device and cloud agree which chunk is due; what gets installed is the image; the Core is not stuck in an update |
| Wi-Fi and cloud supervisor (`spark_wlan.cpp`, `spark_wiring_wifi.cpp`, `main.cpp`, `stm32_it.cpp`) | about 20 global flags, a watchdog, a failure count | SPARK_WLAN_Loop, Start_Smart_Config, WiFi.\*, Spark.\*, the event callback, button, alarm | events arrive between any two steps of `main`; calls of user code in any order; a handshake takes seconds | in the end connected; disconnected when told to be; asleep and awake again; flags say what is true |
| CC3000 driver and SPI bus (`cc3000_spi.c`, `spi_bus.c`, `evnt_handler.c`, `socket.c`, `hci.c`, `wlan.c`) | SPI state, bus owner, one receive buffer, the opcode waited for, transmit credits | SpiWrite, two interrupts, hci_event_handler, socket, recv, send | interrupts within every call; unsolicited events; lost, refused and late answers; a bus shared with the serial flash | one driver of the bus at a time; an answer reaches its call; no credit is lost; every call returns |
| Cloud session (`spark_protocol.cpp`, `coap.cpp`, `handshake.cpp`, `spark_utilities.cpp`) | session key and chained initialisation vector, ping state, times | handshake, event_loop, blocking_send and receive, Spark_Handshake, publish | ping and answer race; a message comes in pieces; a failed send; one session after another in the same object | device and cloud agree on key and chain; a dead connection is noticed; in the end there is a session |
| Events, functions, variables (`spark_protocol.cpp`, `spark_utilities.cpp`, `events.cpp`) | tables of handlers, names, a rate limiter | subscribe, publish, register, dispatch | tables at their limit; prefix matches; wrap of the clock | each event reaches its handler as it was sent; the limit holds |
| MQTT client and device handshake (`applications/_inc/lib-mqtt.h`, `lib-mymqtt.h`, `spark_wiring_tcpclient.cpp`) | socket, keep-alive, three connection flags | connect, loop, publish; SYN, SYNACK, ACK | broker, server and connection fail independently; blocking reads | when nothing is under way device and server agree; in the end they know each other |
| SimpleTimer (`applications/_inc/lib-timer.h`) | ten slots | set, delete, enable, restart, run | callbacks that set and delete timers while run() is at work | each timer runs as often as asked |
| USB serial and USART (`main.cpp`, `usb_endp.cpp`, `spark_wiring_usartserial.cpp`) | ring buffers, interrupt enables, packet buffer | write and read by `main`, send and receive by interrupts | pointers updated in two contexts; writes with interrupts masked | each direction is a queue; loss only where intended |
| System flags (`hw_config.c`) | one page of internal flash | load, save, factory reset, hand-over to the boot loader | power loss between erase and write | a flag survives the saving of another (not modelled) |

Components interact through calls downwards, through callbacks upwards
(`WLAN_Async_Callback`, the descriptor of `SparkProtocol`), and through shared
flags sideways: `SPARK_FLASH_UPDATE` between the update and the main loop,
`SPARK_CLOUD_SOCKETED` and `_CONNECTED` between the event callback and the main
loop, `spi_bus_lock` between the two drivers of the bus, BROKER_CONNECTED and
IS_CONNECTED between the MQTT callback and `mqttLoop`.

## Modules

| Module | Models | State and actions |
|---|---|---|
| `EepromStore` | what the EEPROM class promises: a map whose writes take effect at one instant | `mem`, `call`; Call, TakeEffect, Return |
| `Eeprom` | `spark_wiring_eeprom.cpp` | `head`, `slot` are the flash, `pc`, `job`, `arg`, `cur`, `idx` the stack. One action per flash operation or decision between two; `PowerLoss` and `FlashError` strike anywhere |
| `MCEeprom` | instances | |
| `EepromProofs` | theorems about `Eeprom` | |
| `OtaUpdate` | the update handlers, FLASH_Begin/Update/End, the update watchdog | variables carry the names of the code's; actions ReceiveBegin, ReceiveChunk, ReceiveDamaged, ReceiveDone, ChunkTimeout, Watchdog, Connect; the cloud and the connection are external |
| `MCOtaUpdate` | instances | |
| `OtaProofs` | theorems about `OtaUpdate` | |
| `WlanSupervisor` | main loop, supervisor, calls of user code, event callback, button, alarm | one variable per flag; `pc` names the places of the loop at which time passes, an interrupt comes between any two actions |
| `MCWlanSupervisor` | instances: which faults and which calls | |
| `WlanProofs` | theorems about `WlanSupervisor` | |
| `Cc3000Driver` | SPI driver, its interrupts, bus arbiter, waits, socket calls, credits, an access to the serial flash | `main` is where the thread is; a busy wait is the guard of the action behind it; the chip is external |
| `MCCc3000Driver` | instances | |
| `Cc3000Proofs` | who drives the bus: a theorem about `Cc3000Driver` | |
| `Cc3000AnswerProofs` | answers, credits, the receive buffer: theorems that rest on those of `Cc3000Proofs` | |
| `SparkSession` | handshake, event_loop, blocking_receive, Spark_Handshake, across sessions | `main` is where the thread is; ReceiveNonce, ReceiveKey, Announce, Poll, Ping, PingTimeout, the handlers; the cloud and the link are external |
| `MCSparkSession` | instances | |
| `SessionProofs` | theorems about `SparkSession` | |
| `MqttDevice` | mqttLoop, PubSubClient, the exchange with the device server | `pc` names the places at which a pass can be held up; one action per return of `PubSubClient::loop` and per outcome of `mqttConnect`; broker and server are external |
| `MCMqttDevice` | instances: which faults | |
| `MqttProofs` | theorems about `MqttDevice` | |
| `SimpleTimer` | `lib-timer.h` | one variable per array; Run is the first loop, Pass, CallBack and Returns the second; Call is what a callback or loop() may do |
| `EventDispatch` | `send_event`, `add_event_handler`, the EVENT message | ages instead of times |
| `BoundedQueue` | what a serial buffer promises | `next`, `q`, `out`; Put, Get, and what may be lost: LoseNewest, LoseRing, LoseLast |
| `UsartSerial` | `USARTSerial` and its interrupt | one action per access that another context can see |
| `UsbSerial` | `USB_USART_*` and the USB interrupts | likewise |
| `MCDeviceLibraries` | one behaviour per library, side by side | `library` says which one moves |
| `LibraryProofs` | theorems about the four libraries, and about `MCDeviceLibraries`, which joins them | |

**Eeprom.** A page is a header and slots of two half-words. A half-word is the
unit of programming, so a power loss leaves a slot *torn*: data without address.
`tabReady` is whether `EepromAddressTab` has been filled, which happens after
`EEPROM_Init` has run; `Tab(i)` is 0 before. `may[a]` is history: the values a
read of `a` may return, the last one stored and those of writes cut short since.
`kept` is history too: no power loss has hit two programmed pages.

**OtaUpdate.** Addresses count halves of a chunk so that the last chunk may be
short. A cell that is programmed twice holds garbage, as flash does. Time passes
in units of 3 s, the chunk timeout; messages arrive within a unit or never.

**WlanSupervisor.** Its faults: *link* (the access point drops the Core), *dhcp*
(a lease fails), *slow* (no answer to DHCP in time), *refused* (no TCP
connection), *handshake*, *close* (the cloud closes the socket), *button*,
*smartConfig* (reading the new profile fails), *late* (an event of the CC3000
is handled after `main` has reset the flags), *early* (an alarm before `main` has
noticed that it is to sleep). The inside of a session is abstracted: it may end
at any time.

**Cc3000Driver.** A packet carries its opcode, the number of the call it answers
and whether data follow. Assumed of hardware: the chip raises its line with the
chip select; what is shifted out during a write does not look like an event;
once masked in the NVIC an edge stays pending. `Timeout` (30 s in the code) is
taken for an answer that was lost or refused, or, up to `MaxLate` times, for one
that would have come. `Preempted` says whether an interrupt may hold `main` for
as long as the chip needs for an answer.

**SparkSession.** What matters of the cipher is the chain: each message is
encrypted with the end of the one before, so `chained` says whether key and
vector are those the cloud expects, and a message carries whether the cloud can
read it. Time passes in units of 5 s. Faults: *break* (the connection closes),
*silent* (nothing gets through any more, and nobody says so), *slow* (an answer
takes longer than a unit), *send* (a send fails), *key* (the cloud's key does not
verify), *split* (a message comes in two parts). `unanswered` and `silence` are
history. A single byte of a length is dropped by `event_loop`, which in the same call
goes on to ping or to give the session up: *half* is the place between the two.

**MqttDevice.** The device's socket is a queue each way, and `fetched` says how many
packets of the one to the device are in the buffer of `TCPClient`: `stop()` closes the
socket and leaves them there, and `connected()` is true as long as there are any
(`Stranded`). Time passes in units just longer than the keep-alive, so one tick without
a pass of `mqttLoop` is enough for a late `loop()` to find it expired. Faults: *broker* and
*server* (restart, with or without a word), *close*, *silent*, *refused*, *late*
(loop() of the application takes longer than a unit), *half* (a packet comes in
pieces), *button* (a device calls `mqttConnect` from its loop(), as `app_audio`
does). `caller` is where `mqttConnect` returns to. The server is modelled from what `lib-mymqtt.h` expects of it.

**UsartSerial, UsbSerial.** Bytes are numbered in a circle just large enough to
tell apart those under way and, in a ring, those of the round before. `write`
may be called by the thread, with interrupts masked, or by an interrupt of
higher priority; in the last two cases it has to send by polling. Over USB nothing
waits for anything, as in the code: `USB_USART_Send_Data` writes without a look at the
reader, the interrupts come between any two of its instructions, and a packet of the
host at any moment after `SetEPRxValid`. The host sends no empty packets. `PtrRange` is
the range of `USB_Rx_ptr`, which passes the end of a packet (`PastEnd`) and comes round.

### Composition

`WlanSupervisor` takes from `SparkProtocol` only that a session may begin, fail
to and end, and from `OtaUpdate` nothing: `SPARK_FLASH_UPDATE` is clear in it.
`OtaUpdate` takes from the supervisor that a broken connection comes back
(`Connect`). `Cc3000Driver` includes the accesses of the serial flash as far as
the bus is concerned. Each interface is a handful of flags; the modules are
checked apart because their product is out of reach and their failures are
independent. `Eeprom` shares nothing with the others.

`SparkSession` takes from `WlanSupervisor` that a connection comes back after
each session; it gives it `EndsInSession`, which is what `WlanSupervisor` assumes
when its session "may begin". `MqttDevice` has the one property it needs of
`SimpleTimer` in TimerRests and TimerFires: an enabled interval timer fires, a
disabled one rests. As `mqttLoop` disables it outside `run()`, the case in which
`DisabledRests` (below) fails does not arise.

Two abstract specifications are implemented. `Eeprom => EepromStore` is checked
in `eeprom_store` and proved (`PagesImplementStore`): the map is what the page that
reads use holds, and a write takes effect when its address half-word is programmed or,
if it had to transfer, when the old page is erased. `BoundedQueue` is implemented four times, by each direction of
`UsartSerial` and `UsbSerial` (`SerialIsQueue`): the queue is what is in the ring
together with the data register or the packet in flight. What each may lose is a
constant of `BoundedQueue`: the receiver of the USART the newest byte, when its buffer is
full; the sender over USB a whole ring, when the writer passes the reader; the receiver
over USB the last byte of a packet, when the next one comes before it is read. Over USB
three states are excepted, because the code gives no such promise in them, and the
queue takes up again after them. `Overtaken`: the writer has passed the reader while a
transfer was under way, whose rest is then sent with bytes of the next round, or twice.
`AtWrap`: between `USART_Rx_ptr_in++` and its wrap the interrupt finds a ring that is
empty or full and takes the one for the other. `PastEnd`: a packet of a single byte
has superseded another before its last byte was read; the pointer is then past its end,
reads return what lies there, and the endpoint is not made ready before the pointer has
come round. Each of the three, and each of the losses, is needed: without it the
property is false in the run.

## Runs, bounds and fairness

| Run | Shows | Bounds |
|---|---|---|
| `eeprom_store` | without faults, reads return what was stored, writes are atomic (`ImplementsStore`), calls return | 2 variables, 2 values, 4 slots |
| `eeprom_power` | completed writes survive losses that do not hit two programmed pages; no replaced value comes back; a page is always readable; a transfer erases its old page only when the new one gives each variable that the old one holds the same value, errors and earlier losses notwithstanding | 2 variables, 3 slots, 2 losses, 1 flash error |
| `eeprom_lost` | *violated*: a loss during a page transfer loses variables | 5 slots, 1 loss |
| `ota_update` | device and cloud in step, no hole behind the index, image intact when installed, user code resumes, the update completes | 3 chunks, 2 per sector; 2 damaged, 3 lost, 2 write faults, 1 break, 1 silence |
| `ota_short_last` | *violated*: a short last chunk that fails to verify is installed erased | 1 write fault |
| `wlan_connects` | in both modes a Core whose user code wants the cloud ends connected; it wakes from sleep | one each of link, dhcp, slow, refused, handshake, close, button; 2 calls of connect, disconnect, sleep |
| `wlan_calls` | WiFi.ready() is never true without a lease; a given-up connection is not restored | link, slow, dhcp, button, smartConfig; any 4 calls |
| `wlan_handshake` | *violated*: connected without a handshake | one close |
| `cc3000_driver` | bus exclusive, unread packets kept, answers kept and matched, credits conserved, calls return, the chip is served | 2 buffers, 3 calls, 1 event, 1 refused send, 1 late answer |
| `spark_session` | key and chain agree while no send fails; a dead connection is noticed within 35 s; in the end there is a session that lasts | each of the six faults once, 1 request, 1 event |
| `mqtt_device` | a dead connection is given up, and a live one never before `loop()` has been late; device and server agree when nothing is under way; in the end each knows the other, or the client is stranded | any three of the six faults other than *late* and *button*, once each, *late* and one of them, or *button* and one that leaves the connection alone; server up or down at first |
| `device_libraries` | timers are called as often as asked; at most four events a second; USART and USB serial are queues, and a byte written is sent without a further call; what may be lost or, over USB, go wrong is said above | 2 timers, delays 1 and 2, for ever, once or twice; clock wraps at 1.5 s; buffers of 3 and 4, packets of 2; `PtrRange` 3 |

Every violated run has the shape of a passing one, with the one circumstance
that matters added.

**Why the bounds are enough.** `Eeprom`: the ratio of slots to variables is what
matters. With 3 slots for 2 variables, a second write already transfers; with 5,
two copy loops fit in a page and a third does not, as in the code (255 slots for
100 variables). Two losses reach a loss during the recovery from a loss. Values
are symmetric. `OtaUpdate`: three chunks on sectors of two put a back-off at the
start of a sector, in its middle and in the last sector. `WlanSupervisor`: each
fault happens once, in any order and at any place; `wlan_calls` trades fairness
and some of the faults for four calls of any kind. `Cc3000Driver`: three calls
after the two of `wlan_start` suffice for socket, send and recv, and for a late
answer to meet the next call of its kind; two buffers suffice for a credit to
come back between ReadCredit and CompareAndSwap. `SparkSession`: six faults at any place, each once, give up to four sessions, and
what a session leaves behind (`expecting_ping_ack`, the key) is gone after the
next one. `MqttDevice`: three faults suffice for one of each party in either
order, or for two of the connection around one of them. `UsartSerial`: with three
cells a buffer is empty, full and neither. `UsbSerial`: a ring of two packets is
sent in one piece, in two, and across the end; a range of 3 is the least that lets
`USB_Rx_ptr` pass the end of every packet and come round. Two timers suffice for one whose
callback changes the other, before and after its turn. Larger instances were run once
(`Preempted`, 4 calls, 2 events: 2 million states; 2 late answers: 30 million)
and hold, but for `AnswerKept` in the first.

**Fairness.** Always weak, and only of what the hardware and the loop guarantee.
`Eeprom`: the processor executes the function it has entered. `OtaUpdate`: the
main loop keeps calling event_loop, SysTick counts, the cloud answers *until it
stops* (`CloudStops` is not excluded by fairness). `WlanSupervisor`: `main`, the
chip's reports, the alarm and the watchdog; not user code, not the faults, which
are finite in number instead. Somebody eventually configures a Core that listens.
`Cc3000Driver`: `main`, enabled interrupts and the chip; a lost answer is made up
for by the timeout. `SparkSession`: the main loop, the cloud as long as the link
lets it, and time. `MqttDevice`: the loop of the application, broker and server,
and time; the server starts again after it has stopped. Liveness rests on the timeouts the code has, none is added.

**Deadlock** is checked in every run.

## What the code does differently from what is said of it

Shown by a run:

1. `eeprom_lost`. The constructor of `EEPROMClass` calls `EEPROM_Init` before it
   fills `EepromAddressTab`. A recovery therefore copies variable 0 a hundred
   times and erases the page with all the others. The comment of
   `EEPROM_ReadVariable` promises the last stored value.
2. `ota_short_last`. `FLASH_Update` divides the start of the sector by the length
   of the chunk that failed. For a shorter last chunk the index is too large, the
   device acknowledges instead of asking again, and the image is installed with
   erased cells.
3. `wlan_handshake`. `SPARK_CLOUD_CONNECTED = 1` follows `Spark_Handshake`,
   whatever the callback has cleared in the meantime. The next socket is taken
   for a session.

Stated in the modules, and false; change a cfg to see it:

- `Eeprom!InitRestoresPages` (a boot ends with one valid page and one erased) with
  `Slots = 5`, `MaxLoss = 3`, `Values <- OneValue`: interrupted recoveries fill
  the receiving page with copies, and no later boot gets past it.
- `ReadLastStored` with `MaxFail = 1`, `MaxLoss = 0`, `Slots = 4`: after a flash
  error in a transfer two pages are programmed, writes go to one and report
  success, reads use the other. `EEPROMClass::write` drops the status in any case.
- A page marked ERASED may hold old entries: power lost in the middle of an erase leaves
  them behind a blank header, and `EEPROM_Init` ignores a flash error when it erases
  the page again. The next transfer fills that page without looking at it. A variable
  the old page does not hold then takes on whatever is found there, a value of a write cut
  short, for instance. `OnlyCopyNeverErased` is therefore about the variables that the old
  page holds; with `Slots = 3`, `MaxLoss = 3`, `MaxFail = 1` and without that restriction
  it is false.
- `WlanSupervisor!ResetHappens` with `MaxFault <- LateEvent`: the reset that
  `RESET_ON_CFOD` asks for is requested while `SPARK_WLAN_STARTED` is clear, and
  waits for ever.
- `ListensDisconnected` with `ButtonOnce`: `WiFi.disconnect()` in
  `Start_Smart_Config` tests a flag its caller has just cleared.
- `WakesUp` with `EarlyAlarm` and `SleepCall`: an alarm before `main` has put the
  CC3000 to sleep leaves the Core off.
- `EndsConnected` with the fault *smartConfig*: `WLAN_SMART_CONFIG_START = 0` at
  the end of `WiFi.connect()` undoes the `listen()` of a connect that found no
  profile.
- A late DHCP event may leave `WLAN_DHCP` set for a chip that has been restarted,
  or arm the watchdog after `WiFi.disconnect()`. For this reason the runs that
  check `ReadyIsReal` and `StaysDisconnected` leave *late* out.

- `WlanSupervisor!ConnectScheduled` with `Calls <- OffAndCloud`: `WiFi.off()` leaves the flags by
  which `Spark.connect()` decides; the call does nothing, and the radio stays off.
- `Cc3000Driver!AnswerKept` with `Preempted = TRUE`: a comment in `hci_command_send`
  announces, before the write, that the opcode to wait for is updated; that happens
  after it, in `SimpleLinkWaitEvent`. An answer read in between is discarded.
- `SparkSession!LiveKept` with `BreakAndSlow`: a session that breaks off while it
  waits for the answer to a ping leaves `expecting_ping_ack` set. The next one,
  whose last message is old enough, is given up without a ping of its own.
- `SparkSession!AllRead` with *split*: `event_loop` reads the two bytes of a length
  with one call and takes a single byte for none, after which it pings or gives the
  session up as if nothing had come; the rest of the message is then taken for a
  length. Such a session may go on: `EndsInSession` counts it as one that lasts.
- `MqttDevice!EndsKnown` and `Agreed` with `Budgets <- ButtonLost`: `mqttLoop` sends
  SYN when it finds `BROKER_CONNECTED` clear, and only the end of `mqttLoop` clears it. If the
  connection breaks and a button makes a new one between two passes, no SYN follows, and
  device and server stay apart until one of them restarts.
- `MqttDevice!NotShownWithoutBroker`: losing the broker clears BROKER_CONNECTED
  and neither of the other two flags.
- `MqttDevice!LoopReturns` with `Truncating = TRUE`: `readByte` waits without a
  timeout for the rest of a packet, and goes on waiting when the connection dies.
- `MqttDevice!LiveKept` and `NeverStranded` with `Budgets <- Late`: the keep-alive is
  checked before the answer is read, so one `loop()` that is late by more than 5 s
  after a ping drops a connection that works. When one `recv` of the pass before has
  taken two packets, `stop()` leaves the second in the buffer: `connected()` stays true,
  every pass returns where the keep-alive fails, the timer of `mqttConnect` stays off,
  and the device never connects again (`StrandedForEver` proves the last).
- `MqttDevice!DeadNoticed` with two *late* and a *silent*: each late `loop()` adds a unit
  to the time a dead connection is taken for live.
- `TimersKept` with `Recycles = TRUE`: a callback on its last run that deletes its
  own timer and sets another gets the freed slot, and `run()` deletes the new one.
- `DisabledRests`: `run()` has decided which callbacks to call before it calls the
  first; one that disables another timer is too late.
- `GetsWholeEvent` with `Names` and `Filters <- Slashes`: `handle_received_message`
  joins the parts of a name in place for the first handler, and takes them apart
  again for the second, which finds the first part only and no data.
- The serial port over USB as a queue that loses nothing, `ToHost` and `FromHost` of
  `UsbSerial` with `Losses <- {}` and without the three exceptions: nothing stops
  `USB_USART_Send_Data` from overtaking the reader; equal pointers mean an empty ring,
  and a whole ring is lost. `USB_USART_Receive_Data` makes the endpoint ready before
  it has read the last byte, and two transfers between `USART_Rx_ptr_in++` and its wrap
  send the whole ring once more.

Seen in reading, not modelled: subscriptions are not sent again in a new session,
and `subscribe` keeps the handler of one that could not be sent; a lost SYN or
SYNACK is not repeated before the next connection; `begin()` after `end()` leaves
the buffers of the USART null; `send_event` counts attempts it turns down, so a
sketch that publishes every 200 ms sends four events and never another one; the
dispatch of events divides by the size of a pointer, not of an entry, and walks
past a full table (`ReceiveEvent` has that); `queue_pop`, which only tests call,
moves the front too far when it wraps; a button held for 7 s at the moment the Core stops
listening leaves `WLAN_DELETE_PROFILES` for the next time; `process()` runs after
a handshake that failed; the deadline of the WLAN watchdog is an absolute
`millis()` value and is off near the wrap after 49.7 days; a CHUNK without an
update is stored at the address left by the last one.

## Theorems

TLAPS proves the following for every value of the constants that the ASSUMEs allow. A
bound is an arbitrary natural number, so a theorem holds for any number of faults,
calls and messages. "Unless" names a hypothesis of the theorem.

| Theorem | States | Argument |
|---|---|---|
| `EepromProofs!TypeCorrect` | `Spec => []TypeOK` | `TypeOK` alone is not inductive: `idx` could run past `Size`. `LoopInv` bounds it at the places of the copy loops. `Lookup` chooses the highest slot with an address; `GreatestSlot`, by well-foundedness, says there is one |
| `EepromProofs!AlwaysReadable` | `Spec => []ReadableWhenIdle` | `HeaderInv`: at each place of the code which pages are marked valid, as long as no operation failed. A valid header is erased only when the other page is valid, or when a transfer's next operation marks it; a power loss falls back on `boot`, whose every case restores a page |
| `EepromProofs!CopiedBeforeErased` | `Spec => OnlyCopyNeverErased` | `ShapeInv`: which function is where, where the headers stand in it, and that pages fill from the bottom with at most the topmost entry torn. `CopyInv`: what the loop has passed reads the same from both pages. Flash errors leave both true, as a failed store ends the function |
| `EepromProofs!NothingStale` | `Spec => []NoStaleValue` | `FreshInv`: no page in use holds a replaced value; an erased page is blank once a boot is over (`BlankInv`); where two pages are in use and nothing moves, the page to write is full (`FullInv`), so no write completes that would make the other page stale |
| `EepromProofs!WritesSurvive` | `Spec => []DurableUnlessTransferHit` | `KeptInv`: while no loss has hit two programmed pages a valid page is whole, the new page of a transfer is whole from the moment the old one may be erased, and a boot formats only before the first write |
| `EepromProofs!PagesImplementStore` | `Spec => ImplementsStore`, unless power or flash fails | refinement by steps: `StepRefines` maps each action to Call, TakeEffect, Return or a stutter. `RoomInv` counts the slots of a transfer: one per variable passed and one for the variable written, so the assumption of as many slots as variables lets none run out of room |
| `OtaProofs!TypeCorrect` | `Spec => []TypeOK` | with the invariant of the next row, which bounds the counters |
| `OtaProofs!InStepAlways` | `Spec => []InStep` | Chunks have no number, so the argument is about the conversation: `TalkInv` says that on an open connection at most one message is under way, and that it is about the chunk at which both index and write address stand. `SectorStart` is the arithmetic of a back-off: a sector starts with a whole chunk, so index and address move to the same one |
| `OtaProofs!NothingMissingAlways`, `ImageIntactAlways` | `Spec => []NothingMissing`, `Spec => []ImageIntact`, unless the last chunk is short | `StoreInv`: every cell before the write address holds its chunk; the last chunk is acknowledged only when that is the whole image, and nothing touches it afterwards. With a short last chunk the second is false (`ota_short_last`) |
| `Cc3000Proofs!BusIsExclusive` | `Spec => []BusExclusive` | `WriteInv` adds where `main` is between the two halves of a write: it may start a transfer there without looking at the SPI state, because no transfer is in progress and no interrupt leaves the state of a write. One lemma for each actor |
| `Cc3000AnswerProofs!TypeCorrect` | `Spec => []TypeOK` | the queues of the chip grow without looking at their length; `QueueInv` counts what they hold against the calls made, `CreditInv` says where every buffer is |
| `Cc3000AnswerProofs!BuffersAreConserved` | `Spec => []BuffersConserved` | `CreditInv` over queues of packets: `Count` of a queue after Append, Tail and after the loop of `hci_unsolicited_event_handler`, through cardinalities; between ReadCredit and CompareAndSwap what `main` has read may be old, and the swap then fails |
| `Cc3000AnswerProofs!AnswerIsKept` | `Spec => []AnswerKept`, unless `main` is preempted | `PlaceInv`: which place of `main` goes with which command, packet and interrupt state; `KeptInv`: an answer comes when `main` waits for it |
| `Cc3000AnswerProofs!AnswersAlwaysMatch` | `Spec => []AnswersMatch`, unless preempted | `PunctualInv`: while no wait has timed out early, everything under way, in either direction and in the buffer, is about the present call |
| `Cc3000AnswerProofs!UnreadIsKept` | `Spec => []UnreadKept`, unless preempted | there is one receive buffer: the interrupt is paused exactly while a packet in it waits for `main` (`ReadInv`) |
| `SessionProofs!TypeCorrect` | `Spec => []TypeOK` | |
| `SessionProofs!DeathIsNoticed` | `Spec => []DeadNoticed` | `SilenceInv` bounds the silence by the age of the last message and the place of the thread: the phases before the ping, of the wait, of `blocking_receive` follow each other and none starts again |
| `SessionProofs!KeysInStep` | `Spec => []InStep` | `HandshakeInv`: one message at a time and in which direction; `ChainInv`: from `set_key` on, what is under way to the cloud is encrypted with key and vector that the cloud expects, in order. A message left over from an earlier session cannot be: sockets are made afresh |
| `MqttProofs!TypeCorrect` | `Spec => []TypeOK` | |
| `MqttProofs!DeathIsNoticed` | `Spec => []DeadNoticed`, unless packets come in pieces or `loop()` is late more than once, and but for a client stranded by `stop()` | `PassInv`: a pass leaves a connection on which something came, or a ping went out, within the keep-alive; `SilenceInv` adds up the two periods |
| `MqttProofs!StrandedForEver` | `Spec => StaysStranded` | `StrandInv`: where a client without a socket still has a packet, all it has is in the buffer, a ping is outstanding and the last packet read is older than the keep-alive: every pass ends before it reads, and `mqttConnect` finds the client connected |
| `MqttProofs!KeepAliveInTime` | `Spec => KeptInTime`, unless `loop()` is late more than once | `TimeInv`: while no `loop()` has been late, an unanswered ping on a live connection is younger than a unit, and it or its answer is under way; a connection that is lost and whose ping is older has nothing left to read |
| `MqttProofs!DeviceAndServerAgree` | `Spec => []Agreed`, unless a button connects | about a connection that is up. `SubscribedInv`: each subscription is with the broker, or under way with a SYN after it. `WillInv`: after the will of an earlier connection comes a SYN of this one. `LeaveInv`: after a *disconnect* of the server comes its *connect*. `ExchangeInv`, which follows from the three step by step: a server that is up has the device's word and the device knows, or SYN, SYNACK, ACK or the broadcast that asks for SYN is under way. When nothing is, both are connected: `Agreed` never holds by both being wrong. `SynDueInv` is where the button comes in: no connection without a SYN to come |
| `WlanProofs!TypeCorrect` | `Spec => []TypeOK` | |
| `WlanProofs!DhcpIsReal`, `GivenUpForGood` | `Spec => []ReadyIsReal`, `Spec => []StaysDisconnected`, unless an event or the alarm falls into a restart of the chip | `WiFiInv`: `DhcpInv`, a set WLAN_DHCP means a started chip that reported its connection; `GivenUpInv`, after a disconnect the chip neither connects by itself nor is watched; `ReportedInv`, a chip that has joined or lost an access point has said so |
| `LibraryProofs!TypeCorrect` | `Spec => []TypeOK` | per library, `OneLibrary` joins them |
| `LibraryProofs!TimersAlwaysKept` | `Spec => []TimersKept`, unless a callback recycles its own slot in its last run | `TimerInv`: `numRuns` counts the calls decided upon, all made but those pending in this pass; a slot is to be deleted after its last run only |
| `LibraryProofs!NeverMoreThanFour` | `Spec => []AtMostFour` | `AttemptInv`: the last *k* attempts are no older than the last *k* events sent, for *k* up to 4; attempts turned down and wraps only make them younger |
| `LibraryProofs!UsartIsQueue`, `UsbIsQueue`, `SerialImplementsQueue` | `Spec => SerialIsQueue`, both ports together, without a hypothesis: the exceptions are in the property | refinement by steps. `Contents` of a ring is a sequence indexed modulo its size; lemmas say what moving the head, the tail or both does to it. `WriterInv` and `PointerInv` cover the instants at which an index is past the end or a slot is filled and not counted; each step of `main` or of an interrupt is a Put, a Get, one of the losses or a stutter of the queue, or begins in one of the states excepted |

Each hypothesis is a constant of the module, and its negation is listed above, under
*What the code does differently*, as the circumstance in which the property is false:
`ShortLast`, `Preempted`, `Truncating` and a second *late*, *button*, *late* and *early* events,
`Recycles`. The hypotheses of
`PagesImplementStore` are those of the run it generalises; what faults do to the EEPROM
is the subject of the three theorems before it.

**Assumptions.** Those of the modules, which TLC evaluates in every run:
`SizeAssumption`, `SlotsAssumption` (a page has at least as many slots as there are
variables; weaker than the code's 255 for 100), `BlankAssumption` (no value is the one
that stands for none); `ChunkAssumption`; `ModeAssumption`, `CallAssumption`;
`EventAssumption` (the clock wraps after more than four units), `UsartAssumption`,
`UsbAssumption` (a ring has at least two cells, a packet at least one),
`TimerAssumption`; and the `BoundAssumption` of each module, by which bounds are natural
numbers. Besides TLAPS the proofs cite the library's `FiniteSetTheorems`,
`FunctionTheorems`, `SequenceTheorems` and `WellFoundedInduction`.

**What the proofs changed.** Attempting them showed where the modules were wrong or could
not be reasoned about. `OnlyCopyNeverErased` was false outside its run (see above).
`Cc3000Driver!TypeOK` bounded the outbox too tightly for many events. `EventDispatch!TypeOK`
leaves it to `AtMostFour` how many events are sent.

**Only model-checked.** Liveness under fairness is out of the prover's reach:
`CallsReturn` (both), `ChipServed`, `EndsConnected`, `WakesUp`,
`UserCodeResumes`, `UpdateCompletes`, `EndsInSession`, `EndsKnown`. So is what depends on
ENABLED. Every invariant and every safety property that a passing run checks has a
theorem.

## What is not modelled

- Within modelled components: `wlan_stop` (`SpiClose` clears the receive pointer
  while a read may be under way), patches of the CC3000, the socket calls with
  the shape of `socket`; the installation of an image by the boot loader;
  `WLAN_MANUAL_CONNECT`, which is compiled to 0; the LED; mDNS.
- The CC3000, the cloud, the access point and the STM32 are external: modelled
  from how the code uses them. The data timeout of `recv` ends in a panic, as in
  the code; nothing is claimed of it.
- `UsartSerial`: begin, end and flush; a write by an interrupt that comes inside
  the USART's own, or inside another write. `UsbSerial`: enumeration; the device is
  configured.
- System flags: `FLASH_End` erases and rewrites their page, and a power loss in
  between loses the cloud and factory flags with the OTA flag. What a lost flag
  means is decided by the boot loader, another repository.
- The tables of functions and variables (they grow, and are looked up by name),
  TCPServer and UDP, the byte queues of `SparkProtocol` (only tests call them).
- Components not modelled are listed with reasons in `PROJECT.json`. Vendor code
  (CMSIS, StdPeriph, USB, tropicssl, UnitTest++, Catch), descriptors and build
  scripts are left out for good, and so are sequential wrappers of registers
  (I2C, SPI, servo, tone, the chips of the device components).

## Plan

The components with state and concurrency of their own are modelled, and their safety
properties proved. What is left:

1. The smallest set of hypotheses for the theorems that have some: which of *late* and
   *early* each of the two `WlanProofs` theorems needs; `AnswersAlwaysMatch` with a
   preempted `main`; `DeviceAndServerAgree` with a button on a connection that stays.
2. `ReadLastStored` of `Eeprom` when the address table is full before `EEPROM_Init` runs,
   as a statement about the repaired constructor.
3. `wlan_stop` in `Cc3000Driver`, whose proofs have to follow.
