----------------------------- MODULE OtaUpdate -----------------------------
(***************************************************************************)
(* Over-the-air firmware update: the UPDATE_BEGIN, CHUNK and UPDATE_DONE   *)
(* handlers and the chunk timeout of SparkProtocol, the callbacks of       *)
(* spark_utilities.cpp, the FLASH_Begin/Update/End functions of            *)
(* hw_config.c and the flash-update watchdog of the SysTick handler,       *)
(* against a cloud that sends one chunk at a time and a TCP connection     *)
(* that may break.                                                         *)
(*                                                                         *)
(* A CHUNK message carries no index: the device stores whatever arrives at *)
(* its write address.  Addresses count halves of a chunk.  One unit of     *)
(* time is 3 seconds, the chunk timeout.                                   *)
(***************************************************************************)
EXTENDS Integers, Sequences, FiniteSets, SequencesExt

CONSTANTS
  NumChunks,     \* chunks of the image
  ChunksPerPage, \* chunks in a sector of the external flash
  ShortLast,     \* the last chunk is half a chunk long
  WatchdogTicks, \* TIMING_FLASH_UPDATE_TIMEOUT / 3 s
  MaxBad,        \* bound: chunks damaged on the way (CRC mismatch)
  MaxDrop,       \* bound: chunks that never reach the device
  MaxMiswrite,   \* bound: writes to the external flash that do not verify
  MaxBreak,      \* bound: broken connections
  MaxSilent      \* bound: times the cloud stops answering on an open connection

ASSUME ChunkAssumption ==
  NumChunks \in Nat \ {0} /\ ChunksPerPage \in Nat \ {0} /\ ShortLast \in BOOLEAN
ASSUME OtaBoundAssumption ==
  /\ WatchdogTicks \in Nat \ {0}
  /\ MaxBad \in Nat /\ MaxDrop \in Nat /\ MaxMiswrite \in Nat /\ MaxBreak \in Nat
  /\ MaxSilent \in Nat

VARIABLES
  linked,       \* SPARK_CLOUD_SOCKETED and CONNECTED
  updating,     \* SparkProtocol::updating
  chunkIndex,   \* SparkProtocol::chunk_index
  sinceChunk,   \* time since last_chunk_millis, 0 .. 1
  flashUpdate,  \* SPARK_FLASH_UPDATE
  sinceSave,    \* TimingFlashUpdateTimeout
  address,      \* External_Flash_Address
  updateIndex,  \* Flash_Update_Index
  flash,        \* the OTA area of the external flash
  otaFlag,      \* FLASH_OTA_Update_SysFlag = 0x0005: the boot loader installs
  toDevice, toCloud,   \* the two directions of the connection
  cloud,        \* what the cloud waits for
  next,         \* the chunk the cloud has sent last
  faults        \* faults so far, by kind

device == <<linked, updating, chunkIndex, sinceChunk, flashUpdate, sinceSave,
            address, updateIndex, flash, otaFlag>>
vars   == <<device, toDevice, toCloud, cloud, next, faults>>

Kinds  == {"bad", "drop", "miswrite", "break", "silent"}
Bound  == [bad |-> MaxBad, drop |-> MaxDrop, miswrite |-> MaxMiswrite,
           break |-> MaxBreak, silent |-> MaxSilent]
Fault(k) == faults[k] < Bound[k] /\ faults' = [faults EXCEPT ![k] = @ + 1]

Chunks     == 0 .. NumChunks - 1
Size(n)    == IF ShortLast /\ n = NumChunks - 1 THEN 1 ELSE 2
PageSize   == 2 * ChunksPerPage
PageOf(a)  == (a \div PageSize) * PageSize
Units      == 0 .. PageOf(2 * NumChunks) + PageSize - 1
Erased     == -1
Garbage    == -2
Content(n, j)  == 2 * n + j
ErasedFlash    == [u \in Units |-> Erased]
EraseSector(f, p) == [u \in Units |-> IF PageOf(u) = p THEN Erased ELSE f[u]]

Begin        == [type |-> "begin"]
Chunk(n, ok) == [type |-> "chunk", n |-> n, ok |-> ok]
Done         == [type |-> "done"]
Ready        == [type |-> "ready"]
Received(ok) == [type |-> "received", ok |-> ok]
Missed(i)    == [type |-> "missed", i |-> i]
DoneAck      == [type |-> "doneAck"]

Init ==
  /\ linked = TRUE
  /\ updating = FALSE /\ chunkIndex = 0 /\ sinceChunk = 0
  /\ flashUpdate = FALSE /\ sinceSave = 0
  /\ address = 0 /\ updateIndex = 0
  /\ flash = ErasedFlash /\ otaFlag = FALSE
  /\ toDevice = <<>> /\ toCloud = <<>>
  /\ cloud = "idle" /\ next = 0
  /\ faults = [k \in Kinds |-> 0]

-----------------------------------------------------------------------------
(* The device *)

ReceiveBegin ==
  /\ linked /\ toDevice # <<>> /\ Head(toDevice) = Begin
  /\ flashUpdate' = TRUE /\ sinceSave' = 0
  /\ address' = 0 /\ updateIndex' = 0 /\ flash' = ErasedFlash
  /\ sinceChunk' = 0 /\ chunkIndex' = 0 /\ updating' = TRUE
  /\ toDevice' = Tail(toDevice) /\ toCloud' = Append(toCloud, Ready)
  /\ UNCHANGED <<linked, otaFlag, cloud, next, faults>>

\* FLASH_Update: the cells of a chunk of n's length at the write address, and what
\* they hold after n is programmed there.  A cell that is not erased is spoilt.
Target(n) == address .. address + Size(n) - 1

Programmed(n) ==
  [u \in Units |->
     IF u \notin Target(n) THEN flash[u]
     ELSE IF flash[u] \in {Erased, Content(n, u - address)}
       THEN Content(n, u - address) ELSE Garbage]

Misprogrammed(n) == [Programmed(n) EXCEPT ![address] = Garbage]

Verified(n, f) ==
  \A u \in Target(n) : u \in Units /\ f[u] = Content(n, u - address)

\* Mutant: a back-off to the same chunk counts as progress.
BugAnswerEqual(i) == IF i >= chunkIndex THEN Received(TRUE) ELSE Missed(i)

\* The next chunk acknowledges this one, any other is asked for.
Answer(i) == IF i > chunkIndex THEN Received(TRUE) ELSE Missed(i)

SaveChunk(n, f) ==
  /\ flash' = f
  /\ address' = address + Size(n) /\ updateIndex' = updateIndex + 1

\* Mutant: the sector is not erased before its chunks are asked for again.
BugBackOffNoErase(n, f) ==
  /\ address' = PageOf(address)
  /\ flash' = f
  /\ updateIndex' = PageOf(address) \div Size(n)

\* Mutant: the sector is erased, but only the chunk that failed is asked for again.
BugBackOffOne(n, f) ==
  /\ address' = address
  /\ flash' = EraseSector(f, PageOf(address))
  /\ updateIndex' = updateIndex

\* Mutant: one chunk too many is asked for.
BugBackOffBefore(n, f) ==
  /\ address' = PageOf(address)
  /\ flash' = EraseSector(f, PageOf(address))
  /\ updateIndex' = PageOf(address) \div Size(n) - 1

\* Mutant: the write address stays where it was.
BugBackOffAddress(n, f) ==
  /\ address' = address
  /\ flash' = EraseSector(f, PageOf(address))
  /\ updateIndex' = PageOf(address) \div Size(n)

BackOff(n, f) ==
  /\ address' = PageOf(address)
  /\ flash' = EraseSector(f, PageOf(address))
  /\ updateIndex' = PageOf(address) \div Size(n)

FlashUpdate(n, f) == IF Verified(n, f) THEN SaveChunk(n, f) ELSE BackOff(n, f)

ReceiveChunk(n) ==
  /\ linked /\ toDevice # <<>> /\ Head(toDevice) = Chunk(n, TRUE)
  /\ sinceChunk' = 0 /\ sinceSave' = 0
  /\ \/ FlashUpdate(n, Programmed(n)) /\ UNCHANGED faults
     \/ FlashUpdate(n, Misprogrammed(n)) /\ Fault("miswrite")
  /\ chunkIndex' = updateIndex'
  /\ toCloud' = Append(toCloud, Answer(updateIndex'))
  /\ toDevice' = Tail(toDevice)
  /\ UNCHANGED <<linked, updating, flashUpdate, otaFlag, cloud, next>>

ReceiveDamaged(n) ==
  /\ linked /\ toDevice # <<>> /\ Head(toDevice) = Chunk(n, FALSE)
  /\ sinceChunk' = 0
  /\ toDevice' = Tail(toDevice) /\ toCloud' = Append(toCloud, Received(FALSE))
  /\ UNCHANGED <<linked, updating, chunkIndex, flashUpdate, sinceSave, address,
                 updateIndex, flash, otaFlag, cloud, next, faults>>

\* RAM and the connection are gone; static data starts from zero.
Reset ==
  /\ linked' = FALSE /\ updating' = FALSE /\ chunkIndex' = 0 /\ sinceChunk' = 0
  /\ flashUpdate' = FALSE /\ sinceSave' = 0 /\ address' = 0 /\ updateIndex' = 0
  /\ toDevice' = <<>>

\* The acknowledgement is under way when the device restarts.
ReceiveDone ==
  /\ linked /\ toDevice # <<>> /\ Head(toDevice) = Done
  /\ otaFlag' = TRUE /\ Reset
  /\ toCloud' = Append(toCloud, DoneAck)
  /\ UNCHANGED <<flash, cloud, next, faults>>

\* event_loop finds nothing to read and 3 seconds have passed.
ChunkTimeout ==
  /\ linked /\ toDevice = <<>> /\ updating /\ sinceChunk = 1
  /\ sinceChunk' = 0
  /\ toCloud' = Append(toCloud, Missed(chunkIndex))
  /\ UNCHANGED <<linked, updating, chunkIndex, flashUpdate, sinceSave, address,
                 updateIndex, flash, otaFlag, toDevice, cloud, next, faults>>

\* Mutant: the watchdog only looks after updates whose connection is gone.
BugWatchdogOffline ==
  /\ ~linked /\ flashUpdate /\ sinceSave >= WatchdogTicks
  /\ Reset /\ toCloud' = <<>>
  /\ cloud' = "idle" /\ next' = 0
  /\ UNCHANGED <<flash, otaFlag, faults>>

\* "Reset is the only way now to recover from stuck OTA update"
Watchdog ==
  /\ flashUpdate /\ sinceSave >= WatchdogTicks
  /\ Reset /\ toCloud' = <<>>
  /\ cloud' = "idle" /\ next' = 0
  /\ UNCHANGED <<flash, otaFlag, faults>>

\* Spark_Handshake on a new connection.  The cloud starts over, unless the
\* device has acknowledged the whole image.
Connect ==
  /\ ~linked /\ linked' = TRUE
  /\ updating' = FALSE
  /\ toDevice' = <<>> /\ toCloud' = <<>>
  /\ cloud' = (IF cloud = "complete" \/ DoneAck \in ToSet(toCloud)
                 THEN "complete" ELSE "idle")
  /\ next' = 0
  /\ UNCHANGED <<chunkIndex, sinceChunk, flashUpdate, sinceSave, address,
                 updateIndex, flash, otaFlag, faults>>

-----------------------------------------------------------------------------
(* The cloud: one chunk at a time, whichever the device asks for *)

Waiting == linked /\ toDevice = <<>>

CloudBegin ==
  /\ Waiting /\ cloud = "idle"
  /\ cloud' = "begun" /\ toDevice' = <<Begin>>
  /\ UNCHANGED <<device, toCloud, next, faults>>

\* A chunk is sent, damaged on the way, or lost.
SendChunk(n) ==
  /\ next' = n
  /\ \/ toDevice' = <<Chunk(n, TRUE)>> /\ UNCHANGED faults
     \/ toDevice' = <<Chunk(n, FALSE)>> /\ Fault("bad")
     \/ toDevice' = <<>> /\ Fault("drop")

CloudReady ==
  /\ Waiting /\ cloud = "begun" /\ toCloud # <<>> /\ Head(toCloud) = Ready
  /\ cloud' = "sending" /\ toCloud' = Tail(toCloud)
  /\ SendChunk(0)
  /\ UNCHANGED device

CloudAdvance ==
  /\ Waiting /\ cloud = "sending"
  /\ toCloud # <<>> /\ Head(toCloud) = Received(TRUE)
  /\ toCloud' = Tail(toCloud)
  /\ IF next + 1 < NumChunks
       THEN SendChunk(next + 1) /\ UNCHANGED cloud
       ELSE cloud' = "finishing" /\ toDevice' = <<Done>> /\ UNCHANGED <<next, faults>>
  /\ UNCHANGED device

CloudResend ==
  /\ Waiting /\ cloud = "sending" /\ toCloud # <<>>
  /\ \/ Head(toCloud) = Received(FALSE) /\ SendChunk(next)
     \/ \E i \in Chunks : Head(toCloud) = Missed(i) /\ SendChunk(i)
  /\ toCloud' = Tail(toCloud)
  /\ UNCHANGED <<device, cloud>>

-----------------------------------------------------------------------------
(* Time and the connection *)

\* Messages are on their way for less than a unit of time.
Tick ==
  /\ linked => /\ toDevice = <<>> /\ cloud # "idle"
               /\ toCloud = <<>> \/ cloud = "gone"
  /\ (updating /\ linked) => sinceChunk = 0
  /\ flashUpdate => sinceSave < WatchdogTicks
  /\ sinceChunk' = 1
  /\ sinceSave' = IF flashUpdate THEN sinceSave + 1 ELSE sinceSave
  /\ UNCHANGED <<linked, updating, chunkIndex, flashUpdate, address, updateIndex,
                 flash, otaFlag, toDevice, toCloud, cloud, next, faults>>

\* event_loop fails; SparkClass::process drops the connection.
Break ==
  /\ linked /\ Fault("break")
  /\ linked' = FALSE /\ flashUpdate' = FALSE
  /\ toDevice' = <<>> /\ toCloud' = <<>>
  /\ UNCHANGED <<updating, chunkIndex, sinceChunk, sinceSave, address,
                 updateIndex, flash, otaFlag, cloud, next>>

\* The cloud stops answering in the middle of an update; the connection stays open.
CloudStops ==
  /\ linked /\ cloud \in {"begun", "sending"} /\ Fault("silent")
  /\ cloud' = "gone"
  /\ UNCHANGED <<device, toDevice, toCloud, next>>

-----------------------------------------------------------------------------
Receive == \/ ReceiveBegin \/ ReceiveDone
           \/ \E n \in Chunks : ReceiveChunk(n) \/ ReceiveDamaged(n)

Device == Receive \/ ChunkTimeout \/ Watchdog \/ Connect

Cloud == \/ CloudBegin \/ CloudReady \/ CloudAdvance \/ CloudResend

Next == Device \/ Cloud \/ Tick \/ Break \/ CloudStops

Spec == Init /\ [][Next]_vars

\* The main loop keeps calling event_loop, SysTick keeps counting and the cloud
\* answers until it stops; how often anything fails is bounded.
FairSpec == Spec /\ WF_vars(Device) /\ WF_vars(Cloud) /\ WF_vars(Tick)
-----------------------------------------------------------------------------
(* Properties *)

TypeOK ==
  /\ linked \in BOOLEAN /\ updating \in BOOLEAN /\ flashUpdate \in BOOLEAN
  /\ otaFlag \in BOOLEAN
  /\ chunkIndex \in Nat /\ updateIndex \in Nat /\ address \in Nat
  /\ sinceChunk \in {0, 1} /\ sinceSave \in 0 .. WatchdogTicks
  /\ flash \in [Units -> {Erased, Garbage} \cup 0 .. 2 * NumChunks - 1]
  /\ toDevice \in Seq({Begin, Done} \cup [type : {"chunk"}, n : Chunks, ok : BOOLEAN])
  /\ toCloud \in Seq({Ready, DoneAck} \cup [type : {"received"}, ok : BOOLEAN]
                        \cup [type : {"missed"}, i : Nat])
  /\ cloud \in {"idle", "begun", "sending", "finishing", "complete", "gone"}
  /\ next \in Chunks
  /\ faults \in [Kinds -> Nat]

Stored(n) == \A j \in 0 .. Size(n) - 1 : flash[2 * n + j] = Content(n, j)

\* Chunks carry no number: a chunk that arrives is the one the write address of
\* FLASH_Update stands at, after any sequence of damage, loss, repeated requests,
\* back-offs to a sector start and new connections.
InStep ==
  \A n \in Chunks, ok \in BOOLEAN :
    Chunk(n, ok) \in ToSet(toDevice) => updateIndex = n /\ address = 2 * n

\* Whatever the device no longer asks for is in the external flash, byte for byte:
\* backing off never leaves a hole behind chunk_index.
NothingMissing ==
  updating /\ linked => \A n \in Chunks : n < chunkIndex => Stored(n)

\* When FLASH_End tells the boot loader to install the OTA area, the area holds the
\* whole image; UPDATE_DONE itself checks nothing.
ImageIntact == otaFlag => \A n \in Chunks : Stored(n)

\* User code, which main skips while SPARK_FLASH_UPDATE is set, runs again even
\* when the cloud stops answering on an open connection.
UserCodeResumes == flashUpdate ~> ~flashUpdate

\* The image is installed in the end, each failure costing a retry at most.
UpdateCompletes == <>otaFlag
=============================================================================
