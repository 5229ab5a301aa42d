----------------------------- MODULE OtaProofs -----------------------------
(***************************************************************************)
(* Theorems about OtaUpdate, for images and sectors of any size and any    *)
(* number of faults.                                                       *)
(***************************************************************************)
EXTENDS OtaUpdate, TLAPS

-----------------------------------------------------------------------------
(* The sector a chunk lies in.                                              *)

\* What \div returns.
LEMMA Division ==
  ASSUME NEW a \in Nat, NEW b \in Nat \ {0}
  PROVE  /\ a \div b \in Nat
         /\ b * (a \div b) <= a /\ a < b * (a \div b) + b
  OBVIOUS

\* A sector starts with a whole chunk.
LEMMA SectorStart ==
  ASSUME NEW n \in Nat
  PROVE  \E k \in Nat : /\ PageOf(2 * n) = 2 * k /\ k <= n
                        /\ 2 * k <= n => k = 0
<1> DEFINE q == (2 * n) \div (2 * ChunksPerPage)
           k == ChunksPerPage * q
<1>1. ChunksPerPage \in Nat \ {0} /\ 2 * n \in Nat /\ 2 * ChunksPerPage \in Nat \ {0}
  BY ChunkAssumption
<1>2. /\ q \in Nat
      /\ (2 * ChunksPerPage) * q <= 2 * n
      /\ 2 * n < (2 * ChunksPerPage) * q + 2 * ChunksPerPage
  BY <1>1, Division
<1> HIDE DEF q
<1>3. k \in Nat /\ (2 * ChunksPerPage) * q = 2 * k /\ q * (2 * ChunksPerPage) = 2 * k
  BY <1>1, <1>2
<1>4. 2 * k <= 2 * n /\ 2 * n < 2 * k + 2 * ChunksPerPage
  BY <1>2, <1>3
<1>5. q >= 1 => k >= ChunksPerPage
  BY <1>1, <1>2
<1>6. q = 0 => k = 0
  BY <1>1
<1>7. PageOf(2 * n) = 2 * k
  BY <1>3 DEF PageOf, PageSize, q
<1> HIDE DEF k
<1>8. k <= n /\ (2 * k <= n => k = 0)
  BY <1>1, <1>2, <1>3, <1>4, <1>5, <1>6
<1>9. QED
  BY <1>3, <1>7, <1>8

-----------------------------------------------------------------------------
(* At most one message is under way, and it is about the chunk that the     *)
(* write address stands at.                                                 *)

At(i) == chunkIndex = i /\ updateIndex = i /\ address = 2 * i

Silent       == toDevice = <<>> /\ toCloud = <<>>
OnlyDown(m)  == toDevice = <<m>> /\ toCloud = <<>>
OnlyUp(m)    == toDevice = <<>> /\ toCloud = <<m>>

Sending ==
  \/ Silent /\ At(next)
  \/ \E ok \in BOOLEAN : OnlyDown(Chunk(next, ok)) /\ At(next)
  \/ OnlyUp(Received(FALSE)) /\ At(next)
  \/ OnlyUp(Received(TRUE)) /\ (next + 1 < NumChunks => At(next + 1))
  \/ \E i \in Chunks : OnlyUp(Missed(i)) /\ At(i)

Gone ==
  \/ toDevice \in {<<>>, <<Begin>>}
  \/ \E ok \in BOOLEAN : toDevice = <<Chunk(next, ok)>> /\ At(next)

TalkInv ==
  /\ ~linked => toDevice = <<>>
  /\ linked /\ cloud = "idle" => Silent /\ ~updating
  /\ linked /\ cloud = "begun" => OnlyDown(Begin) \/ (OnlyUp(Ready) /\ At(0))
  /\ linked /\ cloud = "sending" => Sending
  /\ linked /\ cloud = "finishing" => OnlyDown(Done)
  /\ linked /\ cloud = "complete" => toDevice = <<>>
  /\ linked /\ cloud = "gone" => Gone
  /\ linked /\ toCloud # <<>> => sinceChunk = 0 \/ cloud = "gone"

Counters ==
  /\ next \in Chunks /\ chunkIndex \in Nat /\ updateIndex \in Nat /\ address \in Nat
  /\ cloud \in {"idle", "begun", "sending", "finishing", "complete", "gone"}
  /\ linked \in BOOLEAN /\ updating \in BOOLEAN

StepInv == Counters /\ TalkInv

LEMMA OneMessage ==
  ASSUME NEW m
  PROVE  /\ Head(<<m>>) = m /\ Tail(<<m>>) = <<>> /\ <<m>> # <<>>
         /\ Append(<<>>, m) = <<m>>
         /\ ToSet(<<m>>) = {m}
<1>1. Head(<<m>>) = m /\ Tail(<<m>>) = <<>> /\ <<m>> # <<>> /\ Append(<<>>, m) = <<m>>
  OBVIOUS
<1>2. ToSet(<<m>>) = {m}
  BY DEF ToSet
<1>3. QED
  BY <1>1, <1>2

LEMMA SameMessage == \A a, b : <<a>> = <<b>> => a = b
  OBVIOUS

LEMMA Down ==
  /\ Begin # Done
  /\ \A n, ok : Begin # Chunk(n, ok) /\ Done # Chunk(n, ok)
  /\ \A n1, n2, ok1, ok2 : Chunk(n1, ok1) = Chunk(n2, ok2) => n1 = n2 /\ ok1 = ok2
<1>1. Begin.type = "begin" /\ Done.type = "done"
  BY DEF Begin, Done
<1>2. \A n, ok : /\ Chunk(n, ok).type = "chunk"
                 /\ Chunk(n, ok).n = n /\ Chunk(n, ok).ok = ok
  BY DEF Chunk
<1> HIDE DEF Begin, Done, Chunk
<1>3. QED
  BY <1>1, <1>2

LEMMA Up ==
  /\ \A ok, i : Ready # Received(ok) /\ Ready # Missed(i) /\ Received(ok) # Missed(i)
  /\ \A i, j : Missed(i) = Missed(j) => i = j
  /\ Received(TRUE) # Received(FALSE)
<1>1. Ready.type = "ready"
  BY DEF Ready
<1>2. \A ok : Received(ok).type = "received" /\ Received(ok).ok = ok
  BY DEF Received
<1>3. \A i : Missed(i).type = "missed" /\ Missed(i).i = i
  BY DEF Missed
<1>4. \A ok, i : Ready # Received(ok) /\ Ready # Missed(i) /\ Received(ok) # Missed(i)
  BY <1>1, <1>2, <1>3
<1>5. \A i, j : Missed(i) = Missed(j) => i = j
  BY <1>3
<1>6. Received(TRUE).ok # Received(FALSE).ok
  BY DEF Received
<1>7. QED
  BY <1>4, <1>5, <1>6

LEMMA InitStep == Init => StepInv
<1> SUFFICES ASSUME Init PROVE StepInv
  OBVIOUS
<1>1. 0 \in Chunks
  BY ChunkAssumption DEF Chunks
<1>2. linked \in BOOLEAN /\ updating \in BOOLEAN
  BY DEF Init
<1>3. Counters
  BY <1>1, <1>2 DEF Init, Counters
<1>4. TalkInv
  BY DEF Init, TalkInv, Silent
<1>5. QED
  BY <1>3, <1>4 DEF StepInv

\* What the device can find at the head of its queue, and what the cloud waits for
\* then.
LEMMA DownStage ==
  ASSUME StepInv, linked, toDevice # <<>>
  PROVE  /\ Tail(toDevice) = <<>>
         /\ cloud # "gone" => toCloud = <<>>
         /\ \/ Head(toDevice) = Begin /\ cloud \in {"begun", "gone"}
            \/ /\ cloud \in {"sending", "gone"} /\ At(next)
               /\ \E ok \in BOOLEAN : Head(toDevice) = Chunk(next, ok)
            \/ Head(toDevice) = Done /\ cloud = "finishing"
<1>1. cloud \in {"begun", "sending", "finishing", "gone"}
  BY DEF StepInv, TalkInv, Counters, Silent
<1>2. CASE cloud = "begun"
  BY <1>2, OneMessage DEF StepInv, TalkInv, OnlyDown, OnlyUp
<1>3. CASE cloud = "sending"
  BY <1>3, OneMessage DEF StepInv, TalkInv, Sending, Silent, OnlyDown, OnlyUp
<1>4. CASE cloud = "finishing"
  BY <1>4, OneMessage DEF StepInv, TalkInv, OnlyDown
<1>5. CASE cloud = "gone"
  BY <1>5, OneMessage DEF StepInv, TalkInv, Gone
<1>6. QED
  BY <1>1, <1>2, <1>3, <1>4, <1>5

LEMMA BeginStep == StepInv /\ ReceiveBegin => StepInv'
<1> SUFFICES ASSUME StepInv, ReceiveBegin PROVE StepInv'
  OBVIOUS
<1>1. /\ linked /\ toDevice # <<>> /\ Head(toDevice) = Begin
      /\ UNCHANGED <<linked, cloud, next>>
      /\ updating' = TRUE /\ sinceChunk' = 0
      /\ chunkIndex' = 0 /\ updateIndex' = 0 /\ address' = 0
      /\ toDevice' = Tail(toDevice) /\ toCloud' = Append(toCloud, Ready)
  BY DEF ReceiveBegin
<1>2. /\ cloud \in {"begun", "gone"} /\ toDevice' = <<>>
      /\ cloud = "begun" => toCloud = <<>>
  BY <1>1, DownStage, Down
<1>3. Counters'
  BY <1>1 DEF StepInv, Counters
<1>4. At(0)'
  BY <1>1 DEF At
<1>5. cloud = "begun" => OnlyUp(Ready)'
  BY <1>1, <1>2, OneMessage DEF OnlyUp
<1>6. TalkInv'
  BY <1>1, <1>2, <1>4, <1>5 DEF TalkInv, Gone
<1>7. QED
  BY <1>3, <1>6 DEF StepInv

\* Storing a chunk or backing off, FLASH_Update leaves index and address together,
\* unless it was the last chunk: of a short one the index may be too large, and is
\* then past the image.
LEMMA FlashIndex ==
  ASSUME NEW n \in Chunks, NEW f, At(n), FlashUpdate(n, f)
  PROVE  /\ updateIndex' \in Nat /\ address' \in Nat
         /\ updateIndex' > n /\ n + 1 < NumChunks =>
              updateIndex' = n + 1 /\ address' = 2 * (n + 1)
         /\ updateIndex' <= n => address' = 2 * updateIndex'
<1>1. n \in Nat /\ n < NumChunks /\ NumChunks \in Nat
  BY ChunkAssumption DEF Chunks
<1>2. Size(n) \in {1, 2} /\ (n + 1 < NumChunks => Size(n) = 2)
  BY <1>1 DEF Size
<1>3. CASE SaveChunk(n, f)
  BY <1>1, <1>2, <1>3 DEF SaveChunk, At
<1>4. CASE BackOff(n, f)
  <2>1. address' = PageOf(2 * n) /\ updateIndex' = PageOf(2 * n) \div Size(n)
    BY <1>4 DEF BackOff, At
  <2>2. PICK k \in Nat : PageOf(2 * n) = 2 * k /\ k <= n /\ (2 * k <= n => k = 0)
    BY <1>1, SectorStart
  <2>3. (2 * k) \div 2 = k /\ (2 * k) \div 1 = 2 * k
    BY <2>2
  <2>4. CASE Size(n) = 2
    BY <1>1, <2>1, <2>2, <2>3, <2>4
  <2>5. CASE Size(n) = 1
    BY <1>1, <1>2, <2>1, <2>2, <2>3, <2>5
  <2>6. QED
    BY <1>2, <2>4, <2>5
<1>5. QED
  BY <1>3, <1>4 DEF FlashUpdate

LEMMA ChunkStep == \A n \in Chunks : StepInv /\ ReceiveChunk(n) => StepInv'
<1> SUFFICES ASSUME NEW n \in Chunks, StepInv, ReceiveChunk(n) PROVE StepInv'
  OBVIOUS
<1>1. /\ linked /\ toDevice # <<>> /\ Head(toDevice) = Chunk(n, TRUE)
      /\ UNCHANGED <<linked, updating, cloud, next>> /\ sinceChunk' = 0
      /\ chunkIndex' = updateIndex'
      /\ toDevice' = Tail(toDevice) /\ toCloud' = Append(toCloud, Answer(updateIndex'))
  BY DEF ReceiveChunk
<1>2. /\ cloud \in {"sending", "gone"} /\ n = next /\ At(n) /\ toDevice' = <<>>
      /\ cloud # "gone" => toCloud = <<>>
  BY <1>1, DownStage, Down
<1>3. /\ updateIndex' \in Nat /\ address' \in Nat
      /\ updateIndex' > n /\ n + 1 < NumChunks =>
           updateIndex' = n + 1 /\ address' = 2 * (n + 1)
      /\ updateIndex' <= n => address' = 2 * updateIndex'
  <2>1. \E f : FlashUpdate(n, f)
    BY DEF ReceiveChunk
  <2>2. QED
    BY <1>2, <2>1, FlashIndex
<1>4. Counters'
  BY <1>1, <1>3 DEF StepInv, Counters
<1>5. n \in Nat /\ n < NumChunks /\ NumChunks \in Nat
  BY ChunkAssumption DEF Chunks
<1>6. cloud = "sending" => Sending'
  <2> SUFFICES ASSUME cloud = "sending" PROVE Sending'
    OBVIOUS
  <2>1. toDevice' = <<>> /\ toCloud' = <<Answer(updateIndex')>>
    BY <1>1, <1>2, OneMessage
  <2>2. CASE updateIndex' > n
    <3>1. OnlyUp(Received(TRUE))'
      BY <1>2, <2>1, <2>2 DEF Answer, At, OnlyUp
    <3>2. next' + 1 < NumChunks => At(next + 1)'
      BY <1>1, <1>2, <1>3, <2>2 DEF At
    <3>3. QED
      BY <3>1, <3>2 DEF Sending
  <2>3. CASE updateIndex' <= n
    <3>1. updateIndex' \in Chunks
      BY <1>3, <1>5, <2>3 DEF Chunks
    <3>2. At(updateIndex)'
      BY <1>1, <1>3, <2>3 DEF At
    <3>3. ~(updateIndex' > chunkIndex)
      BY <1>2, <1>3, <1>5, <2>3 DEF At
    <3>4. OnlyUp(Missed(updateIndex))'
      BY <2>1, <3>3 DEF Answer, OnlyUp
    <3>5. QED
      BY <3>1, <3>2, <3>4 DEF Sending
  <2>4. QED
    BY <1>3, <1>5, <2>2, <2>3
<1>7. TalkInv'
  BY <1>1, <1>2, <1>6 DEF TalkInv, Gone
<1>8. QED
  BY <1>4, <1>7 DEF StepInv

LEMMA DamagedStep == \A n \in Chunks : StepInv /\ ReceiveDamaged(n) => StepInv'
<1> SUFFICES ASSUME NEW n \in Chunks, StepInv, ReceiveDamaged(n) PROVE StepInv'
  OBVIOUS
<1>1. /\ linked /\ toDevice # <<>> /\ Head(toDevice) = Chunk(n, FALSE)
      /\ UNCHANGED <<linked, updating, cloud, next, chunkIndex, updateIndex, address>>
      /\ sinceChunk' = 0
      /\ toDevice' = Tail(toDevice) /\ toCloud' = Append(toCloud, Received(FALSE))
  BY DEF ReceiveDamaged
<1>2. /\ cloud \in {"sending", "gone"} /\ At(next) /\ toDevice' = <<>>
      /\ cloud # "gone" => toCloud = <<>>
  BY <1>1, DownStage, Down
<1>3. At(next)'
  BY <1>1, <1>2 DEF At
<1>4. cloud = "sending" => Sending'
  BY <1>1, <1>2, <1>3, OneMessage DEF Sending, OnlyUp
<1>5. TalkInv'
  BY <1>1, <1>2, <1>4 DEF TalkInv, Gone
<1>6. Counters'
  BY <1>1 DEF StepInv, Counters
<1>7. QED
  BY <1>5, <1>6 DEF StepInv

\* Without a connection there is nothing to agree on.
LEMMA OfflineStep ==
  ASSUME StepInv, ReceiveDone \/ Watchdog \/ Break
  PROVE  StepInv'
<1>1. ~linked' /\ toDevice' = <<>>
  BY DEF ReceiveDone, Watchdog, Break, Reset
<1>2. TalkInv'
  BY <1>1 DEF TalkInv
<1>3. 0 \in Chunks
  BY ChunkAssumption DEF Chunks
<1>4. linked' \in BOOLEAN /\ updating' \in BOOLEAN
  BY DEF ReceiveDone, Watchdog, Break, Reset, StepInv, Counters
<1>5. next' \in Chunks /\ cloud' \in {cloud, "idle"}
  BY <1>3 DEF ReceiveDone, Watchdog, Break, StepInv, Counters
<1>6. chunkIndex' \in Nat /\ updateIndex' \in Nat /\ address' \in Nat
  BY DEF ReceiveDone, Watchdog, Break, Reset, StepInv, Counters
<1>7. QED
  BY <1>2, <1>4, <1>5, <1>6 DEF StepInv, Counters

LEMMA ConnectStep == StepInv /\ Connect => StepInv'
<1> SUFFICES ASSUME StepInv, Connect PROVE StepInv'
  OBVIOUS
<1>1. 0 \in Chunks
  BY ChunkAssumption DEF Chunks
<1>2. cloud' \in {"idle", "complete"}
  BY DEF Connect
<1>3. Counters'
  BY <1>1, <1>2 DEF Connect, StepInv, Counters
<1>4. TalkInv'
  BY <1>2 DEF Connect, TalkInv, Silent
<1>5. QED
  BY <1>3, <1>4 DEF StepInv

\* The device asks for a missing chunk only when nothing is under way.
LEMMA TimeoutStep == StepInv /\ ChunkTimeout => StepInv'
<1> SUFFICES ASSUME StepInv, ChunkTimeout PROVE StepInv'
  OBVIOUS
<1>1. /\ linked /\ toDevice = <<>> /\ updating /\ sinceChunk = 1 /\ sinceChunk' = 0
      /\ UNCHANGED <<linked, updating, cloud, next, chunkIndex, updateIndex, address,
                     toDevice>>
      /\ toCloud' = Append(toCloud, Missed(chunkIndex))
  BY DEF ChunkTimeout
<1>2. cloud # "gone" => toCloud = <<>>
  BY <1>1 DEF StepInv, TalkInv
<1>3. cloud \notin {"idle", "begun", "finishing"}
  BY <1>1, <1>2, OneMessage DEF StepInv, TalkInv, OnlyDown, OnlyUp
<1>4. cloud = "sending" => Sending'
  <2> SUFFICES ASSUME cloud = "sending" PROVE Sending'
    OBVIOUS
  <2>1. At(next)
    BY <1>1, <1>2, OneMessage DEF StepInv, TalkInv, Sending, OnlyDown, OnlyUp
  <2>2. At(next)' /\ next' \in Chunks
    BY <1>1, <2>1 DEF At, StepInv, Counters
  <2>3. OnlyUp(Missed(next))'
    BY <1>1, <1>2, <2>1, OneMessage DEF At, OnlyUp
  <2>4. QED
    BY <2>2, <2>3 DEF Sending
<1>5. Counters' /\ TalkInv'
  BY <1>1, <1>3, <1>4 DEF StepInv, Counters, TalkInv, Gone
<1>6. QED
  BY <1>5 DEF StepInv

\* The cloud sends the chunk the write address stands at.
LEMMA SendStep ==
  ASSUME NEW n \in Chunks, At(n), SendChunk(n), cloud' = "sending", toCloud' = <<>>,
         StepInv, linked,
         UNCHANGED <<linked, updating, chunkIndex, updateIndex, address>>
  PROVE  StepInv'
<1>1. next' = n /\ At(next)'
  BY DEF SendChunk, At
<1>2. \/ toDevice' = <<Chunk(next, TRUE)>>' \/ toDevice' = <<Chunk(next, FALSE)>>'
      \/ toDevice' = <<>>
  BY <1>1 DEF SendChunk
<1>3. Sending'
  BY <1>1, <1>2 DEF Sending, Silent, OnlyDown
<1>4. Counters' /\ TalkInv'
  BY <1>1, <1>3 DEF StepInv, Counters, TalkInv
<1>5. QED
  BY <1>4 DEF StepInv

LEMMA CloudBeginStep == StepInv /\ CloudBegin => StepInv'
<1> SUFFICES ASSUME StepInv, CloudBegin PROVE StepInv'
  OBVIOUS
<1>1. /\ linked /\ cloud = "idle" /\ cloud' = "begun" /\ toDevice' = <<Begin>>
      /\ UNCHANGED <<linked, updating, next, chunkIndex, updateIndex, address, toCloud>>
  BY DEF CloudBegin, Waiting, device
<1>2. toCloud = <<>>
  BY <1>1 DEF StepInv, TalkInv, Silent
<1>3. Counters' /\ TalkInv'
  BY <1>1, <1>2 DEF StepInv, Counters, TalkInv, OnlyDown
<1>4. QED
  BY <1>3 DEF StepInv

LEMMA CloudReadyStep == StepInv /\ CloudReady => StepInv'
<1> SUFFICES ASSUME StepInv, CloudReady PROVE StepInv'
  OBVIOUS
<1>1. /\ linked /\ toDevice = <<>> /\ cloud = "begun" /\ cloud' = "sending"
      /\ toCloud' = Tail(toCloud) /\ SendChunk(0)
      /\ UNCHANGED <<linked, updating, chunkIndex, updateIndex, address>>
  BY DEF CloudReady, Waiting, device
<1>2. toCloud = <<Ready>> /\ At(0)
  BY <1>1, OneMessage DEF StepInv, TalkInv, OnlyDown, OnlyUp
<1>3. 0 \in Chunks /\ toCloud' = <<>>
  BY <1>1, <1>2, OneMessage, ChunkAssumption DEF Chunks
<1>4. QED
  BY <1>1, <1>2, <1>3, SendStep

\* The answers the cloud can find, and where the device stands then.
LEMMA UpStage ==
  ASSUME StepInv, linked, toDevice = <<>>, cloud = "sending", toCloud # <<>>
  PROVE  /\ Tail(toCloud) = <<>>
         /\ \/ Head(toCloud) = Received(FALSE) /\ At(next)
            \/ /\ Head(toCloud) = Received(TRUE)
               /\ next + 1 < NumChunks => At(next + 1)
            \/ \E i \in Chunks : Head(toCloud) = Missed(i) /\ At(i)
<1>1. Sending
  BY DEF StepInv, TalkInv
<1>2. \/ OnlyUp(Received(FALSE)) /\ At(next)
      \/ OnlyUp(Received(TRUE)) /\ (next + 1 < NumChunks => At(next + 1))
      \/ \E i \in Chunks : OnlyUp(Missed(i)) /\ At(i)
  BY <1>1, OneMessage DEF Sending, Silent, OnlyDown
<1>3. QED
  BY <1>2, OneMessage DEF OnlyUp

LEMMA CloudAdvanceStep == StepInv /\ CloudAdvance => StepInv'
<1> SUFFICES ASSUME StepInv, CloudAdvance PROVE StepInv'
  OBVIOUS
<1>1. /\ linked /\ toDevice = <<>> /\ cloud = "sending"
      /\ toCloud # <<>> /\ Head(toCloud) = Received(TRUE) /\ toCloud' = Tail(toCloud)
      /\ UNCHANGED <<linked, updating, chunkIndex, updateIndex, address>>
  BY DEF CloudAdvance, Waiting, device
<1>2. toCloud' = <<>> /\ (next + 1 < NumChunks => At(next + 1))
  BY <1>1, UpStage, Up
<1>3. CASE next + 1 < NumChunks
  <2>1. next + 1 \in Chunks
    BY <1>3, ChunkAssumption DEF StepInv, Counters, Chunks
  <2>2. SendChunk(next + 1) /\ cloud' = "sending"
    BY <1>1, <1>3 DEF CloudAdvance
  <2>3. QED
    BY <1>1, <1>2, <1>3, <2>1, <2>2, SendStep
<1>4. CASE ~(next + 1 < NumChunks)
  <2>1. cloud' = "finishing" /\ toDevice' = <<Done>> /\ UNCHANGED next
    BY <1>4 DEF CloudAdvance
  <2>2. Counters' /\ TalkInv'
    BY <1>1, <1>2, <2>1 DEF StepInv, Counters, TalkInv, OnlyDown
  <2>3. QED
    BY <2>2 DEF StepInv
<1>5. QED
  BY <1>3, <1>4

LEMMA CloudResendStep == StepInv /\ CloudResend => StepInv'
<1> SUFFICES ASSUME StepInv, CloudResend PROVE StepInv'
  OBVIOUS
<1>1. /\ linked /\ toDevice = <<>> /\ cloud = "sending" /\ cloud' = "sending"
      /\ toCloud # <<>> /\ toCloud' = Tail(toCloud)
      /\ UNCHANGED <<linked, updating, chunkIndex, updateIndex, address>>
  BY DEF CloudResend, Waiting, device
<1>2. toCloud' = <<>>
  BY <1>1, UpStage
<1>3. CASE Head(toCloud) = Received(FALSE) /\ SendChunk(next)
  <2>1. At(next) /\ next \in Chunks
    BY <1>1, <1>3, UpStage, Up DEF StepInv, Counters
  <2>2. QED
    BY <1>1, <1>2, <1>3, <2>1, SendStep
<1>4. CASE \E i \in Chunks : Head(toCloud) = Missed(i) /\ SendChunk(i)
  <2>1. PICK i \in Chunks : Head(toCloud) = Missed(i) /\ SendChunk(i)
    BY <1>4
  <2>2. At(i)
    BY <1>1, <2>1, UpStage, Up
  <2>3. QED
    BY <1>1, <1>2, <2>1, <2>2, SendStep
<1>5. QED
  BY <1>3, <1>4 DEF CloudResend

LEMMA TickStep == StepInv /\ Tick => StepInv'
<1> SUFFICES ASSUME StepInv, Tick PROVE StepInv'
  OBVIOUS
<1>1. /\ UNCHANGED <<linked, updating, cloud, next, chunkIndex, updateIndex, address,
                     toDevice, toCloud>>
      /\ linked => toCloud = <<>> \/ cloud = "gone"
  BY DEF Tick
<1>2. At(next)' <=> At(next)
  BY <1>1 DEF At
<1>3. linked /\ cloud = "begun" => toDevice = <<Begin>> /\ toCloud = <<>>
  BY <1>1, OneMessage DEF StepInv, TalkInv, OnlyDown, OnlyUp
<1>4. linked /\ cloud = "sending" => Sending'
  <2> SUFFICES ASSUME linked, cloud = "sending" PROVE Sending'
    OBVIOUS
  <2>1. \/ Silent /\ At(next)
        \/ \E ok \in BOOLEAN : OnlyDown(Chunk(next, ok)) /\ At(next)
    BY <1>1, OneMessage DEF StepInv, TalkInv, Sending, OnlyUp
  <2>2. QED
    BY <1>1, <1>2, <2>1 DEF Sending, Silent, OnlyDown
<1>5. linked /\ cloud = "gone" => Gone'
  BY <1>1, <1>2 DEF StepInv, TalkInv, Gone
<1>6. Counters'
  BY <1>1 DEF StepInv, Counters
<1>7. TalkInv'
  BY <1>1, <1>3, <1>4, <1>5 DEF StepInv, TalkInv, Silent, OnlyDown
<1>8. QED
  BY <1>6, <1>7 DEF StepInv

LEMMA CloudStopsStep == StepInv /\ CloudStops => StepInv'
<1> SUFFICES ASSUME StepInv, CloudStops PROVE StepInv'
  OBVIOUS
<1>1. /\ linked /\ cloud \in {"begun", "sending"} /\ cloud' = "gone"
      /\ UNCHANGED <<linked, updating, next, chunkIndex, updateIndex, address, toDevice,
                     toCloud>>
  BY DEF CloudStops, device
<1>2. Gone
  BY <1>1 DEF StepInv, TalkInv, Sending, Silent, OnlyDown, OnlyUp, Gone
<1>3. Gone'
  BY <1>1, <1>2 DEF Gone, At
<1>4. Counters' /\ TalkInv'
  BY <1>1, <1>3 DEF StepInv, Counters, TalkInv
<1>5. QED
  BY <1>4 DEF StepInv

LEMMA StayStep == StepInv /\ UNCHANGED vars => StepInv'
<1> SUFFICES ASSUME StepInv, UNCHANGED vars PROVE StepInv'
  OBVIOUS
<1>1. UNCHANGED <<linked, updating, cloud, next, chunkIndex, updateIndex, address,
                  sinceChunk, toDevice, toCloud>>
  BY DEF vars, device
<1>2. \A i \in Nat : At(i) => At(i)'
  BY <1>1 DEF At
<1>3. next \in Nat /\ next + 1 \in Nat /\ Chunks \subseteq Nat
  BY ChunkAssumption DEF StepInv, Counters, Chunks
<1>4. Sending => Sending'
  BY <1>1, <1>2, <1>3 DEF Sending, Silent, OnlyDown, OnlyUp
<1>5. Gone => Gone'
  BY <1>1, <1>2, <1>3 DEF Gone
<1>6. Counters' /\ TalkInv'
  BY <1>1, <1>2, <1>4, <1>5 DEF StepInv, Counters, TalkInv, Silent, OnlyDown, OnlyUp
<1>7. QED
  BY <1>6 DEF StepInv

LEMMA NextStep == StepInv /\ [Next]_vars => StepInv'
<1>1. ASSUME StepInv, Device PROVE StepInv'
  BY <1>1, BeginStep, ChunkStep, DamagedStep, OfflineStep, TimeoutStep, ConnectStep
  DEF Device, Receive
<1>2. ASSUME StepInv, Cloud PROVE StepInv'
  BY <1>2, CloudBeginStep, CloudReadyStep, CloudAdvanceStep, CloudResendStep DEF Cloud
<1>3. QED
  BY <1>1, <1>2, StayStep, TickStep, OfflineStep, CloudStopsStep DEF Next

\* A chunk on its way to the device is the one its write address stands at.
LEMMA InvInStep == StepInv => InStep
<1> SUFFICES ASSUME StepInv, NEW n \in Chunks, NEW ok \in BOOLEAN,
                    Chunk(n, ok) \in ToSet(toDevice)
             PROVE  updateIndex = n /\ address = 2 * n
  BY DEF InStep
<1>1. ToSet(<<>>) = {}
  BY DEF ToSet
<1>2. toDevice # <<>> /\ linked
  BY <1>1 DEF StepInv, TalkInv
<1>3. toDevice = <<Head(toDevice)>>
  BY <1>2, OneMessage
  DEF StepInv, TalkInv, Counters, Silent, OnlyDown, OnlyUp, Sending, Gone
<1>4. Head(toDevice) = Chunk(n, ok)
  BY <1>3, OneMessage
<1>5. n = next /\ At(next)
  BY <1>2, <1>4, DownStage, Down
<1>6. QED
  BY <1>5 DEF At

\* Chunks carry no number, and yet each is stored where it belongs, whatever is
\* damaged, lost, repeated or misprogrammed and however often the connection breaks.
THEOREM InStepAlways == Spec => []InStep
<1>1. QED
  BY InitStep, NextStep, InvInStep, PTL DEF Spec

-----------------------------------------------------------------------------
(* Types                                                                     *)

DownMessages == {Begin, Done} \cup [type : {"chunk"}, n : Chunks, ok : BOOLEAN]
UpMessages   == {Ready, DoneAck} \cup [type : {"received"}, ok : BOOLEAN]
                   \cup [type : {"missed"}, i : Nat]
Cells         == {Erased, Garbage} \cup 0 .. 2 * NumChunks - 1

RestTypes ==
  /\ flashUpdate \in BOOLEAN /\ otaFlag \in BOOLEAN
  /\ sinceChunk \in {0, 1} /\ sinceSave \in 0 .. WatchdogTicks
  /\ flash \in [Units -> Cells]
  /\ toDevice \in Seq(DownMessages) /\ toCloud \in Seq(UpMessages)
  /\ faults \in [Kinds -> Nat]

LEMMA TypeParts == Counters /\ RestTypes => TypeOK
  BY DEF TypeOK, Counters, RestTypes, DownMessages, UpMessages, Cells

LEMMA UpTypes ==
  /\ Ready \in UpMessages /\ DoneAck \in UpMessages
  /\ \A ok \in BOOLEAN : Received(ok) \in UpMessages
  /\ \A i \in Nat : Missed(i) \in UpMessages /\ Answer(i) \in UpMessages
<1>1. Ready \in UpMessages /\ DoneAck \in UpMessages
  BY DEF UpMessages
<1>2. \A ok \in BOOLEAN : Received(ok) \in UpMessages
  BY DEF Received, UpMessages
<1>3. \A i \in Nat : Missed(i) \in UpMessages
  BY DEF Missed, UpMessages
<1>4. QED
  BY <1>1, <1>2, <1>3 DEF Answer

LEMMA DownTypes ==
  /\ Begin \in DownMessages /\ Done \in DownMessages
  /\ \A n \in Chunks, ok \in BOOLEAN : Chunk(n, ok) \in DownMessages
  BY DEF DownMessages, Begin, Done, Chunk

LEMMA QueueTypes ==
  ASSUME NEW S, NEW q \in Seq(S)
  PROVE  /\ <<>> \in Seq(S) /\ (q # <<>> => Tail(q) \in Seq(S))
         /\ \A m \in S : Append(q, m) \in Seq(S) /\ <<m>> \in Seq(S)
  OBVIOUS

LEMMA FaultTypes ==
  ASSUME faults \in [Kinds -> Nat], NEW k \in Kinds, Fault(k)
  PROVE  faults' \in [Kinds -> Nat]
  BY DEF Fault

\* Programming and erasing leave cells of the flash.
LEMMA ProgramTypes ==
  ASSUME Counters, RestTypes, NEW n \in Chunks
  PROVE  Programmed(n) \in [Units -> Cells] /\ Misprogrammed(n) \in [Units -> Cells]
<1>1. n \in Nat /\ n <= NumChunks - 1 /\ NumChunks \in Nat /\ address \in Nat
  BY ChunkAssumption DEF Chunks, Counters
<1>2. \A u \in Target(n) : Content(n, u - address) \in Cells
  BY <1>1 DEF Target, Size, Content, Cells
<1>3. Garbage \in Cells /\ \A u \in Units : flash[u] \in Cells
  BY DEF Cells, RestTypes
<1>4. Programmed(n) \in [Units -> Cells]
  BY <1>2, <1>3 DEF Programmed
<1>5. QED
  BY <1>3, <1>4 DEF Misprogrammed

LEMMA EraseTypes ==
  ASSUME NEW f \in [Units -> Cells], NEW p
  PROVE  EraseSector(f, p) \in [Units -> Cells] /\ ErasedFlash \in [Units -> Cells]
  BY DEF EraseSector, ErasedFlash, Cells

LEMMA InitTypes == Init => RestTypes
<1> SUFFICES ASSUME Init PROVE RestTypes
  OBVIOUS
<1>1. flash \in [Units -> Cells]
  BY DEF Init, ErasedFlash, Cells
<1>2. flashUpdate \in BOOLEAN /\ otaFlag \in BOOLEAN
  BY Zenon DEF Init
<1>3. sinceSave \in 0 .. WatchdogTicks /\ sinceChunk \in {0, 1}
  BY OtaBoundAssumption DEF Init
<1>4. toDevice \in Seq(DownMessages) /\ toCloud \in Seq(UpMessages)
  BY DEF Init
<1>5. faults \in [Kinds -> Nat]
  BY DEF Init
<1>6. QED
  BY <1>1, <1>2, <1>3, <1>4, <1>5 DEF RestTypes

LEMMA ReceiveTypes ==
  ASSUME StepInv, RestTypes, Receive
  PROVE  RestTypes'
<1> USE DEF RestTypes
<1>1. 0 \in 0 .. WatchdogTicks
  BY OtaBoundAssumption
<1>2. CASE ReceiveBegin
  <2>1. flashUpdate' \in BOOLEAN
    BY <1>2, Zenon DEF ReceiveBegin
  <2>2. flash' \in [Units -> Cells]
    BY <1>2, EraseTypes DEF ReceiveBegin
  <2>3. toDevice' \in Seq(DownMessages) /\ toCloud' \in Seq(UpMessages)
    BY <1>2, QueueTypes, UpTypes DEF ReceiveBegin
  <2>4. QED
    BY <1>1, <1>2, <2>1, <2>2, <2>3 DEF ReceiveBegin
<1>3. CASE ReceiveDone
  <2>1. flashUpdate' \in BOOLEAN /\ otaFlag' \in BOOLEAN
    BY <1>3, Zenon DEF ReceiveDone, Reset
  <2>2. toDevice' \in Seq(DownMessages) /\ toCloud' \in Seq(UpMessages)
    BY <1>3, QueueTypes, UpTypes DEF ReceiveDone, Reset
  <2>3. QED
    BY <1>1, <1>3, <2>1, <2>2 DEF ReceiveDone, Reset
<1>4. ASSUME NEW n \in Chunks, ReceiveChunk(n) PROVE RestTypes'
  <2>1. PICK f \in [Units -> Cells] : FlashUpdate(n, f)
    BY <1>4, ProgramTypes DEF ReceiveChunk, StepInv
  <2>2. flash' \in [Units -> Cells]
    BY <2>1, EraseTypes DEF FlashUpdate, SaveChunk, BackOff
  <2>3. faults' \in [Kinds -> Nat]
    BY <1>4, FaultTypes DEF ReceiveChunk, Kinds
  <2>4. updateIndex' \in Nat
    BY <1>4, ChunkStep DEF StepInv, Counters
  <2>5. toDevice' \in Seq(DownMessages) /\ toCloud' \in Seq(UpMessages)
    BY <1>4, <2>4, QueueTypes, UpTypes DEF ReceiveChunk
  <2>6. QED
    BY <1>1, <1>4, <2>2, <2>3, <2>5 DEF ReceiveChunk
<1>5. ASSUME NEW n \in Chunks, ReceiveDamaged(n) PROVE RestTypes'
  <2>1. toDevice' \in Seq(DownMessages) /\ toCloud' \in Seq(UpMessages)
    BY <1>5, QueueTypes, UpTypes DEF ReceiveDamaged
  <2>2. QED
    BY <1>5, <2>1 DEF ReceiveDamaged
<1>6. QED
  BY <1>2, <1>3, <1>4, <1>5 DEF Receive

LEMMA CloudTypes ==
  ASSUME StepInv, RestTypes, Cloud
  PROVE  RestTypes'
<1> USE DEF RestTypes, device
<1>1. /\ UNCHANGED <<flashUpdate, otaFlag, sinceChunk, sinceSave, flash>>
      /\ toCloud' = toCloud \/ (toCloud # <<>> /\ toCloud' = Tail(toCloud))
  BY DEF Cloud, CloudBegin, CloudReady, CloudAdvance, CloudResend
<1>2. ASSUME NEW n \in Chunks, SendChunk(n)
      PROVE  toDevice' \in Seq(DownMessages) /\ faults' \in [Kinds -> Nat]
  <2>1. toDevice' \in Seq(DownMessages)
    BY <1>2, QueueTypes, DownTypes DEF SendChunk
  <2>2. faults' \in [Kinds -> Nat]
    BY <1>2, FaultTypes DEF SendChunk, Kinds
  <2>3. QED
    BY <2>1, <2>2
<1>3. /\ 0 \in Chunks /\ next \in Chunks
      /\ next + 1 < NumChunks => next + 1 \in Chunks
  BY ChunkAssumption DEF StepInv, Counters, Chunks
<1>4. toDevice' \in Seq(DownMessages) /\ faults' \in [Kinds -> Nat]
  <2>1. CASE CloudBegin
    BY <2>1, QueueTypes, DownTypes DEF CloudBegin
  <2>2. CASE CloudReady
    BY <1>2, <1>3, <2>2 DEF CloudReady
  <2>3. CASE CloudAdvance
    BY <1>2, <1>3, <2>3, QueueTypes, DownTypes DEF CloudAdvance
  <2>4. CASE CloudResend
    BY <1>2, <1>3, <2>4 DEF CloudResend
  <2>5. QED
    BY <2>1, <2>2, <2>3, <2>4 DEF Cloud
<1>5. toCloud' \in Seq(UpMessages)
  BY <1>1, QueueTypes
<1>6. QED
  BY <1>1, <1>4, <1>5

\* What happens between messages.
LEMMA BetweenTypes ==
  ASSUME StepInv, RestTypes, ChunkTimeout \/ Watchdog \/ Connect \/ Tick \/ Break \/ CloudStops
  PROVE  RestTypes'
<1> USE DEF RestTypes
<1>1. 0 \in 0 .. WatchdogTicks
  BY OtaBoundAssumption
<1>2. CASE ChunkTimeout
  BY <1>2, QueueTypes, UpTypes DEF ChunkTimeout, StepInv, Counters
<1>3. CASE Watchdog
  <2>1. flashUpdate' \in BOOLEAN
    BY <1>3, Zenon DEF Watchdog, Reset
  <2>2. QED
    BY <1>1, <1>3, <2>1 DEF Watchdog, Reset
<1>4. CASE Connect
  BY <1>4 DEF Connect
<1>5. CASE Tick
  <2>1. sinceSave' \in 0 .. WatchdogTicks
    BY <1>5, OtaBoundAssumption DEF Tick
  <2>2. QED
    BY <1>5, <2>1 DEF Tick
<1>6. CASE Break
  <2>1. flashUpdate' \in BOOLEAN /\ faults' \in [Kinds -> Nat]
    BY <1>6, FaultTypes, Zenon DEF Break, Kinds
  <2>2. QED
    BY <1>6, <2>1 DEF Break
<1>7. CASE CloudStops
  <2>1. faults' \in [Kinds -> Nat]
    BY <1>7, FaultTypes DEF CloudStops, Kinds
  <2>2. QED
    BY <1>7, <2>1 DEF CloudStops, device
<1>8. QED
  BY <1>2, <1>3, <1>4, <1>5, <1>6, <1>7

LEMMA NextTypes == StepInv /\ RestTypes /\ [Next]_vars => RestTypes'
<1>1. RestTypes /\ UNCHANGED vars => RestTypes'
  BY DEF RestTypes, vars, device
<1>2. QED
  BY <1>1, ReceiveTypes, CloudTypes, BetweenTypes DEF Next, Device

\* Every message, cell and counter is of its kind, the time since the last chunk was
\* saved within the watchdog's.
THEOREM TypeCorrect == Spec => []TypeOK
<1>1. Init => StepInv /\ RestTypes
  BY InitStep, InitTypes
<1>2. StepInv /\ RestTypes /\ [Next]_vars => (StepInv /\ RestTypes)'
  BY NextStep, NextTypes
<1>3. StepInv /\ RestTypes => TypeOK
  BY TypeParts DEF StepInv
<1>4. QED
  BY <1>1, <1>2, <1>3, PTL DEF Spec

-----------------------------------------------------------------------------
(* What the external flash holds, when every chunk is a whole one            *)

\* The first k chunks of the image.
Held(k) == \A u \in 0 .. 2 * k - 1 : flash[u] = u

\* Everything before the write address is there; the last chunk is acknowledged and
\* the update finished only when that is the whole image; and nothing touches it
\* after UPDATE_DONE, which the cloud learns of before it could begin again.
StoreInv ==
  /\ At(updateIndex) /\ updateIndex <= NumChunks /\ Held(updateIndex)
  /\ linked /\ cloud = "sending" /\ toCloud = <<Received(TRUE)>> /\ next + 1 = NumChunks
       => updateIndex = NumChunks
  /\ linked /\ cloud = "finishing" => updateIndex = NumChunks
  /\ otaFlag => /\ Held(NumChunks) /\ ~flashUpdate
                /\ cloud = "complete" \/ (~linked /\ DoneAck \in ToSet(toCloud))

\* Sectors reach past the image, and erasing the one an address lies in spares what
\* is before it.
LEMMA Sectors ==
  /\ \A n \in Chunks : {2 * n, 2 * n + 1} \subseteq Units
  /\ \A k \in 0 .. NumChunks : 0 .. 2 * k - 1 \subseteq Units
  /\ \A u \in Nat : PageOf(u) <= u
<1>1. PageSize \in Nat \ {0} /\ NumChunks \in Nat
  BY ChunkAssumption DEF PageSize
<1>2. \A a \in Nat : /\ PageOf(a) \in Nat /\ PageOf(a) <= a
                     /\ a <= PageOf(a) + PageSize - 1
  <2> SUFFICES ASSUME NEW a \in Nat
               PROVE  /\ PageOf(a) \in Nat /\ PageOf(a) <= a
                      /\ a <= PageOf(a) + PageSize - 1
    OBVIOUS
  <2>1. /\ a \div PageSize \in Nat
        /\ PageSize * (a \div PageSize) <= a
        /\ a < PageSize * (a \div PageSize) + PageSize
    BY <1>1, Division
  <2>2. PageOf(a) = PageSize * (a \div PageSize)
    BY <1>1, <2>1 DEF PageOf
  <2>3. QED
    BY <1>1, <2>1, <2>2
<1>3. \A u \in 0 .. 2 * NumChunks - 1 : u \in Units
  <2>1. 2 * NumChunks \in Nat
    BY <1>1
  <2>2. 2 * NumChunks <= PageOf(2 * NumChunks) + PageSize - 1
    BY <1>2, <2>1
  <2>3. QED
    BY <1>1, <1>2, <2>1, <2>2 DEF Units
<1>4. QED
  BY <1>1, <1>2, <1>3 DEF Chunks

\* Programming a whole chunk at its own address leaves what is before it.
LEMMA ProgramHeld ==
  ASSUME StoreInv, StepInv, NEW n \in Chunks, At(n), ~ShortLast,
         NEW f \in {Programmed(n), Misprogrammed(n)}
  PROVE  /\ \A u \in 0 .. 2 * n - 1 : f[u] = u
         /\ Verified(n, f) => \A u \in 0 .. 2 * n + 1 : f[u] = u
<1>1. n \in Nat /\ n <= NumChunks /\ address = 2 * n /\ updateIndex = n /\ NumChunks \in Nat
  BY ChunkAssumption DEF At, Chunks
<1>2. Target(n) = {2 * n, 2 * n + 1}
  BY <1>1 DEF Target, Size
<1>3. \A u \in 0 .. 2 * n - 1 : u \in Units /\ u # address /\ u \notin Target(n)
  BY <1>1, <1>2, Sectors
<1>4. \A u \in 0 .. 2 * n - 1 : flash[u] = u
  BY <1>1 DEF StoreInv, Held
<1>5. \A u \in 0 .. 2 * n - 1 : f[u] = u
  <2>1. \A u \in 0 .. 2 * n - 1 : Programmed(n)[u] = u
    BY <1>3, <1>4 DEF Programmed
  <2>2. \A u \in 0 .. 2 * n - 1 : Misprogrammed(n)[u] = u
    <3>1. \A u \in Units : u # address => Misprogrammed(n)[u] = Programmed(n)[u]
      BY DEF Misprogrammed, Programmed
    <3>2. QED
      BY <1>3, <2>1, <3>1
  <2>3. QED
    BY <2>1, <2>2
<1>6. ASSUME Verified(n, f) PROVE \A u \in 0 .. 2 * n + 1 : f[u] = u
  <2>1. f[2 * n] = 2 * n /\ f[2 * n + 1] = 2 * n + 1
    BY <1>1, <1>2, <1>6 DEF Verified, Content
  <2>2. \A u \in 0 .. 2 * n + 1 : u \in 0 .. 2 * n - 1 \/ u = 2 * n \/ u = 2 * n + 1
    BY <1>1
  <2>3. QED
    BY <1>5, <2>1, <2>2
<1>7. QED
  BY <1>5, <1>6

\* FLASH_Update advances over a chunk that verifies and otherwise goes back to the
\* first chunk of the sector, with everything before it in place.
LEMMA FlashHeld ==
  ASSUME StoreInv, StepInv, NEW n \in Chunks, At(n), ~ShortLast,
         NEW f \in {Programmed(n), Misprogrammed(n)}, FlashUpdate(n, f)
  PROVE  /\ address' = 2 * updateIndex' /\ Held(updateIndex)'
         /\ updateIndex' = n + 1 \/ updateIndex' \in 0 .. n
<1>1. n \in Nat /\ n < NumChunks /\ address = 2 * n /\ updateIndex = n /\ NumChunks \in Nat
  BY ChunkAssumption DEF At, Chunks
<1>2. Size(n) = 2
  BY DEF Size
<1>3. CASE Verified(n, f)
  <2>1. flash' = f /\ address' = 2 * n + 2 /\ updateIndex' = n + 1
    BY <1>1, <1>2, <1>3 DEF FlashUpdate, SaveChunk
  <2>2. \A u \in 0 .. 2 * (n + 1) - 1 : f[u] = u
    BY <1>1, <1>3, ProgramHeld
  <2>3. QED
    BY <1>1, <2>1, <2>2 DEF Held
<1>4. CASE ~Verified(n, f)
  <2>1. PICK k \in Nat : PageOf(2 * n) = 2 * k /\ k <= n
    BY <1>1, SectorStart
  <2>2. (2 * k) \div 2 = k
    OBVIOUS
  <2>3. /\ address' = 2 * k /\ updateIndex' = k
        /\ flash' = EraseSector(f, 2 * k)
    BY <1>1, <1>2, <1>4, <2>1, <2>2 DEF FlashUpdate, BackOff
  <2>4. \A u \in 0 .. 2 * k - 1 : u \in Units /\ PageOf(u) # 2 * k /\ f[u] = u
    <3>1. \A u \in 0 .. 2 * k - 1 : u \in 0 .. 2 * n - 1 /\ u \in Units
      BY <1>1, <2>1, Sectors
    <3>2. \A u \in 0 .. 2 * n - 1 : f[u] = u
      BY ProgramHeld
    <3>3. \A u \in 0 .. 2 * k - 1 : u \in Nat /\ u < 2 * k /\ PageOf(u) <= u
      BY Sectors
    <3>4. \A u \in 0 .. 2 * k - 1 : PageOf(u) # 2 * k
      BY <3>3
    <3>5. QED
      BY <3>1, <3>2, <3>4
  <2>5. Held(updateIndex)'
    BY <2>3, <2>4 DEF Held, EraseSector
  <2>6. QED
    BY <2>1, <2>3, <2>5
<1>5. QED
  BY <1>3, <1>4

LEMMA InitStore == Init => StoreInv
<1> SUFFICES ASSUME Init PROVE StoreInv
  OBVIOUS
<1>1. At(updateIndex) /\ updateIndex <= NumChunks
  BY ChunkAssumption DEF Init, At
<1>2. Held(updateIndex)
  BY DEF Init, Held
<1>3. ~otaFlag /\ cloud = "idle"
  BY DEF Init
<1>4. QED
  BY <1>1, <1>2, <1>3 DEF StoreInv

\* An installed image is not touched: the cloud has nothing left to send.
LEMMA Installed ==
  ASSUME StoreInv, StepInv, otaFlag
  PROVE  /\ linked => toDevice = <<>> /\ cloud = "complete"
         /\ ~flashUpdate
  BY DEF StoreInv, StepInv, TalkInv

LEMMA BeginStore == StoreInv /\ StepInv /\ ReceiveBegin => StoreInv'
<1> SUFFICES ASSUME StoreInv, StepInv, ReceiveBegin PROVE StoreInv'
  OBVIOUS
<1>1. /\ linked /\ toDevice # <<>> /\ Head(toDevice) = Begin
      /\ chunkIndex' = 0 /\ updateIndex' = 0 /\ address' = 0
      /\ UNCHANGED <<linked, otaFlag, cloud>>
  BY DEF ReceiveBegin
<1>2. ~otaFlag /\ cloud \in {"begun", "gone"}
  BY <1>1, Installed, DownStage, Down
<1>3. At(updateIndex)' /\ updateIndex' <= NumChunks /\ Held(updateIndex)'
  BY <1>1, ChunkAssumption DEF At, Held
<1>4. QED
  BY <1>1, <1>2, <1>3 DEF StoreInv

LEMMA ChunkStore ==
  ASSUME StoreInv, StepInv, ~ShortLast, NEW n \in Chunks, ReceiveChunk(n)
  PROVE  StoreInv'
<1>1. /\ linked /\ toDevice # <<>> /\ Head(toDevice) = Chunk(n, TRUE)
      /\ chunkIndex' = updateIndex' /\ toCloud' = Append(toCloud, Answer(updateIndex'))
      /\ UNCHANGED <<linked, otaFlag, cloud, next>>
  BY DEF ReceiveChunk
<1>2. /\ ~otaFlag /\ n = next /\ At(n) /\ cloud \in {"sending", "gone"}
      /\ cloud # "gone" => toCloud = <<>>
  BY <1>1, Installed, DownStage, Down
<1>3. /\ address' = 2 * updateIndex' /\ Held(updateIndex)'
      /\ updateIndex' = n + 1 \/ updateIndex' \in 0 .. n
  <2>1. \E f \in {Programmed(n), Misprogrammed(n)} : FlashUpdate(n, f)
    BY DEF ReceiveChunk
  <2>2. QED
    BY <1>2, <2>1, FlashHeld
<1>4. n \in Nat /\ n < NumChunks /\ NumChunks \in Nat /\ chunkIndex = n
  BY <1>2, ChunkAssumption DEF Chunks, At
<1>5. At(updateIndex)' /\ updateIndex' <= NumChunks
  BY <1>1, <1>3, <1>4 DEF At
<1>6. ASSUME cloud = "sending", toCloud' = <<Received(TRUE)>>, next + 1 = NumChunks
      PROVE  updateIndex' = NumChunks
  <2>1. Answer(updateIndex') = Received(TRUE)
    <3>1. <<Answer(updateIndex')>> = <<Received(TRUE)>>
      BY <1>1, <1>2, <1>6, OneMessage
    <3>2. QED
      BY <3>1, SameMessage
  <2>2. updateIndex' > chunkIndex
    BY <2>1, Up DEF Answer
  <2>3. QED
    BY <1>2, <1>3, <1>4, <1>6, <2>2
<1>7. QED
  BY <1>1, <1>2, <1>3, <1>5, <1>6 DEF StoreInv

LEMMA DoneStore == StoreInv /\ StepInv /\ ReceiveDone => StoreInv'
<1> SUFFICES ASSUME StoreInv, StepInv, ReceiveDone PROVE StoreInv'
  OBVIOUS
<1>1. /\ linked /\ toDevice # <<>> /\ Head(toDevice) = Done
      /\ ~linked' /\ ~flashUpdate' /\ toCloud' = Append(toCloud, DoneAck)
      /\ chunkIndex' = 0 /\ updateIndex' = 0 /\ address' = 0
      /\ UNCHANGED flash
  BY DEF ReceiveDone, Reset
<1>2. cloud = "finishing" /\ toCloud = <<>>
  BY <1>1, DownStage, Down
<1>3. Held(NumChunks)'
  BY <1>1, <1>2 DEF StoreInv, Held
<1>4. DoneAck \in ToSet(toCloud')
  BY <1>1, <1>2, OneMessage
<1>5. At(updateIndex)' /\ updateIndex' <= NumChunks /\ Held(updateIndex)'
  BY <1>1, ChunkAssumption DEF At, Held
<1>6. QED
  BY <1>1, <1>3, <1>4, <1>5 DEF StoreInv

\* The steps that leave the flash and the write address alone.
LEMMA LeftStore ==
  ASSUME StoreInv,
         UNCHANGED <<linked, chunkIndex, updateIndex, address, flash, flashUpdate, otaFlag>>,
         otaFlag => cloud' = cloud,
         otaFlag => \A m \in ToSet(toCloud) : m \in ToSet(toCloud'),
         linked' /\ cloud' = "sending" /\ toCloud' = <<Received(TRUE)>>
            /\ next' + 1 = NumChunks => updateIndex = NumChunks,
         linked' /\ cloud' = "finishing" => updateIndex = NumChunks
  PROVE  StoreInv'
  BY DEF StoreInv, At, Held

LEMMA CloudStore == StoreInv /\ StepInv /\ Cloud => StoreInv'
<1> SUFFICES ASSUME StoreInv, StepInv, Cloud PROVE StoreInv'
  OBVIOUS
<1>1. linked /\ toDevice = <<>> /\ UNCHANGED device /\ cloud # "complete"
  BY DEF Cloud, CloudBegin, CloudReady, CloudAdvance, CloudResend, Waiting
<1>2. ~otaFlag
  BY <1>1, Installed
<1>3. CASE CloudBegin
  BY <1>1, <1>2, <1>3, LeftStore DEF CloudBegin, device
<1>4. CASE CloudReady
  <2>1. toCloud = <<Ready>> /\ toCloud' = <<>> /\ cloud' = "sending"
    BY <1>1, <1>4, OneMessage DEF CloudReady, StepInv, TalkInv, OnlyDown, OnlyUp
  <2>2. QED
    BY <1>1, <1>2, <2>1, OneMessage, LeftStore DEF device
<1>5. CASE CloudAdvance \/ CloudResend
  <2>1. /\ cloud = "sending" /\ toCloud # <<>> /\ toCloud' = Tail(toCloud)
        /\ cloud' \in {"sending", "finishing"}
    BY <1>5 DEF CloudAdvance, CloudResend
  <2>2. toCloud' = <<>>
    BY <1>1, <2>1, UpStage
  <2>3. ASSUME cloud' = "finishing" PROVE updateIndex = NumChunks
    <3>1. Head(toCloud) = Received(TRUE) /\ ~(next + 1 < NumChunks)
      BY <1>5, <2>1, <2>3 DEF CloudAdvance, CloudResend
    <3>2. next + 1 = NumChunks
      BY <3>1, ChunkAssumption DEF StepInv, Counters, Chunks
    <3>3. toCloud = <<Received(TRUE)>>
      BY <1>1, <2>1, <3>1, OneMessage, Up
         DEF StepInv, TalkInv, Sending, Silent, OnlyDown, OnlyUp
    <3>4. QED
      BY <1>1, <2>1, <3>2, <3>3 DEF StoreInv
  <2>4. QED
    BY <1>1, <1>2, <2>1, <2>2, <2>3, OneMessage, LeftStore DEF device
<1>6. QED
  BY <1>3, <1>4, <1>5 DEF Cloud

\* What happens between messages.
LEMMA BetweenStore ==
  ASSUME StoreInv, StepInv, ChunkTimeout \/ Watchdog \/ Connect \/ Tick \/ Break \/ CloudStops
  PROVE  StoreInv'
<1>1. CASE ChunkTimeout
  <2>1. /\ linked /\ toCloud' = Append(toCloud, Missed(chunkIndex)) /\ sinceChunk = 1
        /\ UNCHANGED <<linked, chunkIndex, updateIndex, address, flash, flashUpdate,
                       otaFlag, cloud, next>>
    BY <1>1 DEF ChunkTimeout
  <2>2. otaFlag => cloud = "complete"
    BY <2>1, Installed
  <2>3. cloud = "sending" => toCloud = <<>>
    BY <2>1 DEF StepInv, TalkInv
  <2>4. cloud = "sending" => toCloud' # <<Received(TRUE)>>
    <3>1. <<Missed(chunkIndex)>> # <<Received(TRUE)>>
      BY SameMessage, Up
    <3>2. QED
      BY <2>1, <2>3, <3>1, OneMessage
  <2>5. QED
    BY <2>1, <2>2, <2>4 DEF StoreInv, At, Held
<1>2. CASE Watchdog
  <2>1. ~otaFlag /\ UNCHANGED otaFlag
    BY <1>2, Installed DEF Watchdog
  <2>2. ~linked' /\ chunkIndex' = 0 /\ updateIndex' = 0 /\ address' = 0
    BY <1>2 DEF Watchdog, Reset
  <2>3. At(updateIndex)' /\ updateIndex' <= NumChunks /\ Held(updateIndex)'
    BY <2>2, ChunkAssumption DEF At, Held
  <2>4. QED
    BY <2>1, <2>2, <2>3 DEF StoreInv
<1>3. CASE Connect
  <2>1. /\ ~linked /\ cloud' \in {"idle", "complete"}
        /\ UNCHANGED <<chunkIndex, updateIndex, address, flash, flashUpdate, otaFlag>>
        /\ cloud = "complete" \/ DoneAck \in ToSet(toCloud) => cloud' = "complete"
    BY <1>3 DEF Connect
  <2>2. QED
    BY <2>1 DEF StoreInv, At, Held
<1>4. CASE Tick
  BY <1>4, LeftStore DEF Tick, StoreInv
<1>5. CASE Break
  <2>1. /\ ~linked' /\ linked /\ ~flashUpdate'
        /\ UNCHANGED <<chunkIndex, updateIndex, address, flash, otaFlag, cloud>>
    BY <1>5 DEF Break
  <2>2. QED
    BY <2>1, Installed DEF StoreInv, At, Held
<1>6. CASE CloudStops
  <2>1. linked /\ cloud # "complete" /\ cloud' = "gone" /\ UNCHANGED <<device, toCloud>>
    BY <1>6 DEF CloudStops
  <2>2. QED
    BY <2>1, Installed, LeftStore DEF device
<1>7. QED
  BY <1>1, <1>2, <1>3, <1>4, <1>5, <1>6

LEMMA NextStore ==
  ASSUME StoreInv, StepInv, ~ShortLast, [Next]_vars
  PROVE  StoreInv'
<1>1. ASSUME NEW n \in Chunks, ReceiveDamaged(n) PROVE StoreInv'
  <2>1. /\ linked /\ toDevice # <<>> /\ Head(toDevice) = Chunk(n, FALSE)
        /\ UNCHANGED <<linked, chunkIndex, updateIndex, address, flash, flashUpdate,
                       otaFlag, cloud, next>>
        /\ toCloud' = Append(toCloud, Received(FALSE))
    BY <1>1 DEF ReceiveDamaged
  <2>2. ~otaFlag /\ (cloud = "gone" \/ (cloud = "sending" /\ toCloud = <<>>))
    BY <2>1, Installed, DownStage, Down
  <2>3. cloud = "sending" => toCloud' # <<Received(TRUE)>>
    BY <2>1, <2>2, OneMessage, Up
  <2>4. QED
    BY <2>1, <2>2, <2>3 DEF StoreInv, At, Held
<1>2. CASE UNCHANGED vars
  BY <1>2, LeftStore DEF vars, device, StoreInv
<1>3. QED
  BY <1>1, <1>2, BeginStore, ChunkStore, DoneStore, CloudStore, BetweenStore
     DEF Next, Device, Receive

LEMMA StoreProperties == ~ShortLast /\ StepInv /\ StoreInv => NothingMissing /\ ImageIntact
<1> SUFFICES ASSUME ~ShortLast, StepInv, StoreInv PROVE NothingMissing /\ ImageIntact
  OBVIOUS
<1>1. ASSUME NEW k \in Nat, Held(k), NEW n \in Chunks, n < k PROVE Stored(n)
  <2>1. n \in Nat
    BY ChunkAssumption DEF Chunks
  <2>2. \A j \in {0, 1} : 2 * n + j \in 0 .. 2 * k - 1
    BY <1>1, <2>1
  <2>3. QED
    BY <1>1, <2>1, <2>2 DEF Held, Stored, Size, Content
<1>2. NothingMissing
  BY <1>1 DEF NothingMissing, StoreInv, At, StepInv, Counters
<1>3. \A n \in Chunks : n < NumChunks /\ NumChunks \in Nat
  BY ChunkAssumption DEF Chunks
<1>4. ImageIntact
  BY <1>1, <1>3 DEF ImageIntact, StoreInv
<1>5. QED
  BY <1>2, <1>4

LEMMA StoreAlways == ASSUME ~ShortLast PROVE Spec => [](StepInv /\ StoreInv)
<1>1. Init => StepInv /\ StoreInv
  BY InitStep, InitStore
<1>2. StepInv /\ StoreInv /\ [Next]_vars => (StepInv /\ StoreInv)'
  BY NextStep, NextStore
<1>3. QED
  BY <1>1, <1>2, PTL DEF Spec

\* Backing off to the start of a sector, chunks asked for again and broken connections
\* leave no hole before the chunk the device asks for next, in an image of whole chunks
\* and sectors of any size.
THEOREM NothingMissingAlways == ASSUME ~ShortLast PROVE Spec => []NothingMissing
  BY StoreAlways, StoreProperties, PTL

\* FLASH_End never hands an incomplete or damaged image to the boot loader, though it
\* checks nothing, as long as the image consists of whole chunks.
THEOREM ImageIntactAlways == ASSUME ~ShortLast PROVE Spec => []ImageIntact
  BY StoreAlways, StoreProperties, PTL
=============================================================================
