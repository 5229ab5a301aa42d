-------------------------- MODULE Cc3000AnswerProofs --------------------------
(***************************************************************************)
(* Theorems about the answers and the transmit buffers of Cc3000Driver,    *)
(* for any number of buffers, calls, events and timeouts.                  *)
(***************************************************************************)
EXTENDS Cc3000Proofs, FiniteSetTheorems, FunctionTheorems, SequenceTheorems

-----------------------------------------------------------------------------
(* Counting packets, and their places in a queue *)

Count(s, ops) == Cardinality({i \in DOMAIN s : s[i].op \in ops})
One(condition) == IF condition THEN 1 ELSE 0

LEMMA CountSets ==
  ASSUME NEW S, NEW s \in Seq(S), NEW T \in SUBSET (DOMAIN s)
  PROVE  IsFiniteSet(T) /\ Cardinality(T) \in Nat
<1>1. IsFiniteSet(DOMAIN s)
  BY FS_Interval, LenProperties
<1>2. IsFiniteSet(T)
  BY <1>1, FS_Subset
<1>3. QED
  BY <1>2, FS_CardinalityType

LEMMA CountType ==
  ASSUME NEW S, NEW s \in Seq(S), NEW ops
  PROVE  Count(s, ops) \in Nat
<1> DEFINE T == {i \in DOMAIN s : s[i].op \in ops}
<1>1. T \in SUBSET (DOMAIN s)
  OBVIOUS
<1> HIDE DEF T
<1>2. Cardinality(T) \in Nat
  BY <1>1, CountSets
<1>3. QED
  BY <1>2 DEF T, Count

LEMMA CountEmpty == \A ops : Count(<<>>, ops) = 0
<1>1. \A ops : {i \in DOMAIN <<>> : <<>>[i].op \in ops} = {}
  OBVIOUS
<1>2. QED
  BY <1>1, FS_EmptySet DEF Count

LEMMA CountAppend ==
  ASSUME NEW S, NEW s \in Seq(S), NEW x \in S, NEW ops
  PROVE  Count(Append(s, x), ops) = Count(s, ops) + One(x.op \in ops)
<1> DEFINE T == {i \in DOMAIN s : s[i].op \in ops}
           U == {i \in DOMAIN Append(s, x) : Append(s, x)[i].op \in ops}
           n == Len(s) + 1
<1>1. /\ DOMAIN s = 1 .. Len(s) /\ Len(s) \in Nat
      /\ DOMAIN Append(s, x) = 1 .. n
      /\ Append(s, x)[n] = x
      /\ \A i \in 1 .. Len(s) : Append(s, x)[i] = s[i]
  BY LenProperties, AppendProperties
<1>2. T \in SUBSET (DOMAIN s) /\ n \notin T
  BY <1>1
<1>3. U = IF x.op \in ops THEN T \cup {n} ELSE T
  BY <1>1
<1> HIDE DEF T, U, n
<1>4. IsFiniteSet(T) /\ Cardinality(T) \in Nat
  BY <1>2, CountSets
<1>5. Cardinality(T \cup {n}) = Cardinality(T) + 1
  BY <1>2, <1>4, FS_AddElement
<1>6. Cardinality(U) = Cardinality(T) + One(x.op \in ops)
  BY <1>3, <1>4, <1>5 DEF One
<1>7. QED
  BY <1>6 DEF T, U, Count

LEMMA CountTail ==
  ASSUME NEW S, NEW s \in Seq(S), s # <<>>, NEW ops
  PROVE  Count(s, ops) = Count(Tail(s), ops) + One(Head(s).op \in ops)
<1> DEFINE T == {i \in DOMAIN s : s[i].op \in ops}
           U == {i \in DOMAIN Tail(s) : Tail(s)[i].op \in ops}
           f == [i \in U |-> i + 1]
<1>1. /\ Tail(s) \in Seq(S) /\ Head(s) = s[1] /\ Len(s) \in Nat \ {0}
      /\ DOMAIN s = 1 .. Len(s) /\ DOMAIN Tail(s) = 1 .. Len(s) - 1
      /\ \A i \in 1 .. Len(s) - 1 : Tail(s)[i] = s[i + 1]
  BY LenProperties, HeadTailProperties, EmptySeq
<1>2. U \in SUBSET (DOMAIN Tail(s)) /\ T \in SUBSET (DOMAIN s)
  OBVIOUS
<1>3. f \in Bijection(U, T \ {1})
  <2>1. f \in [U -> T \ {1}]
    BY <1>1
  <2>2. \A i, j \in U : f[i] = f[j] => i = j
    BY <1>1
  <2>3. \A k \in T \ {1} : \E i \in U : f[i] = k
    <3> SUFFICES ASSUME NEW k \in T \ {1} PROVE \E i \in U : f[i] = k
      OBVIOUS
    <3>1. k \in 2 .. Len(s) /\ k - 1 \in 1 .. Len(s) - 1 /\ (k - 1) + 1 = k
      BY <1>1
    <3>2. k - 1 \in U
      BY <1>1, <3>1
    <3>3. QED
      BY <3>1, <3>2
  <2>4. QED
    BY <2>1, <2>2, <2>3, Fun_IsBij
<1>4. 1 \in T <=> Head(s).op \in ops
  BY <1>1
<1> HIDE DEF T, U, f
<1>5. /\ IsFiniteSet(T) /\ Cardinality(T) \in Nat
      /\ IsFiniteSet(U) /\ Cardinality(U) \in Nat
  BY <1>1, <1>2, CountSets
<1>6. Cardinality(T \ {1}) = Cardinality(U)
  BY <1>3, <1>5, FS_Bijection, Fun_ExistsBij
<1>7. Cardinality(T \ {1}) = Cardinality(T) - One(Head(s).op \in ops)
  <2>1. Cardinality(T \ {1}) = IF 1 \in T THEN Cardinality(T) - 1 ELSE Cardinality(T)
    BY <1>5, FS_RemoveElement
  <2>2. QED
    BY <1>4, <1>5, <2>1 DEF One
<1>8. Cardinality(T) = Cardinality(U) + One(Head(s).op \in ops)
  BY <1>5, <1>6, <1>7 DEF One
<1>9. QED
  BY <1>8 DEF T, U, Count

LEMMA CountPositive ==
  ASSUME NEW S, NEW s \in Seq(S), NEW ops, NEW i \in DOMAIN s, s[i].op \in ops
  PROVE  Count(s, ops) > 0
<1> DEFINE T == {j \in DOMAIN s : s[j].op \in ops}
<1>1. T \in SUBSET (DOMAIN s) /\ i \in T
  OBVIOUS
<1> HIDE DEF T
<1>2. IsFiniteSet(T) /\ Cardinality(T) \in Nat /\ T # {}
  BY <1>1, CountSets
<1>3. Cardinality(T) # 0
  BY <1>2, FS_EmptySet
<1>4. QED
  BY <1>2, <1>3 DEF T, Count
LEMMA CountEmptied ==
  ASSUME NEW S, NEW s \in Seq(S), NEW ops, Count(s, ops) = 0
  PROVE  \A i \in DOMAIN s : s[i].op \notin ops
<1> SUFFICES ASSUME NEW i \in DOMAIN s, s[i].op \in ops PROVE FALSE
  OBVIOUS
<1>1. Count(s, ops) > 0
  BY CountPositive
<1>2. QED
  BY <1>1

LEMMA AppendPlaces ==
  ASSUME NEW S, NEW s \in Seq(S), NEW x \in S
  PROVE  /\ Append(s, x) \in Seq(S) /\ Append(s, x) # <<>>
         /\ Len(Append(s, x)) = Len(s) + 1 /\ Len(s) \in Nat
         /\ \A i \in DOMAIN s : i \in DOMAIN Append(s, x) /\ Append(s, x)[i] = s[i]
         /\ \A i \in DOMAIN Append(s, x) :
              (i \in DOMAIN s /\ Append(s, x)[i] = s[i]) \/ Append(s, x)[i] = x
         /\ \E i \in DOMAIN Append(s, x) : Append(s, x)[i] = x
  BY LenProperties, AppendProperties

LEMMA TailPlaces ==
  ASSUME NEW S, NEW s \in Seq(S), s # <<>>
  PROVE  /\ Tail(s) \in Seq(S) /\ Head(s) \in S
         /\ Len(s) = Len(Tail(s)) + 1 /\ Len(Tail(s)) \in Nat
         /\ \A i \in DOMAIN Tail(s) : i + 1 \in DOMAIN s /\ Tail(s)[i] = s[i + 1]
         /\ 1 \in DOMAIN s /\ Head(s) = s[1]
         /\ \A i \in DOMAIN s : i = 1 \/ (i - 1 \in DOMAIN Tail(s) /\ Tail(s)[i - 1] = s[i])
<1>1. /\ Tail(s) \in Seq(S) /\ Head(s) \in S /\ Head(s) = s[1] /\ Len(s) \in Nat \ {0}
      /\ DOMAIN s = 1 .. Len(s) /\ DOMAIN Tail(s) = 1 .. Len(s) - 1
      /\ Len(Tail(s)) = Len(s) - 1
      /\ \A i \in 1 .. Len(s) - 1 : Tail(s)[i] = s[i + 1]
  BY LenProperties, HeadTailProperties, EmptySeq
<1>2. QED
  BY <1>1

Replying == Ops \cup BootOps
Replied  == Replying \cup {"sendFailed"}

-----------------------------------------------------------------------------
(* Types *)

Places == {"open", "first", "first rest", "writing", "written", "event", "recv",
           "data", "panic", "started", "reserve", "free", "consume", "swap",
           "proceed", "flash", "released"}
Sent    == Answers \cup Events
Packets == Sent \cup {Nothing, Garbage}
Commands == [op : Replying, id : Numbers]

BusTypes ==
  /\ spi \in {"POWERUP", "INITIALIZED", "IDLE", "FIRST_WRITE", "WRITE_WAIT_IRQ",
              "WRITE_PROCEED", "READ_IRQ", "READ_PROCEED", "READ_PREP_IRQ"}
  /\ owner \in {"none", "CC3000", "SFLASH"}
  /\ irq \in BOOLEAN /\ edge \in BOOLEAN /\ low \in BOOLEAN
  /\ received \in BOOLEAN /\ buffer \in Packets
ThreadTypes ==
  /\ main \in Places /\ call \in Commands /\ result \in Packets
  /\ opcode \in Replying \cup {"none"}
  /\ dataPending \in BOOLEAN /\ solicited \in BOOLEAN
  /\ transmitError \in BOOLEAN /\ active \in BOOLEAN
  /\ freeBuffers \in Nat /\ seen \in Nat
ChipTypes ==
  /\ work \in Seq(Commands) /\ outbox \in Seq(Sent) /\ sending \in Nat
  /\ faults \in [event : 0 .. MaxEvent, refused : 0 .. MaxRefused, late : 0 .. MaxLate]
  /\ dropped \subseteq Numbers /\ failed \subseteq Numbers

Types == BusTypes /\ ThreadTypes /\ ChipTypes

-----------------------------------------------------------------------------
(* Where main is *)

\* The command main is at has not reached the chip.
Unwritten == main \in {"open", "first", "first rest", "reserve", "consume", "swap",
                       "proceed"} \/ dma = "write"

CallInv ==
  /\ call.op = "start" <=> call.id = 0
  /\ call.op = "bufferSize" <=> call.id = 1
  /\ main \in {"open", "first", "first rest", "started"} => call.id = 0
  /\ main \in {"free", "flash", "released", "reserve", "consume", "swap", "proceed",
               "recv", "data"} => call.id > 0
  /\ main \in {"consume", "swap"} => call.op = "send"
  /\ main = "swap" => seen > 0
  /\ main \in {"recv", "data"} => call.op = "recv"
  /\ dma = "write" => main \in {"first rest", "writing"}
  /\ spi = "FIRST_WRITE" => main = "first rest"

WaitInv ==
  /\ main \in {"first rest", "proceed", "writing", "written", "event"} => solicited
  /\ main = "event" => opcode = call.op
  /\ main \in {"recv", "data"} => opcode = "none"
  /\ dataPending => main \in {"data", "panic"}
  /\ main = "data" => dataPending

\* The interrupt is paused exactly while a packet waits for main, and a read is begun
\* only when there is something to read.
ReadInv ==
  /\ irq <=> ~received
  /\ spi \in {"READ_PREP_IRQ", "READ_IRQ", "READ_PROCEED"} => ~received
  /\ \/ spi \in {"READ_PREP_IRQ", "READ_IRQ", "READ_PROCEED"}
     \/ spi = "IDLE" /\ low
     => outbox # <<>>

\* Commands and answers are about calls already made, and those of the present one
\* match it.
OrderInv ==
  /\ \A i \in DOMAIN work :
       /\ work[i].id <= call.id
       /\ work[i].id = call.id => work[i].op = call.op /\ ~Unwritten
  /\ \A i \in DOMAIN outbox :
       outbox[i].op \in Replied =>
         /\ outbox[i].id <= call.id
         /\ outbox[i].id = call.id =>
              /\ ~Unwritten
              /\ \/ outbox[i].op = call.op
                 \/ outbox[i].op = "sendFailed" /\ call.op = "send"
  /\ \A id \in failed : id <= call.id /\ (id = call.id => call.op = "send" /\ ~Unwritten)

PlaceInv == CallInv /\ WaitInv /\ ReadInv /\ OrderInv

\* Unless main is held up, the answer to anything but a send comes when main waits
\* for it.
KeptInv ==
  /\ dropped = {}
  /\ main \in {"writing", "written"} =>
       \A i \in DOMAIN outbox :
         outbox[i].op \in Replying /\ outbox[i].id = call.id => outbox[i].op = "send"

-----------------------------------------------------------------------------
(* How many *)

QueueInv ==
  /\ Len(work) + One(Unwritten) <= call.id + 1
  /\ Len(outbox) + sending + 2 * Len(work) + 2 * One(Unwritten)
       <= 2 * (call.id + 1) + faults.event

Total  == freeBuffers + Reserved + sending + Count(outbox, {"freeBuffer"})
            + Count(work, {"send"})
Sizing == Count(work, {"bufferSize"}) + Count(outbox, {"bufferSize"})
            + One(received /\ buffer.op = "bufferSize")
            + One(Unwritten /\ call.op = "bufferSize")

\* The chip says once how many buffers it has; from then on every buffer is somewhere.
CreditInv ==
  /\ Total = 0 \/ (Total = Buffers /\ Sizing = 0)
  /\ Sizing <= 1
  /\ call.id = 0 => Total = 0 /\ Sizing = 0
  /\ seen <= Buffers

SizedInv ==
  faults.late = 0 /\ dropped = {} /\ (call.op \in Ops
      \/ (call.op = "bufferSize" /\ main \in {"free", "flash", "released"}))
    => Total = Buffers

\* As long as no wait has timed out before its answer: of the present call one trace
\* is left at most, and none when it has returned; no older call has left any.
Outstanding == Len(work) + Count(outbox, Replied) + One(received /\ buffer.op \in Replying)
Data        == Count(outbox, {"data"}) + One(received /\ buffer.op = "data")
Announced ==
  \/ \E i \in DOMAIN outbox : outbox[i].op = "recv" /\ outbox[i].more
  \/ received /\ buffer.op = "recv" /\ buffer.more

Counted ==
  /\ Outstanding + One(Unwritten) + One(call.id \in failed) <= 1
  /\ main \notin {"writing", "written", "event"} => Outstanding = 0
Own ==
  /\ \A i \in DOMAIN work : work[i].id = call.id
  /\ \A i \in DOMAIN outbox : outbox[i].op \in Replied \cup {"data"} => outbox[i].id = call.id
  /\ received /\ buffer.op \in Replying \cup {"data"} => buffer.id = call.id
  /\ received /\ buffer.op \in Replying => buffer.op = call.op
  /\ result # Nothing => result.id = call.id
Following ==
  /\ Data <= 1
  /\ Data = 1 => main \in {"recv", "data"} \/ Announced
  /\ main \in {"recv", "data"} /\ received => buffer # Garbage

Punctual == Counted /\ Own /\ Following

PunctualInv == faults.late = 0 => Punctual

Unread ==
  /\ received => main \in {"writing", "written", "event", "recv", "data"} /\ buffer # Garbage
  /\ solicited => main \in {"first rest", "proceed", "writing", "written", "event"}

UnreadInv ==
  faults.late = 0 /\ failed = {} => Unread

-----------------------------------------------------------------------------
(* Types *)

\* The steps of one part leave what belongs to the others.
LEMMA TypesStay ==
  ASSUME Types
  PROVE  /\ UNCHANGED <<spi, owner, pins, received, buffer>> => BusTypes'
         /\ UNCHANGED <<thread, waiting, solicited, flow>> => ThreadTypes'
         /\ UNCHANGED <<chip, faults, history>> => ChipTypes'
<1>1. UNCHANGED <<spi, owner, pins, received, buffer>> => BusTypes'
  BY DEF Types, BusTypes, pins
<1>2. UNCHANGED <<thread, waiting, solicited, flow>> => ThreadTypes'
  BY DEF Types, ThreadTypes, thread, waiting, flow
<1>3. UNCHANGED <<chip, faults, history>> => ChipTypes'
  BY DEF Types, ChipTypes, chip, history
<1>4. QED
  BY <1>1, <1>2, <1>3

LEMMA PacketTypes ==
  /\ Nothing \in Packets /\ Garbage \in Packets
  /\ \A op \in {"freeBuffer", "known", "unknown"} :
       Packet(op, 0, FALSE) \in Sent /\ Packet(op, 0, FALSE).op = op
  /\ \A op \in Replying \cup {"sendFailed", "data"}, id \in Numbers, more \in BOOLEAN :
       /\ Packet(op, id, more) \in Sent /\ Packet(op, id, more).op = op
       /\ Packet(op, id, more).id = id /\ Packet(op, id, more).more = more
  /\ \A p \in Sent :
       /\ p \in Packets /\ p # Garbage /\ p # Nothing
       /\ p.op \in Replied \cup {"data", "freeBuffer", "known", "unknown"}
       /\ p.more \in BOOLEAN /\ p.id \in Numbers
  /\ Nothing.op = "nothing" /\ Garbage.op = "garbage"
<1> USE DEF Packets, Sent, Answers, Events, Packet, Nothing, Garbage, Replying, Replied,
            Ops, BootOps
<1>1. 0 \in Numbers
  BY BoundAssumption DEF Numbers
<1>2. \A op \in {"freeBuffer", "known", "unknown"} :
        Packet(op, 0, FALSE) \in Sent /\ Packet(op, 0, FALSE).op = op
  OBVIOUS
<1>3. \A op \in Replying \cup {"sendFailed", "data"}, id \in Numbers, more \in BOOLEAN :
        /\ Packet(op, id, more) \in Sent /\ Packet(op, id, more).op = op
        /\ Packet(op, id, more).id = id /\ Packet(op, id, more).more = more
  OBVIOUS
<1>4. ASSUME NEW p \in Sent
      PROVE  /\ p \in Packets /\ p # Garbage /\ p # Nothing
             /\ p.op \in Replied \cup {"data", "freeBuffer", "known", "unknown"}
             /\ p.more \in BOOLEAN /\ p.id \in Numbers
  <2>1. CASE p \in Answers
    <3>1. /\ p.op \in Replied \cup {"data"}
          /\ p.more \in BOOLEAN /\ p.id \in Numbers
      BY <2>1
    <3>2. p.op # "garbage" /\ p.op # "nothing"
      BY <3>1
    <3>3. QED
      BY <2>1, <3>1, <3>2
  <2>2. CASE p \in Events
    <3>1. PICK op \in {"freeBuffer", "known", "unknown"} : p = Packet(op, 0, FALSE)
      BY <2>2
    <3>2. p.op = op /\ p.id = 0 /\ p.more = FALSE
      BY <3>1
    <3>3. QED
      BY <1>1, <2>2, <3>1, <3>2
  <2>3. QED
    BY <2>1, <2>2
<1>5. QED
  BY <1>2, <1>3, <1>4

LEMMA InitTypes == Init => Types
<1> SUFFICES ASSUME Init PROVE Types
  OBVIOUS
<1>1. /\ irq \in BOOLEAN /\ edge \in BOOLEAN /\ low \in BOOLEAN /\ received \in BOOLEAN
      /\ dataPending \in BOOLEAN /\ solicited \in BOOLEAN
      /\ transmitError \in BOOLEAN /\ active \in BOOLEAN
  BY Zenon DEF Init
<1>2. BusTypes
  BY <1>1, PacketTypes DEF Init, BusTypes
<1>3. [op |-> "start", id |-> 0] \in Commands
  BY BoundAssumption DEF Commands, Replying, BootOps, Numbers
<1>4. ThreadTypes
  BY <1>1, <1>3, PacketTypes DEF Init, ThreadTypes, Places
<1>5. ChipTypes
  <2>1. [event |-> 0, refused |-> 0, late |-> 0]
          \in [event : 0 .. MaxEvent, refused : 0 .. MaxRefused, late : 0 .. MaxLate]
    BY BoundAssumption
  <2>2. QED
    BY <2>1 DEF Init, ChipTypes
<1>6. QED
  BY <1>2, <1>4, <1>5 DEF Types

LEMMA EdgeTypes == Types /\ SPI_EXTI_IntHandler => Types'
<1> SUFFICES ASSUME Types, SPI_EXTI_IntHandler PROVE Types'
  OBVIOUS
<1>1. ThreadTypes' /\ ChipTypes'
  BY TypesStay DEF SPI_EXTI_IntHandler
<1>2. edge' \in BOOLEAN
  BY Zenon DEF SPI_EXTI_IntHandler, Initialized, ReadRequested, ReadPostponed,
               WriteAllowed, Ignored, Interrupt
<1>3. UNCHANGED <<irq, low, received>>
  BY DEF SPI_EXTI_IntHandler
<1>4. /\ spi' \in {spi, "INITIALIZED", "READ_IRQ", "READ_PREP_IRQ", "WRITE_PROCEED"}
      /\ owner' \in {owner, "CC3000"} /\ buffer' \in {buffer, Garbage}
  BY DEF SPI_EXTI_IntHandler, Initialized, ReadRequested, ReadPostponed, WriteAllowed,
         Ignored, StartRead, Assert, bus
<1>5. BusTypes'
  BY <1>2, <1>3, <1>4, PacketTypes DEF Types, BusTypes
<1>6. QED
  BY <1>1, <1>5 DEF Types

\* Something is read only when the chip has something to send.
LEMMA TransferTypes == Types /\ ReadInv /\ SPI_DMA_IntHandler => Types'
<1> SUFFICES ASSUME Types, ReadInv, SPI_DMA_IntHandler PROVE Types'
  OBVIOUS
<1>1. UNCHANGED <<thread, waiting, solicited, faults>>
  BY DEF SPI_DMA_IntHandler
<1>2. CASE HeaderDone \/ FirstBytesDone
  <2>1. ThreadTypes' /\ ChipTypes'
    BY <1>1, <1>2, TypesStay DEF HeaderDone, FirstBytesDone
  <2>2. BusTypes'
    BY <1>2 DEF HeaderDone, FirstBytesDone, pins, Types, BusTypes
  <2>3. QED
    BY <2>1, <2>2 DEF Types
<1>3. CASE WriteDone
  <2>1. ThreadTypes'
    BY <1>1, <1>3, TypesStay DEF WriteDone
  <2>2. low' \in BOOLEAN
    BY <1>3, Zenon DEF WriteDone, Deassert
  <2>3. BusTypes'
    BY <1>3, <2>2 DEF WriteDone, Deassert, Types, BusTypes
  <2>4. work' \in Seq(Commands)
    BY <1>3, AppendPlaces DEF WriteDone, Types, ThreadTypes, ChipTypes
  <2>5. ChipTypes'
    BY <1>1, <1>3, <2>4 DEF WriteDone, Types, ChipTypes, history
  <2>6. QED
    BY <2>1, <2>3, <2>5 DEF Types
<1>4. CASE PayloadDone
  <2> DEFINE p == Head(outbox)
  <2>1. outbox # <<>> /\ outbox \in Seq(Sent)
    BY <1>4 DEF PayloadDone, ReadInv, Types, ChipTypes
  <2>2. p \in Sent /\ outbox' \in Seq(Sent)
    BY <1>4, <2>1, TailPlaces DEF PayloadDone
  <2>3. p \in Packets /\ p.id \in Numbers
    BY <2>2, PacketTypes
  <2> HIDE DEF p
  <2>4. low' \in BOOLEAN /\ irq' \in BOOLEAN /\ received' \in BOOLEAN
    <3>1. low' \in BOOLEAN
      BY <1>4, Zenon DEF PayloadDone, Deassert
    <3>2. received' = ~Released(p) /\ irq' = ~Paused(p)
      BY <1>4 DEF PayloadDone, p
    <3>3. QED
      BY <3>1, <3>2
  <2>5. BusTypes'
    BY <1>4, <2>3, <2>4 DEF PayloadDone, Deassert, Types, BusTypes, p
  <2>6. freeBuffers' \in Nat
    BY <1>4 DEF PayloadDone, Unsolicited, Credit, Types, ThreadTypes
  <2>7. transmitError' \in BOOLEAN /\ active' \in BOOLEAN
    <3>1. CASE p.op = "sendFailed"
      BY <1>4, <3>1, Zenon DEF PayloadDone, Unsolicited, p
    <3>2. CASE p.op # "sendFailed"
      BY <1>4, <3>2 DEF PayloadDone, Unsolicited, p, Types, ThreadTypes
    <3>3. QED
      BY <3>1, <3>2
  <2>8. ThreadTypes'
    BY <1>1, <2>6, <2>7 DEF Types, ThreadTypes, thread, waiting
  <2>9. ChipTypes'
    BY <1>1, <1>4, <2>2, <2>3 DEF PayloadDone, Types, ChipTypes, p
  <2>10. QED
    BY <2>5, <2>8, <2>9 DEF Types
<1>5. QED
  BY <1>2, <1>3, <1>4 DEF SPI_DMA_IntHandler

\* main writes.
LEMMA WriteTypes == Types /\ SpiWrite => Types'
<1> SUFFICES ASSUME Types, SpiWrite PROVE Types'
  OBVIOUS
<1>1. ChipTypes'
  BY TypesStay DEF SpiWrite
<1>2. /\ main' \in {"first", "first rest", "writing", "proceed", "written"}
      /\ UNCHANGED <<call, seen, result, waiting, flow>>
  BY DEF SpiWrite, SpiOpen, FirstWrite, FirstRest, Reserve, Proceed, Written, Goto
<1>3. solicited' \in BOOLEAN
  <2>1. CASE FirstWrite \/ Reserve
    BY <2>1, Zenon DEF FirstWrite, Reserve
  <2>2. CASE SpiOpen \/ FirstRest \/ Proceed \/ Written
    BY <2>2 DEF SpiOpen, FirstRest, Proceed, Written, Types, ThreadTypes
  <2>3. QED
    BY <2>1, <2>2 DEF SpiWrite
<1>4. ThreadTypes'
  BY <1>2, <1>3 DEF Types, ThreadTypes, waiting, flow, Places
<1>5. /\ spi' \in {spi, "FIRST_WRITE", "WRITE_WAIT_IRQ", "WRITE_PROCEED"}
      /\ owner' \in {owner, "CC3000"} /\ buffer' \in {buffer, Garbage}
      /\ UNCHANGED <<pins, received>>
  BY DEF SpiWrite, SpiOpen, FirstWrite, FirstRest, Reserve, Proceed, Written, Assert,
         StartWrite, bus
<1>6. BusTypes'
  BY <1>5, PacketTypes DEF Types, BusTypes, pins
<1>7. QED
  BY <1>1, <1>4, <1>6 DEF Types

\* main takes a packet, and may return with it.
LEMMA TakeTypes == Types /\ TakePacket /\ UNCHANGED <<bus, buffer, chip, faults>> => Types'
<1> SUFFICES ASSUME Types, TakePacket, UNCHANGED <<bus, buffer, chip, faults>>
             PROVE  Types'
  OBVIOUS
<1>1. UNCHANGED <<edge, low, transmitError, seen, history, call>>
  BY DEF TakePacket, AfterPacket, Return
<1>2. ChipTypes'
  BY <1>1, TypesStay
<1>3. irq' \in BOOLEAN /\ received' \in BOOLEAN
  BY Zenon DEF TakePacket, GiveBuffer
<1>4. BusTypes'
  BY <1>1, <1>3 DEF Types, BusTypes, bus
<1>5. /\ opcode' \in {opcode, "none"} /\ result' \in {result, buffer}
      /\ freeBuffers' \in {freeBuffers, Buffers}
  BY DEF TakePacket, TakeEvent, TakeData
<1>6. solicited' \in BOOLEAN /\ dataPending' \in BOOLEAN
  <2>1. CASE TakeEvent /\ buffer.op = opcode
    <3>1. solicited' \in BOOLEAN
      BY <2>1, Zenon DEF TakeEvent
    <3>2. QED
      BY <2>1, <3>1 DEF TakeEvent, Types, ThreadTypes
  <2>2. CASE TakeEvent /\ buffer.op # opcode
    BY <2>2 DEF TakeEvent, Types, ThreadTypes
  <2>3. CASE TakeData
    <3>1. dataPending' \in BOOLEAN
      BY <2>3, Zenon DEF TakeData
    <3>2. QED
      BY <2>3, <3>1 DEF TakeData, Types, ThreadTypes
  <2>4. QED
    BY <2>1, <2>2, <2>3 DEF TakePacket
<1>7. main' \in {main, "recv", "started", "free"} /\ active' \in BOOLEAN
  <2>1. CASE Return
    BY <2>1 DEF Return
  <2>2. CASE main' \in {main, "recv"} /\ UNCHANGED active
    BY <2>2 DEF Types, ThreadTypes
  <2>3. QED
    BY <2>1, <2>2 DEF TakePacket, AfterPacket
<1>8. ThreadTypes'
  BY <1>1, <1>5, <1>6, <1>7, BoundAssumption DEF Types, ThreadTypes, BusTypes, Places
<1>9. QED
  BY <1>2, <1>4, <1>8 DEF Types

LEMMA WaitTypes == Types /\ (hci_event_handler \/ Timeout \/ DataTimeout) => Types'
<1> SUFFICES ASSUME Types, hci_event_handler \/ Timeout \/ DataTimeout PROVE Types'
  OBVIOUS
<1>1. CASE SimpleLinkWaitEvent /\ UNCHANGED <<bus, buffer, chip, faults>>
  <2>1. BusTypes' /\ ChipTypes'
    BY <1>1, TypesStay DEF SimpleLinkWaitEvent, bus
  <2>2. ThreadTypes'
    BY <1>1 DEF SimpleLinkWaitEvent, Goto, flow, Types, ThreadTypes, Places, Commands
  <2>3. QED
    BY <2>1, <2>2 DEF Types
<1>2. CASE TakePacket /\ UNCHANGED <<bus, buffer, chip, faults>>
  BY <1>2, TakeTypes
<1>3. CASE SimpleLinkWaitData /\ UNCHANGED <<bus, buffer, chip, faults>>
  <2>1. BusTypes' /\ ChipTypes'
    BY <1>3, TypesStay DEF SimpleLinkWaitData, bus
  <2>2. dataPending' \in BOOLEAN
    BY <1>3, Zenon DEF SimpleLinkWaitData
  <2>3. ThreadTypes'
    BY <1>3, <2>2 DEF SimpleLinkWaitData, Goto, flow, Types, ThreadTypes, Places
  <2>4. QED
    BY <2>1, <2>3 DEF Types
<1>4. CASE Timeout \/ DataTimeout
  <2>1. BusTypes'
    BY <1>4, TypesStay DEF Timeout, DataTimeout, bus
  <2>2. ChipTypes'
    <3>1. faults' = faults
            \/ (faults.late < MaxLate /\ faults' = [faults EXCEPT !.late = @ + 1])
      BY <1>4 DEF Timeout, DataTimeout, GivesUp
    <3>2. faults' \in [event : 0 .. MaxEvent, refused : 0 .. MaxRefused, late : 0 .. MaxLate]
      BY <3>1, BoundAssumption DEF Types, ChipTypes
    <3>3. QED
      BY <1>4, <3>2 DEF Timeout, DataTimeout, chip, history, Types, ChipTypes
  <2>3. CASE Timeout
    <3>1. main' \in {"started", "free"} /\ active' \in BOOLEAN
      BY <2>3 DEF Timeout, Return
    <3>2. ThreadTypes'
      BY <2>3, <3>1, PacketTypes
         DEF Timeout, Return, waiting, Types, ThreadTypes, Places
    <3>3. QED
      BY <2>1, <2>2, <3>2 DEF Types
  <2>4. CASE DataTimeout
    <3>1. ThreadTypes'
      BY <2>4 DEF DataTimeout, Goto, waiting, flow, Types, ThreadTypes, Places
    <3>2. QED
      BY <2>1, <2>2, <3>1 DEF Types
  <2>5. QED
    BY <1>4, <2>3, <2>4
<1>5. QED
  BY <1>1, <1>2, <1>3, <1>4 DEF hci_event_handler

LEMMA FlowTypes == Types /\ CallInv /\ HostFlowControlConsumeBuff => Types'
<1> SUFFICES ASSUME Types, CallInv, HostFlowControlConsumeBuff PROVE Types'
  OBVIOUS
<1>1. BusTypes' /\ ChipTypes' /\ UNCHANGED <<waiting, solicited>>
  BY TypesStay DEF HostFlowControlConsumeBuff, bus
<1>2. transmitError' \in BOOLEAN /\ UNCHANGED active
  <2>1. CASE TransmitFailed
    BY <2>1, Zenon DEF TransmitFailed
  <2>2. CASE ~TransmitFailed
    BY <2>2 DEF HostFlowControlConsumeBuff, SocketInactive, NoBuffer, ReadCredit,
                CompareAndSwap, flow, Types, ThreadTypes
  <2>3. QED
    BY <2>1, <2>2 DEF TransmitFailed, HostFlowControlConsumeBuff, SocketInactive, NoBuffer,
                ReadCredit, CompareAndSwap, flow
<1>3. /\ main' \in {"free", "swap", "reserve", "consume"}
      /\ seen' \in {seen, freeBuffers}
      /\ UNCHANGED <<call, result>>
  BY DEF HostFlowControlConsumeBuff, TransmitFailed, SocketInactive, NoBuffer,
         ReadCredit, CompareAndSwap, Goto
<1>4. freeBuffers' = freeBuffers \/ (main = "swap" /\ freeBuffers' = seen - 1)
  BY DEF HostFlowControlConsumeBuff, TransmitFailed, SocketInactive, NoBuffer,
         ReadCredit, CompareAndSwap, flow
<1>5. freeBuffers' \in Nat
  <2>1. freeBuffers \in Nat /\ seen \in Nat /\ (main = "swap" => seen > 0)
    BY DEF CallInv, Types, ThreadTypes
  <2>2. QED
    BY <1>4, <2>1
<1>6. ThreadTypes'
  BY <1>1, <1>2, <1>3, <1>5 DEF Types, ThreadTypes, Places, waiting
<1>7. QED
  BY <1>1, <1>6 DEF Types

LEMMA CommandTypes ==
  ASSUME Types, CallInv, NEW op \in Ops \cup {"bufferSize"}, NewCommand(op)
  PROVE  Types'
<1>1. BusTypes' /\ ChipTypes' /\ UNCHANGED <<waiting, solicited, seen, flow>>
  BY TypesStay DEF NewCommand, bus
<1>2. /\ call.id <= MaxCall /\ call' = [op |-> op, id |-> call.id + 1]
      /\ result' = Nothing /\ main' \in {"reserve", "consume"}
  <2>1. CASE op = "bufferSize"
    BY <2>1, BoundAssumption DEF NewCommand, ReadBufferSize, Command, CallInv
  <2>2. CASE op # "bufferSize"
    BY <2>2 DEF NewCommand, Issue, Command
  <2>3. QED
    BY <2>1, <2>2
<1>3. call' \in Commands
  BY <1>2, BoundAssumption
     DEF Types, ThreadTypes, Commands, Replying, BootOps, Numbers
<1>4. ThreadTypes'
  BY <1>1, <1>2, <1>3, PacketTypes DEF Types, ThreadTypes, waiting, flow, Places
<1>5. QED
  BY <1>1, <1>4 DEF Types

LEMMA FlashTypes ==
  Types /\ (sFLASH_CS_LOW \/ sFLASH_CS_HIGH \/ handle_spi_request) => Types'
<1> SUFFICES ASSUME Types, sFLASH_CS_LOW \/ sFLASH_CS_HIGH \/ handle_spi_request
             PROVE  Types'
  OBVIOUS
<1>1. ChipTypes'
  BY TypesStay DEF sFLASH_CS_LOW, sFLASH_CS_HIGH, handle_spi_request
<1>2. ThreadTypes'
  BY DEF sFLASH_CS_LOW, sFLASH_CS_HIGH, handle_spi_request, Goto, waiting, flow, Types,
         ThreadTypes, Places
<1>3. /\ spi' \in {spi, "READ_IRQ"} /\ owner' \in {owner, "SFLASH", "none", "CC3000"}
      /\ buffer' \in {buffer, Garbage} /\ UNCHANGED <<pins, received>>
  BY DEF sFLASH_CS_LOW, sFLASH_CS_HIGH, handle_spi_request, StartRead, Assert, bus
<1>4. BusTypes'
  BY <1>3, PacketTypes DEF Types, BusTypes, pins
<1>5. QED
  BY <1>1, <1>2, <1>4 DEF Types

-----------------------------------------------------------------------------
(* Where main is *)

LEMMA InitPlace == Init => PlaceInv
<1> SUFFICES ASSUME Init PROVE PlaceInv
  OBVIOUS
<1>1. CallInv
  BY DEF Init, CallInv
<1>2. WaitInv /\ ReadInv
  BY DEF Init, WaitInv, ReadInv
<1>3. OrderInv
  BY DEF Init, OrderInv
<1>4. QED
  BY <1>1, <1>2, <1>3 DEF PlaceInv

LEMMA OrderStays ==
  ASSUME OrderInv, UNCHANGED <<work, outbox, failed, call>>, Unwritten' => Unwritten
  PROVE  OrderInv'
  BY DEF OrderInv

LEMMA EdgePlace == BusInv /\ PlaceInv /\ SPI_EXTI_IntHandler => PlaceInv'
<1> SUFFICES ASSUME BusInv, PlaceInv, SPI_EXTI_IntHandler PROVE PlaceInv'
  OBVIOUS
<1>1. /\ UNCHANGED <<irq, low, received, opcode, dataPending, solicited>>
      /\ UNCHANGED <<main, call, seen, work, outbox, failed>>
  BY DEF SPI_EXTI_IntHandler, waiting, thread, chip, history
<1>2. /\ spi' = spi \/ spi' \in {"INITIALIZED", "WRITE_PROCEED"}
         \/ (spi' \in {"READ_IRQ", "READ_PREP_IRQ"} /\ irq /\ low /\ spi = "IDLE")
      /\ dma' \in {dma, "header"}
  BY DEF SPI_EXTI_IntHandler, Initialized, ReadRequested, ReadPostponed, WriteAllowed,
         Ignored, StartRead, Interrupt, bus
<1>3. CallInv' /\ WaitInv'
  BY <1>1, <1>2 DEF PlaceInv, CallInv, WaitInv
<1>4. ReadInv'
  BY <1>1, <1>2 DEF PlaceInv, ReadInv
<1>5. OrderInv'
  BY <1>1, <1>2, OrderStays DEF PlaceInv, Unwritten
<1>6. QED
  BY <1>3, <1>4, <1>5 DEF PlaceInv

LEMMA TransferPlace ==
  ASSUME Types, BusInv, PlaceInv, SPI_DMA_IntHandler
  PROVE  PlaceInv'
<1>1. UNCHANGED <<main, call, seen, opcode, dataPending, solicited>>
  BY DEF SPI_DMA_IntHandler, thread, waiting
<1>2. /\ spi' \in {"READ_PROCEED", "IDLE", "WRITE_PROCEED"} /\ dma' \in {"payload", "none"}
      /\ spi' = "READ_PROCEED" => spi = "READ_IRQ"
      /\ spi' = "IDLE" => ~low'
  BY DEF SPI_DMA_IntHandler, HeaderDone, PayloadDone, FirstBytesDone, WriteDone, Deassert
<1>3. CallInv' /\ WaitInv'
  BY <1>1, <1>2 DEF PlaceInv, CallInv, WaitInv
<1>4. CASE HeaderDone \/ FirstBytesDone
  <2>1. UNCHANGED <<irq, received, work, outbox, failed>>
    BY <1>4 DEF HeaderDone, FirstBytesDone, pins, chip, history
  <2>2. ReadInv'
    BY <1>2, <2>1 DEF PlaceInv, ReadInv
  <2>3. OrderInv'
    BY <1>1, <1>2, <2>1, OrderStays DEF PlaceInv, Unwritten
  <2>4. QED
    BY <1>3, <2>2, <2>3 DEF PlaceInv
<1>5. CASE WriteDone
  <2>1. /\ UNCHANGED <<irq, received, outbox, failed>> /\ spi' = "IDLE" /\ ~low'
        /\ work' = Append(work, call) /\ work \in Seq(Commands) /\ call \in Commands
        /\ dma = "write" /\ spi = "WRITE_PROCEED" /\ dma' = "none"
    BY <1>5 DEF WriteDone, Deassert, history, Types, ThreadTypes, ChipTypes
  <2>2. ReadInv'
    BY <2>1 DEF PlaceInv, ReadInv
  <2>3. main = "writing" /\ Unwritten /\ ~Unwritten'
    BY <1>1, <2>1 DEF PlaceInv, CallInv, BusInv, WriteInv, Unwritten
  <2>4. \A i \in DOMAIN work' : (i \in DOMAIN work /\ work'[i] = work[i]) \/ work'[i] = call
    BY <2>1, AppendPlaces
  <2>5. call.id <= call.id
    BY DEF Types, ThreadTypes, Commands, Numbers
  <2>6. OrderInv'
    BY <1>1, <2>1, <2>3, <2>4, <2>5 DEF PlaceInv, OrderInv
  <2>7. QED
    BY <1>3, <2>2, <2>6 DEF PlaceInv
<1>6. CASE PayloadDone
  <2> DEFINE p == Head(outbox)
  <2>1. /\ spi = "READ_PROCEED" /\ spi' = "IDLE" /\ ~low' /\ outbox' = Tail(outbox)
        /\ UNCHANGED work /\ dma' = "none"
        /\ received' = ~Released(p) /\ irq' = ~Paused(p)
        /\ failed' = failed \cup IF p.op = "sendFailed" THEN {p.id} ELSE {}
    BY <1>6 DEF PayloadDone, Deassert
  <2>2. outbox # <<>> /\ outbox \in Seq(Sent)
    BY <2>1 DEF PlaceInv, ReadInv, Types, ChipTypes
  <2>3. /\ 1 \in DOMAIN outbox /\ p = outbox[1]
        /\ \A i \in DOMAIN outbox' : i + 1 \in DOMAIN outbox /\ outbox'[i] = outbox[i + 1]
    BY <2>1, <2>2, TailPlaces
  <2> HIDE DEF p
  <2>4. irq' <=> ~received'
    BY <2>1 DEF Paused
  <2>5. ReadInv'
    BY <2>1, <2>4 DEF ReadInv
  <2>6. Unwritten' => Unwritten
    BY <1>1, <2>1 DEF Unwritten
  <2>7. call.op # "sendFailed" /\ "sendFailed" \in Replied
    BY DEF Types, ThreadTypes, Commands, Replying, Replied, Ops, BootOps
  <2>8. p.op = "sendFailed" =>
          p.id <= call.id /\ (p.id = call.id => call.op = "send" /\ ~Unwritten)
    BY <2>3, <2>7 DEF PlaceInv, OrderInv
  <2>9. OrderInv'
    <3>1. \A id \in failed' : id <= call.id /\ (id = call.id => call.op = "send" /\ ~Unwritten)
      BY <2>1, <2>8 DEF PlaceInv, OrderInv
    <3>2. QED
      BY <1>1, <2>1, <2>3, <2>6, <3>1 DEF PlaceInv, OrderInv
  <2>10. QED
    BY <1>3, <2>5, <2>9 DEF PlaceInv
<1>7. QED
  BY <1>4, <1>5, <1>6 DEF SPI_DMA_IntHandler

LEMMA WritePlace == BusInv /\ PlaceInv /\ SpiWrite => PlaceInv'
<1> SUFFICES ASSUME BusInv, PlaceInv, SpiWrite PROVE PlaceInv'
  OBVIOUS
<1>1. /\ UNCHANGED <<irq, low, received, opcode, dataPending, work, outbox, failed>>
      /\ UNCHANGED <<call, seen>>
  BY DEF SpiWrite, SpiOpen, FirstWrite, FirstRest, Reserve, Proceed, Written, Goto,
         waiting, chip, history, pins
<1>2. \/ /\ main = "open" /\ main' = "first" /\ UNCHANGED <<spi, dma, solicited>>
      \/ /\ main = "first" /\ main' = "first rest" /\ spi' = "FIRST_WRITE"
         /\ dma' = "write" /\ solicited'
      \/ /\ main = "first rest" /\ main' = "writing" /\ spi # "FIRST_WRITE"
         /\ dma' = "write" /\ UNCHANGED <<spi, solicited>>
      \/ /\ main = "reserve" /\ main' = "proceed" /\ spi' = "WRITE_WAIT_IRQ"
         /\ UNCHANGED dma /\ solicited'
      \/ /\ main = "proceed" /\ main' = "writing" /\ spi' = "WRITE_PROCEED"
         /\ dma' = "write" /\ UNCHANGED solicited
      \/ /\ main = "writing" /\ main' = "written" /\ spi # "WRITE_PROCEED"
         /\ UNCHANGED <<spi, dma, solicited>>
  BY DEF SpiWrite, SpiOpen, FirstWrite, FirstRest, Reserve, Proceed, Written, Goto,
         StartWrite, bus
<1>3. CallInv'
  BY <1>1, <1>2 DEF PlaceInv, CallInv, BusInv, BusExclusive
<1>4. WaitInv'
  BY <1>1, <1>2 DEF PlaceInv, WaitInv
<1>5. ReadInv'
  BY <1>1, <1>2 DEF PlaceInv, ReadInv
<1>6. Unwritten' => Unwritten
  BY <1>2 DEF Unwritten
<1>7. OrderInv'
  BY <1>1, <1>6, OrderStays DEF PlaceInv
<1>8. QED
  BY <1>3, <1>4, <1>5, <1>7 DEF PlaceInv

\* A wait ends: the call returns, goes on to its data, or panics.
LEMMA WaitEnds ==
  ASSUME Types, CallInv, main \in {"event", "data"}, UNCHANGED <<call, seen, spi, dma>>,
         \/ main' \in {main, "panic"}
         \/ main' = "recv" /\ call.op = "recv"
         \/ main' = IF call.op = "start" THEN "started" ELSE "free"
  PROVE  CallInv'
<1>1. call.id \in Nat
  BY DEF Types, ThreadTypes, Commands, Numbers
<1>2. call.id # 0 => call.id > 0
  BY <1>1
<1>3. /\ call.op = "start" <=> call.id = 0
      /\ call.op = "bufferSize" <=> call.id = 1
      /\ main = "data" => call.op = "recv"
      /\ dma # "write" /\ spi # "FIRST_WRITE"
  BY DEF CallInv
<1>4. call.op = "recv" => call.id > 0
  BY <1>2, <1>3
<1>5. CASE main' = main
  BY <1>5 DEF CallInv
<1>6. CASE main' = "panic"
  BY <1>3, <1>6 DEF CallInv
<1>7. CASE main' = "recv" /\ call.op = "recv"
  BY <1>3, <1>4, <1>7 DEF CallInv
<1>8. CASE main' = IF call.op = "start" THEN "started" ELSE "free"
  <2>1. CASE call.op = "start"
    BY <1>3, <1>8, <2>1 DEF CallInv
  <2>2. CASE call.op # "start"
    <3>1. main' = "free" /\ call.id > 0
      BY <1>2, <1>3, <1>8, <2>2
    <3>2. QED
      BY <1>3, <3>1 DEF CallInv
  <2>3. QED
    BY <2>1, <2>2
<1>9. QED
  BY <1>5, <1>6, <1>7, <1>8

\* A call returns when its answer is taken, or goes on to wait for its data.
LEMMA TakePlace ==
  ASSUME Types, PlaceInv, TakePacket, UNCHANGED <<bus, buffer, chip, faults>>
  PROVE  PlaceInv'
<1>1. /\ main \in {"event", "data"} /\ irq' /\ ~received'
      /\ UNCHANGED <<spi, dma, low, seen, work, outbox, failed, call>>
  BY DEF TakePacket, GiveBuffer, AfterPacket, Return, bus, chip, history
<1>2. \/ opcode' = opcode /\ UNCHANGED solicited
      \/ opcode' = "none"
  BY DEF TakePacket, TakeEvent, TakeData
<1>3. \/ (opcode' # "none" \/ dataPending') /\ UNCHANGED main
      \/ opcode' = "none" /\ ~dataPending' /\ main' = "recv" /\ call.op = "recv"
      \/ opcode' = "none" /\ ~dataPending'
           /\ main' = IF call.op = "start" THEN "started" ELSE "free"
  BY DEF TakePacket, AfterPacket, Return, HasData
<1>4. dataPending' => dataPending
  BY DEF TakePacket, TakeEvent, TakeData
<1>5. call.id \in Nat /\ call.op # "none"
  BY DEF Types, ThreadTypes, Commands, Numbers, Replying, Ops, BootOps
<1>6. CallInv'
  BY <1>1, <1>3, WaitEnds DEF PlaceInv
<1>7. WaitInv'
  BY <1>1, <1>2, <1>3, <1>4, <1>5 DEF PlaceInv, WaitInv
<1>8. ReadInv'
  BY <1>1 DEF PlaceInv, ReadInv
<1>9. Unwritten' => Unwritten
  BY <1>1, <1>3 DEF Unwritten
<1>10. OrderInv'
  BY <1>1, <1>9, OrderStays DEF PlaceInv
<1>11. QED
  BY <1>6, <1>7, <1>8, <1>10 DEF PlaceInv

LEMMA WaitPlace ==
  ASSUME Types, BusInv, PlaceInv, hci_event_handler \/ Timeout \/ DataTimeout
  PROVE  PlaceInv'
<1>1. CASE TakePacket /\ UNCHANGED <<bus, buffer, chip, faults>>
  BY <1>1, TakePlace
<1>2. CASE (SimpleLinkWaitEvent \/ SimpleLinkWaitData) /\ UNCHANGED <<bus, buffer, chip, faults>>
  <2>1. /\ UNCHANGED <<spi, dma, irq, low, received, seen, work, outbox, failed, call, solicited>>
        /\ \/ main = "written" /\ main' = "event" /\ opcode' = call.op /\ UNCHANGED dataPending
           \/ main = "recv" /\ main' = "data" /\ dataPending' /\ UNCHANGED opcode
    BY <1>2 DEF SimpleLinkWaitEvent, SimpleLinkWaitData, Goto, pins, bus, chip, history
  <2>2. CallInv'
    BY <2>1 DEF PlaceInv, CallInv
  <2>3. WaitInv'
    <3>1. CASE main = "written"
      BY <2>1, <3>1 DEF PlaceInv, WaitInv
    <3>2. CASE main = "recv"
      BY <2>1, <3>2 DEF PlaceInv, WaitInv
    <3>3. QED
      BY <2>1, <3>1, <3>2
  <2>4. ReadInv'
    BY <2>1 DEF PlaceInv, ReadInv
  <2>5. OrderInv'
    BY <2>1, OrderStays DEF PlaceInv, Unwritten
  <2>6. QED
    BY <2>2, <2>3, <2>4, <2>5 DEF PlaceInv
<1>3. CASE Timeout \/ DataTimeout
  <2>1. /\ UNCHANGED <<spi, dma, irq, low, received, seen, work, outbox, failed, call,
                       solicited, opcode, dataPending>>
        /\ \/ main = "event" /\ main' = IF call.op = "start" THEN "started" ELSE "free"
           \/ main = "data" /\ main' = "panic"
    BY <1>3 DEF Timeout, DataTimeout, Return, Goto, pins, bus, chip, history, waiting
  <2>2. CallInv'
    BY <2>1, WaitEnds DEF PlaceInv
  <2>3. WaitInv' /\ ReadInv'
    BY <2>1 DEF PlaceInv, WaitInv, ReadInv
  <2>4. OrderInv'
    BY <2>1, OrderStays DEF PlaceInv, Unwritten
  <2>5. QED
    BY <2>2, <2>3, <2>4 DEF PlaceInv
<1>4. QED
  BY <1>1, <1>2, <1>3 DEF hci_event_handler

LEMMA FlowPlace ==
  ASSUME Types, BusInv, PlaceInv, HostFlowControlConsumeBuff
  PROVE  PlaceInv'
<1>1. UNCHANGED <<spi, dma, irq, low, received, solicited, opcode, dataPending, call,
                  work, outbox, failed>>
  BY DEF HostFlowControlConsumeBuff, TransmitFailed, SocketInactive, NoBuffer,
         ReadCredit, CompareAndSwap, Goto, pins, bus, waiting, chip, history
<1>2. \/ main = "consume" /\ main' = "free" /\ UNCHANGED seen
      \/ main = "consume" /\ main' = "swap" /\ seen' = freeBuffers /\ freeBuffers > 0
      \/ main = "swap" /\ main' \in {"reserve", "consume"} /\ UNCHANGED seen
  BY DEF HostFlowControlConsumeBuff, TransmitFailed, SocketInactive, NoBuffer,
         ReadCredit, CompareAndSwap, Goto
<1>3. CallInv'
  BY <1>1, <1>2 DEF PlaceInv, CallInv
<1>4. WaitInv' /\ ReadInv'
  BY <1>1, <1>2 DEF PlaceInv, WaitInv, ReadInv
<1>5. OrderInv'
  BY <1>1, <1>2, OrderStays DEF PlaceInv, Unwritten
<1>6. QED
  BY <1>3, <1>4, <1>5 DEF PlaceInv

\* A new call has a number of its own.
LEMMA CommandPlace ==
  ASSUME Types, BusInv, PlaceInv, NEW op \in Ops \cup {"bufferSize"}, NewCommand(op)
  PROVE  PlaceInv'
<1>1. /\ UNCHANGED <<spi, dma, irq, low, received, solicited, opcode, dataPending, seen,
                     work, outbox, failed>>
      /\ call' = [op |-> op, id |-> call.id + 1]
      /\ \/ op = "bufferSize" /\ main = "started" /\ main' = "reserve"
         \/ op \in Ops /\ main = "free" /\ main' = IF op = "send" THEN "consume" ELSE "reserve"
  BY DEF NewCommand, ReadBufferSize, Issue, Command, pins, bus, waiting, chip, history
<1>2. call.id \in Nat
  BY DEF Types, ThreadTypes, Commands, Numbers
<1>3. CallInv'
  <2>1. call'.op = op /\ call'.id = call.id + 1 /\ dma # "write" /\ spi # "FIRST_WRITE"
    BY <1>1 DEF PlaceInv, CallInv
  <2>2. CASE op = "bufferSize"
    <3>1. call'.id = 1 /\ main' = "reserve"
      BY <1>1, <2>1, <2>2 DEF PlaceInv, CallInv, Ops
    <3>2. QED
      BY <1>1, <2>1, <2>2, <3>1 DEF CallInv
  <2>3. CASE op \in Ops
    <3>1. call.id > 0
      BY <1>1, <2>3 DEF PlaceInv, CallInv, Ops
    <3>2. call'.id # 0 /\ call'.id # 1 /\ call'.id > 0
      BY <1>2, <2>1, <3>1
    <3>3. op \notin {"start", "bufferSize"} /\ main' \in {"consume", "reserve"}
          /\ (main' = "consume" => op = "send")
      BY <1>1, <2>3 DEF Ops
    <3>4. QED
      BY <1>1, <2>1, <3>2, <3>3 DEF CallInv
  <2>4. QED
    BY <2>2, <2>3
<1>4. WaitInv' /\ ReadInv'
  BY <1>1 DEF PlaceInv, WaitInv, ReadInv
<1>5. \A n \in Int : n <= call.id => n < call'.id
  BY <1>1, <1>2
<1>6. /\ \A i \in DOMAIN work : work[i].id \in Int
      /\ \A i \in DOMAIN outbox : outbox[i].id \in Int
      /\ \A id \in failed : id \in Int
  <2>1. /\ \A i \in DOMAIN work : work[i] \in Commands
        /\ \A i \in DOMAIN outbox : outbox[i] \in Sent
        /\ \A id \in failed : id \in Numbers
    BY LenProperties, ElementOfSeq DEF Types, ChipTypes
  <2>2. QED
    BY <2>1, PacketTypes DEF Commands, Numbers
<1>7. OrderInv'
  <2>1. \A n \in Int : n <= call.id => n <= call'.id /\ n # call'.id
    BY <1>1, <1>2
  <2>2. /\ \A i \in DOMAIN work : work[i].id <= call'.id /\ work[i].id # call'.id
        /\ \A id \in failed : id <= call'.id /\ id # call'.id
    BY <1>6, <2>1 DEF PlaceInv, OrderInv
  <2>3. \A i \in DOMAIN outbox : outbox[i].op \in Replied =>
          outbox[i].id <= call'.id /\ outbox[i].id # call'.id
    BY <1>6, <2>1 DEF PlaceInv, OrderInv
  <2>4. QED
    BY <1>1, <2>2, <2>3 DEF OrderInv
<1>8. QED
  BY <1>3, <1>4, <1>7 DEF PlaceInv

LEMMA FlashPlace ==
  ASSUME BusInv, PlaceInv, sFLASH_CS_LOW \/ sFLASH_CS_HIGH \/ handle_spi_request
  PROVE  PlaceInv'
<1>1. /\ UNCHANGED <<irq, low, received, solicited, opcode, dataPending, seen, call,
                     work, outbox, failed>>
      /\ main \in {"free", "flash", "released"} /\ main' \in {"free", "flash", "released"}
      /\ (spi' = "READ_IRQ" /\ spi = "READ_PREP_IRQ" /\ dma' = "header")
         \/ UNCHANGED <<spi, dma>>
  BY DEF sFLASH_CS_LOW, sFLASH_CS_HIGH, handle_spi_request, Resumed, StartRead, Goto,
         pins, bus, waiting, chip, history
<1>2. CallInv'
  BY <1>1 DEF PlaceInv, CallInv
<1>3. WaitInv' /\ ReadInv'
  BY <1>1 DEF PlaceInv, WaitInv, ReadInv
<1>4. OrderInv'
  BY <1>1, OrderStays DEF PlaceInv, Unwritten
<1>5. QED
  BY <1>2, <1>3, <1>4 DEF PlaceInv

-----------------------------------------------------------------------------
(* The chip *)

LEMMA AppendTwice ==
  ASSUME NEW S, NEW s \in Seq(S), NEW x \in S, NEW y \in S
  PROVE  s \o <<x, y>> = Append(Append(s, x), y)
<1> DEFINE u == s \o <<x, y>>
           v == Append(Append(s, x), y)
           n == Len(s) + 2
<1>1. /\ u \in Seq(S) /\ v \in Seq(S)
      /\ Len(s) \in Nat /\ Len(u) = n /\ Len(v) = n
      /\ DOMAIN s = 1 .. Len(s)
      /\ \A i \in 1 .. Len(s) : u[i] = s[i] /\ v[i] = s[i]
      /\ u[Len(s) + 1] = x /\ v[Len(s) + 1] = x
      /\ u[n] = y /\ v[n] = y
  <2>1. Append(s, x) \in Seq(S) /\ Len(Append(s, x)) = Len(s) + 1 /\ Len(s) \in Nat
    BY LenProperties, AppendProperties
  <2>2. QED
    BY <2>1, LenProperties, AppendProperties
<1>2. \A i \in 1 .. n : i \in 1 .. Len(s) \/ i = Len(s) + 1 \/ i = n
  BY <1>1
<1>3. \A i \in 1 .. n : u[i] = v[i]
  BY <1>1, <1>2
<1> HIDE DEF u, v
<1>4. u = v
  BY <1>1, <1>3, SeqEqual
<1>5. QED
  BY <1>4 DEF u, v

\* p answers the command h, and comes alone or with the data it announces.
Answering(h, p) ==
  /\ p \in Sent /\ p.id = h.id
  /\ p.op = h.op \/ (p.op = "sendFailed" /\ h.op = "send")
  /\ \/ outbox' = Append(outbox, p) /\ ~p.more
     \/ /\ p.op = "recv" /\ p.more
        /\ outbox' = Append(Append(outbox, p), Packet("data", p.id, FALSE))

LEMMA ReplyAnswers ==
  ASSUME Types, Replies
  PROVE  /\ work # <<>> /\ Head(work) \in Commands /\ work' = Tail(work)
         /\ \E p \in Sent : Answering(Head(work), p)
<1> DEFINE h == Head(work)
<1>1. work # <<>> /\ h \in Commands /\ work' = Tail(work)
  BY TailPlaces DEF Replies, Types, ChipTypes
<1>2. h.op \in Replying /\ h.id \in Numbers
  BY <1>1 DEF Commands
<1>3. outbox \in Seq(Sent)
  BY DEF Types, ChipTypes
<1>4. \/ \E more \in BOOLEAN : Answer(Packet(h.op, h.id, more))
      \/ h.op = "send" /\ Answer(Packet("sendFailed", h.id, FALSE))
  BY DEF Replies
<1> HIDE DEF h
<1>5. \A op \in Replied, more \in BOOLEAN :
        /\ Answer(Packet(op, h.id, more))
        /\ op = h.op \/ (op = "sendFailed" /\ h.op = "send")
        => Answering(h, Packet(op, h.id, more))
  <2> SUFFICES ASSUME NEW op \in Replied, NEW more \in BOOLEAN,
                      Answer(Packet(op, h.id, more)),
                      op = h.op \/ (op = "sendFailed" /\ h.op = "send")
               PROVE  Answering(h, Packet(op, h.id, more))
    OBVIOUS
  <2> DEFINE p == Packet(op, h.id, more)
             d == Packet("data", p.id, FALSE)
  <2>1. p \in Sent /\ p.op = op /\ p.id = h.id /\ p.more = more /\ d \in Sent
    <3>1. op \in Replying \cup {"sendFailed", "data"}
      BY DEF Replied
    <3>2. p \in Sent /\ p.op = op /\ p.id = h.id /\ p.more = more
      BY <1>2, <3>1, PacketTypes
    <3>3. d \in Sent
      BY <1>2, <3>2, PacketTypes
    <3>4. QED
      BY <3>2, <3>3
  <2>2. \/ ~p.more /\ outbox' = Append(outbox, p)
        \/ p.op = "recv" /\ p.more /\ outbox' = outbox \o <<p, d>>
    BY DEF Answer
  <2> HIDE DEF p, d
  <2>3. outbox \o <<p, d>> = Append(Append(outbox, p), d)
    BY <1>3, <2>1, AppendTwice
  <2>4. Answering(h, p)
    BY <2>1, <2>2, <2>3 DEF Answering, d
  <2>5. QED
    BY <2>4 DEF p
<1>6. \E p \in Sent : Answering(h, p)
  <2>1. CASE \E more \in BOOLEAN : Answer(Packet(h.op, h.id, more))
    <3>1. PICK more \in BOOLEAN : Answer(Packet(h.op, h.id, more))
      BY <2>1
    <3>2. Answering(h, Packet(h.op, h.id, more))
      BY <1>2, <1>5, <3>1 DEF Replied
    <3>3. QED
      BY <3>2 DEF Answering
  <2>2. CASE h.op = "send" /\ Answer(Packet("sendFailed", h.id, FALSE))
    <3>1. Answering(h, Packet("sendFailed", h.id, FALSE))
      BY <1>5, <2>2 DEF Replied
    <3>2. QED
      BY <3>1 DEF Answering
  <2>3. QED
    BY <1>4, <2>1, <2>2
<1>7. QED
  BY <1>1, <1>6 DEF h

LEMMA AnsweringPlaces ==
  ASSUME Types, NEW h \in Commands, NEW p \in Sent, Answering(h, p)
  PROVE  /\ outbox' \in Seq(Sent) /\ outbox' # <<>>
         /\ \A i \in DOMAIN outbox :
              i \in DOMAIN outbox' /\ outbox'[i] = outbox[i]
         /\ \A i \in DOMAIN outbox' :
              \/ i \in DOMAIN outbox /\ outbox'[i] = outbox[i]
              \/ outbox'[i] = p
              \/ outbox'[i] = Packet("data", h.id, FALSE) /\ p.op = "recv" /\ p.more
         /\ \E i \in DOMAIN outbox' : outbox'[i] = p
<1> DEFINE d == Packet("data", h.id, FALSE)
           u == Append(outbox, p)
<1>1. outbox \in Seq(Sent) /\ d \in Sent /\ p.id = h.id
  BY PacketTypes DEF Types, ChipTypes, Commands, Answering
<1>2. CASE outbox' = u
  <2>1. /\ u \in Seq(Sent) /\ u # <<>>
        /\ \A i \in DOMAIN outbox : i \in DOMAIN u /\ u[i] = outbox[i]
        /\ \A i \in DOMAIN u : (i \in DOMAIN outbox /\ u[i] = outbox[i]) \/ u[i] = p
        /\ \E i \in DOMAIN u : u[i] = p
    BY <1>1, AppendPlaces
  <2> HIDE DEF u, d
  <2>2. QED
    BY <1>2, <2>1
<1>3. CASE outbox' = Append(u, d) /\ p.op = "recv" /\ p.more
  <2>1. /\ u \in Seq(Sent)
        /\ \A i \in DOMAIN outbox : i \in DOMAIN u /\ u[i] = outbox[i]
        /\ \A i \in DOMAIN u : (i \in DOMAIN outbox /\ u[i] = outbox[i]) \/ u[i] = p
        /\ \E i \in DOMAIN u : u[i] = p
    BY <1>1, AppendPlaces
  <2> HIDE DEF u, d
  <2>2. /\ outbox' \in Seq(Sent) /\ outbox' # <<>>
        /\ \A i \in DOMAIN u : i \in DOMAIN outbox' /\ outbox'[i] = u[i]
        /\ \A i \in DOMAIN outbox' : (i \in DOMAIN u /\ outbox'[i] = u[i]) \/ outbox'[i] = d
    BY <1>1, <1>3, <2>1, AppendPlaces
  <2>3. QED
    BY <1>3, <2>1, <2>2 DEF d
<1>4. QED
  BY <1>1, <1>2, <1>3 DEF Answering

\* What the chip sends unasked, and for a buffer it has transmitted.
Telling(op) ==
  /\ op \in {"freeBuffer", "known", "unknown"}
  /\ outbox' = Append(outbox, Packet(op, 0, FALSE)) /\ UNCHANGED work

LEMMA TellingPlaces ==
  ASSUME Types, NEW op, Telling(op)
  PROVE  /\ outbox' \in Seq(Sent) /\ outbox' # <<>>
         /\ \A i \in DOMAIN outbox' :
              \/ i \in DOMAIN outbox /\ outbox'[i] = outbox[i]
              \/ outbox'[i].op = op /\ op \notin Replied \cup {"data"}
         /\ \A i \in DOMAIN outbox :
              i \in DOMAIN outbox' /\ outbox'[i] = outbox[i]
<1> DEFINE d == Packet(op, 0, FALSE)
           u == Append(outbox, d)
<1>1. outbox \in Seq(Sent) /\ outbox' = u /\ op \in {"freeBuffer", "known", "unknown"}
  BY DEF Types, ChipTypes, Telling
<1>2. d \in Sent /\ d.op = op /\ op \notin Replied \cup {"data"}
  BY <1>1, PacketTypes DEF Replied, Replying, Ops, BootOps
<1> HIDE DEF d
<1>3. /\ u \in Seq(Sent) /\ u # <<>>
      /\ \A i \in DOMAIN outbox : i \in DOMAIN u /\ u[i] = outbox[i]
      /\ \A i \in DOMAIN u : (i \in DOMAIN outbox /\ u[i] = outbox[i]) \/ u[i] = d
  BY <1>1, <1>2, AppendPlaces
<1> HIDE DEF u
<1>4. QED
  BY <1>1, <1>2, <1>3

LEMMA ChipTells ==
  /\ Transmitted => Telling("freeBuffer")
  /\ Unasked => \E op \in {"known", "unknown"} : Telling(op)
  BY DEF Transmitted, Unasked, Telling

LEMMA ChipStepTypes == Types /\ (ChipWorks \/ ChipEvent) => Types'
<1> SUFFICES ASSUME Types, ChipWorks \/ ChipEvent PROVE Types'
  OBVIOUS
<1>1. /\ UNCHANGED <<bus, buffer, received, waiting, solicited, flow, thread, history>>
      /\ LowersLine \/ Replies \/ Transmitted \/ Unasked
  BY DEF ChipWorks, ChipEvent
<1>2. ThreadTypes'
  BY <1>1, TypesStay
<1>3. CASE LowersLine
  <2>1. ChipTypes'
    BY <1>1, <1>3, TypesStay DEF LowersLine
  <2>2. low' \in BOOLEAN /\ edge' \in BOOLEAN
    BY <1>3, Zenon DEF LowersLine
  <2>3. BusTypes'
    BY <1>1, <1>3, <2>2 DEF LowersLine, bus, Types, BusTypes
  <2>4. QED
    BY <1>2, <2>1, <2>3 DEF Types
<1>4. CASE Replies \/ Transmitted \/ Unasked
  <2>1. BusTypes'
    BY <1>1, <1>4, TypesStay DEF Replies, Transmitted, Unasked, bus
  <2>2. outbox' \in Seq(Sent) /\ work' \in Seq(Commands)
    <3>1. CASE Replies
      <4>1. work \in Seq(Commands) /\ work # <<>> /\ work' = Tail(work)
        BY <3>1, ReplyAnswers DEF Types, ChipTypes
      <4>2. work' \in Seq(Commands)
        BY <4>1, TailPlaces
      <4>3. QED
        BY <3>1, <4>2, ReplyAnswers, AnsweringPlaces
    <3>2. CASE Transmitted
      BY <3>2, ChipTells, TellingPlaces DEF Telling, Types, ChipTypes
    <3>3. CASE Unasked
      BY <3>3, ChipTells, TellingPlaces DEF Telling, Types, ChipTypes
    <3>4. QED
      BY <1>4, <3>1, <3>2, <3>3
  <2>3. sending' \in Nat
    <3>1. \/ sending' \in {sending, sending + 1}
          \/ sending > 0 /\ sending' = sending - 1
      BY <1>4 DEF Replies, Transmitted, Unasked
    <3>2. sending \in Nat
      BY DEF Types, ChipTypes
    <3>3. QED
      BY <3>1, <3>2
  <2>4. faults' \in [event : 0 .. MaxEvent, refused : 0 .. MaxRefused, late : 0 .. MaxLate]
    <3>1. \/ UNCHANGED faults
          \/ faults.refused < MaxRefused /\ faults' = [faults EXCEPT !.refused = @ + 1]
          \/ faults.event < MaxEvent /\ faults' = [faults EXCEPT !.event = @ + 1]
      BY <1>4 DEF Replies, Transmitted, Unasked
    <3>2. QED
      BY <3>1, BoundAssumption DEF Types, ChipTypes
  <2>5. ChipTypes'
    BY <1>1, <2>2, <2>3, <2>4 DEF history, Types, ChipTypes
  <2>6. QED
    BY <1>2, <2>1, <2>5 DEF Types
<1>5. QED
  BY <1>1, <1>3, <1>4

LEMMA ChipPlace ==
  ASSUME Types, PlaceInv, ChipWorks \/ ChipEvent
  PROVE  PlaceInv'
<1>1. /\ UNCHANGED <<spi, dma, received, opcode, dataPending, solicited, main, call, seen,
                     failed, irq>>
      /\ LowersLine \/ Replies \/ Transmitted \/ Unasked
  BY DEF ChipWorks, ChipEvent, bus, waiting, thread, history, LowersLine, Replies,
         Transmitted, Unasked, pins
<1>2. CallInv' /\ WaitInv'
  BY <1>1 DEF PlaceInv, CallInv, WaitInv
<1>3. Unwritten' => Unwritten
  BY <1>1 DEF Unwritten
<1>4. CASE LowersLine
  <2>1. UNCHANGED <<work, outbox>> /\ (spi = "IDLE" => outbox # <<>>)
    BY <1>4 DEF LowersLine, chip
  <2>2. ReadInv'
    BY <1>1, <2>1 DEF PlaceInv, ReadInv
  <2>3. OrderInv'
    BY <1>1, <1>3, <2>1, OrderStays DEF PlaceInv
  <2>4. QED
    BY <1>2, <2>2, <2>3 DEF PlaceInv
<1>5. CASE \E op : Telling(op)
  <2>1. PICK op : Telling(op)
    BY <1>5
  <2>2. /\ outbox' # <<>> /\ UNCHANGED work
        /\ \A i \in DOMAIN outbox' :
             \/ i \in DOMAIN outbox /\ outbox'[i] = outbox[i]
             \/ outbox'[i].op \notin Replied
    BY <2>1, TellingPlaces DEF Telling
  <2>3. ReadInv'
    BY <1>1, <2>2 DEF PlaceInv, ReadInv
  <2>4. OrderInv'
    BY <1>1, <1>3, <2>2 DEF PlaceInv, OrderInv
  <2>5. QED
    BY <1>2, <2>3, <2>4 DEF PlaceInv
<1>6. CASE Replies
  <2> DEFINE h == Head(work)
  <2>1. /\ work # <<>> /\ h \in Commands /\ work' = Tail(work)
        /\ \E p \in Sent : Answering(h, p)
    BY <1>6, ReplyAnswers
  <2>2. work \in Seq(Commands)
    BY DEF Types, ChipTypes
  <2>3. /\ 1 \in DOMAIN work /\ h = work[1]
        /\ \A i \in DOMAIN work' : i + 1 \in DOMAIN work /\ work'[i] = work[i + 1]
    BY <2>1, <2>2, TailPlaces
  <2> HIDE DEF h
  <2>4. h.id <= call.id /\ (h.id = call.id => h.op = call.op /\ ~Unwritten)
    BY <2>3 DEF PlaceInv, OrderInv
  <2>5. PICK p \in Sent : Answering(h, p)
    BY <2>1
  <2>6. /\ outbox' # <<>>
        /\ \A i \in DOMAIN outbox' :
              \/ i \in DOMAIN outbox /\ outbox'[i] = outbox[i]
              \/ outbox'[i] = p
              \/ outbox'[i].op = "data"
    <3>1. Packet("data", h.id, FALSE).op = "data"
      BY DEF Packet
    <3>2. QED
      BY <2>1, <2>5, <3>1, AnsweringPlaces
  <2>7. p.id = h.id /\ (p.op = h.op \/ (p.op = "sendFailed" /\ h.op = "send"))
    BY <2>5 DEF Answering
  <2>8. "data" \notin Replied
    BY DEF Replied, Replying, Ops, BootOps
  <2>9. ReadInv'
    BY <1>1, <2>6 DEF PlaceInv, ReadInv
  <2>10. \A i \in DOMAIN work' :
           /\ work'[i].id <= call'.id
           /\ work'[i].id = call'.id => work'[i].op = call'.op /\ ~Unwritten'
    BY <1>1, <1>3, <2>3 DEF PlaceInv, OrderInv
  <2>11. \A i \in DOMAIN outbox' :
           outbox'[i].op \in Replied =>
             /\ outbox'[i].id <= call'.id
             /\ outbox'[i].id = call'.id =>
                  /\ ~Unwritten'
                  /\ \/ outbox'[i].op = call'.op
                     \/ outbox'[i].op = "sendFailed" /\ call'.op = "send"
    BY <1>1, <1>3, <2>4, <2>6, <2>7, <2>8 DEF PlaceInv, OrderInv
  <2>12. OrderInv'
    BY <1>1, <1>3, <2>10, <2>11 DEF PlaceInv, OrderInv
  <2>13. QED
    BY <1>2, <2>9, <2>12 DEF PlaceInv
<1>7. QED
  BY <1>1, <1>4, <1>5, <1>6, ChipTells

\* A step is one of main's, an interrupt's or the chip's.
Step(op) ==
  \/ SPI_EXTI_IntHandler \/ SPI_DMA_IntHandler
  \/ SpiWrite \/ (hci_event_handler \/ Timeout \/ DataTimeout)
  \/ HostFlowControlConsumeBuff \/ NewCommand(op)
  \/ (sFLASH_CS_LOW \/ sFLASH_CS_HIGH \/ handle_spi_request)
  \/ (ChipWorks \/ ChipEvent)

LEMMA Steps == [Next]_vars => UNCHANGED vars \/ \E op \in Ops \cup {"bufferSize"} : Step(op)
<1>1. Blinks => UNCHANGED vars
  BY DEF Blinks
<1>2. SocketCall => \E op \in Ops \cup {"bufferSize"} : Step(op)
  BY DEF SocketCall, Step
<1>3. MainWorks \/ Interrupts \/ sFLASH_CS_LOW \/ ChipWorks \/ ChipEvent => Step("bufferSize")
  BY DEF MainWorks, Interrupts, Step
<1>4. QED
  BY <1>1, <1>2, <1>3 DEF Next

BaseInv == Types /\ BusInv /\ PlaceInv

LEMMA InitBase == Init => BaseInv
  BY InitTypes, InitBus, InitPlace DEF BaseInv

LEMMA StepBase == BaseInv /\ [Next]_vars => BaseInv'
<1> SUFFICES ASSUME BaseInv, [Next]_vars PROVE BaseInv'
  OBVIOUS
<1>1. BusInv'
  BY StepBus DEF BaseInv
<1>2. Types /\ BusInv /\ PlaceInv /\ CallInv /\ ReadInv
  BY DEF BaseInv, PlaceInv
<1>3. CASE UNCHANGED vars
  <2>1. Types'
    BY <1>2, <1>3, TypesStay DEF vars, bus, Types
  <2>2. CallInv' /\ WaitInv' /\ ReadInv'
    BY <1>2, <1>3 DEF vars, pins, bus, waiting, flow, thread, chip, history, PlaceInv,
                      CallInv, WaitInv, ReadInv
  <2>3. OrderInv'
    BY <1>2, <1>3, OrderStays DEF vars, bus, thread, chip, history, PlaceInv, Unwritten
  <2>4. QED
    BY <1>1, <2>1, <2>2, <2>3 DEF BaseInv, PlaceInv
<1>4. ASSUME NEW op \in Ops \cup {"bufferSize"}, Step(op) PROVE BaseInv'
  <2>1. Types'
    BY <1>2, <1>4, EdgeTypes, TransferTypes, WriteTypes, WaitTypes, FlowTypes, CommandTypes,
       FlashTypes, ChipStepTypes DEF Step
  <2>2. PlaceInv'
    BY <1>2, <1>4, EdgePlace, TransferPlace, WritePlace, WaitPlace, FlowPlace, CommandPlace,
       FlashPlace, ChipPlace DEF Step
  <2>3. QED
    BY <1>1, <2>1, <2>2 DEF BaseInv
<1>5. QED
  BY <1>3, <1>4, Steps

-----------------------------------------------------------------------------
(* Who changes what *)

MainStep(op) ==
  \/ SpiWrite \/ (hci_event_handler \/ Timeout \/ DataTimeout)
  \/ HostFlowControlConsumeBuff \/ NewCommand(op)
  \/ (sFLASH_CS_LOW \/ sFLASH_CS_HIGH \/ handle_spi_request)

LEMMA MainLeaves ==
  ASSUME NEW op, MainStep(op)
  PROVE  UNCHANGED <<work, outbox, sending, dropped, failed, edge, low>>
<1>1. CASE SpiWrite
  BY <1>1 DEF SpiWrite, SpiOpen, FirstWrite, FirstRest, Reserve, Proceed, Written, chip,
              history, pins
<1>2. CASE hci_event_handler \/ Timeout \/ DataTimeout
  BY <1>2 DEF hci_event_handler, SimpleLinkWaitEvent, TakePacket, GiveBuffer,
              SimpleLinkWaitData, Timeout, DataTimeout, chip, history, pins
<1>3. CASE HostFlowControlConsumeBuff \/ NewCommand(op)
  BY <1>3 DEF HostFlowControlConsumeBuff, NewCommand, chip, history, pins
<1>4. CASE sFLASH_CS_LOW \/ sFLASH_CS_HIGH \/ handle_spi_request
  BY <1>4 DEF sFLASH_CS_LOW, sFLASH_CS_HIGH, handle_spi_request, chip, history, pins
<1>5. QED
  BY <1>1, <1>2, <1>3, <1>4 DEF MainStep

\* main comes to its place after a write only from before it.
LEMMA MainMoves ==
  ASSUME NEW op, MainStep(op), main' \in {"writing", "written"}
  PROVE  UNCHANGED call /\ main \in {"first rest", "proceed", "writing"}
<1>1. CASE SpiWrite
  BY <1>1 DEF SpiWrite, SpiOpen, FirstWrite, FirstRest, Reserve, Proceed, Written, Goto
<1>2. ~(hci_event_handler \/ Timeout \/ DataTimeout)
  BY DEF hci_event_handler, SimpleLinkWaitEvent, TakePacket, AfterPacket, Return,
         SimpleLinkWaitData, Timeout, DataTimeout, Goto
<1>3. ~(HostFlowControlConsumeBuff \/ NewCommand(op))
  BY DEF HostFlowControlConsumeBuff, TransmitFailed, SocketInactive, NoBuffer,
         ReadCredit, CompareAndSwap, Goto, NewCommand, ReadBufferSize, Issue
<1>4. ~(sFLASH_CS_LOW \/ sFLASH_CS_HIGH \/ handle_spi_request)
  BY DEF sFLASH_CS_LOW, sFLASH_CS_HIGH, handle_spi_request, Goto
<1>5. QED
  BY <1>1, <1>2, <1>3, <1>4 DEF MainStep

LEMMA OthersLeave ==
  ASSUME SPI_EXTI_IntHandler \/ SPI_DMA_IntHandler \/ ChipWorks \/ ChipEvent
  PROVE  UNCHANGED <<main, call, seen, result, opcode, dataPending, solicited>>
  BY DEF SPI_EXTI_IntHandler, SPI_DMA_IntHandler, ChipWorks, ChipEvent, thread, waiting

LEMMA StepsAre ==
  ASSUME [Next]_vars
  PROVE  \/ UNCHANGED vars
         \/ \E op \in Ops \cup {"bufferSize"} : MainStep(op)
         \/ SPI_EXTI_IntHandler \/ SPI_DMA_IntHandler \/ ChipWorks \/ ChipEvent
  BY Steps DEF Step, MainStep

\* A read ends with the packet at the head of the queue.
LEMMA Payload ==
  ASSUME BaseInv, PayloadDone
  PROVE  /\ outbox \in Seq(Sent) /\ outbox # <<>> /\ outbox' = Tail(outbox)
         /\ UNCHANGED <<work, sending>>
         /\ Head(outbox) \in Sent /\ 1 \in DOMAIN outbox /\ Head(outbox) = outbox[1]
         /\ \A i \in DOMAIN outbox' : i + 1 \in DOMAIN outbox /\ outbox'[i] = outbox[i + 1]
         /\ \A i \in DOMAIN outbox :
              i = 1 \/ (i - 1 \in DOMAIN outbox' /\ outbox'[i - 1] = outbox[i])
         /\ ~received /\ buffer' = Head(outbox) /\ received' = ~Released(Head(outbox))
         /\ spi = "READ_PROCEED" /\ dma = "payload" /\ dma' = "none"
<1>1. /\ spi = "READ_PROCEED" /\ dma = "payload" /\ outbox' = Tail(outbox)
      /\ UNCHANGED <<work, sending>>
      /\ buffer' = Head(outbox) /\ received' = ~Released(Head(outbox))
      /\ dma' = "none"
  BY DEF PayloadDone
<1>2. ~received /\ outbox # <<>> /\ outbox \in Seq(Sent)
  BY <1>1 DEF BaseInv, PlaceInv, ReadInv, Types, ChipTypes
<1>3. QED
  BY <1>1, <1>2, TailPlaces

-----------------------------------------------------------------------------
(* No answer is discarded *)

\* The interrupt keeps the answer that main waits for.
LEMMA PayloadKept == BaseInv /\ KeptInv /\ SPI_DMA_IntHandler /\ PayloadDone => KeptInv'
<1> SUFFICES ASSUME BaseInv, KeptInv, SPI_DMA_IntHandler, PayloadDone PROVE KeptInv'
  OBVIOUS
<1> DEFINE p == Head(outbox)
<1>1. UNCHANGED <<main, call, opcode, solicited>>
  BY OthersLeave
<1>2. /\ 1 \in DOMAIN outbox /\ p = outbox[1]
      /\ \A i \in DOMAIN outbox' : i + 1 \in DOMAIN outbox /\ outbox'[i] = outbox[i + 1]
  BY Payload
<1>3. dropped' = dropped \cup
         IF Released(p) /\ Awaited(p) /\ p.op = call.op THEN {p.id} ELSE {}
  BY DEF PayloadDone
<1> HIDE DEF p
<1>4. ~(Released(p) /\ Awaited(p) /\ p.op = call.op)
  <2> SUFFICES ASSUME Released(p), Awaited(p), p.op = call.op PROVE FALSE
    OBVIOUS
  <2>1. p.id = call.id /\ main \in {"writing", "written", "event"}
    BY DEF Awaited
  <2>2. solicited /\ (main = "event" => opcode = call.op)
    BY <2>1 DEF BaseInv, PlaceInv, WaitInv
  <2>3. p.op \in Replying
    BY DEF BaseInv, Types, ThreadTypes, Commands
  <2>4. p.op \notin {"unknown", "send", opcode}
    BY <2>2, <2>3 DEF Released, Handled, Replying, Ops, BootOps
  <2>5. main \in {"writing", "written"}
    BY <2>1, <2>2, <2>4
  <2>6. p.op = "send"
    BY <1>2, <2>1, <2>3, <2>5 DEF KeptInv
  <2>7. QED
    BY <2>4, <2>6
<1>5. dropped' = {}
  BY <1>3, <1>4 DEF KeptInv
<1>6. QED
  BY <1>1, <1>2, <1>5 DEF KeptInv

\* No answer is there before the command is, and in the time main takes to look for it
\* only the answer to a send.
LEMMA StepKept ==
  ASSUME ~Preempted, BaseInv, KeptInv, [Next]_vars
  PROVE  KeptInv'
<1>1. CASE UNCHANGED vars
  BY <1>1 DEF vars, thread, chip, history, KeptInv
<1>2. CASE \E op \in Ops \cup {"bufferSize"} : MainStep(op)
  <2>1. PICK op : MainStep(op)
    BY <1>2
  <2>2. UNCHANGED <<outbox, dropped>>
    BY <2>1, MainLeaves
  <2>3. CASE main' \in {"writing", "written"}
    <3>1. UNCHANGED call /\ main \in {"first rest", "proceed", "writing"}
      BY <2>1, <2>3, MainMoves
    <3>2. CASE main = "writing"
      BY <2>2, <3>1, <3>2 DEF KeptInv
    <3>3. CASE main # "writing"
      <4>1. Unwritten
        BY <3>1, <3>3 DEF Unwritten
      <4>2. \A i \in DOMAIN outbox : outbox[i].op \in Replying => outbox[i].id # call.id
        BY <4>1 DEF BaseInv, PlaceInv, OrderInv, Replied
      <4>3. QED
        BY <2>2, <3>1, <4>2 DEF KeptInv
    <3>4. QED
      BY <3>2, <3>3
  <2>4. CASE main' \notin {"writing", "written"}
    BY <2>2, <2>4 DEF KeptInv
  <2>5. QED
    BY <2>3, <2>4
<1>3. CASE SPI_EXTI_IntHandler
  BY <1>3 DEF SPI_EXTI_IntHandler, thread, chip, history, KeptInv
<1>4. CASE SPI_DMA_IntHandler
  <2>1. CASE PayloadDone
    BY <1>4, <2>1, PayloadKept
  <2>2. CASE HeaderDone \/ FirstBytesDone \/ WriteDone
    <3>1. UNCHANGED <<outbox, dropped>>
      BY <2>2 DEF HeaderDone, FirstBytesDone, WriteDone, chip, history
    <3>2. QED
      BY <1>4, <3>1, OthersLeave DEF KeptInv
  <2>3. QED
    BY <1>4, <2>1, <2>2 DEF SPI_DMA_IntHandler
<1>5. CASE ChipWorks \/ ChipEvent
  <2>1. UNCHANGED <<main, call, dropped>> /\ (LowersLine \/ Replies \/ Transmitted \/ Unasked)
    BY <1>5, OthersLeave DEF ChipWorks, ChipEvent, history
  <2>2. CASE LowersLine
    BY <2>1, <2>2 DEF LowersLine, chip, KeptInv
  <2>3. CASE \E op : Telling(op)
    <3>1. PICK op : Telling(op)
      BY <2>3
    <3>2. \A i \in DOMAIN outbox' :
             \/ i \in DOMAIN outbox /\ outbox'[i] = outbox[i]
             \/ outbox'[i].op \notin Replying
      BY <3>1, TellingPlaces DEF BaseInv, Replied
    <3>3. QED
      BY <2>1, <3>2 DEF KeptInv
  <2>4. CASE Replies
    <3>1. /\ Head(work) \in Commands
          /\ \E p \in Sent : Answering(Head(work), p)
      BY <2>4, ReplyAnswers DEF BaseInv
    <3>2. PICK p \in Sent : Answering(Head(work), p)
      BY <3>1
    <3>3. \A i \in DOMAIN outbox' :
              \/ i \in DOMAIN outbox /\ outbox'[i] = outbox[i]
              \/ outbox'[i] = p
              \/ outbox'[i].op = "data"
      <4>1. Packet("data", Head(work).id, FALSE).op = "data"
        BY DEF Packet
      <4>2. QED
        BY <3>1, <3>2, <4>1, AnsweringPlaces DEF BaseInv
    <3>4. main \in {"writing", "written"} => Head(work).op = "send"
      BY <2>4 DEF Replies, InTime
    <3>5. p.op \in Replying => p.op = Head(work).op
      BY <3>2 DEF Answering, Replying, Ops, BootOps
    <3>6. "data" \notin Replying
      BY DEF Replying, Ops, BootOps
    <3>7. QED
      BY <2>1, <3>3, <3>4, <3>5, <3>6 DEF KeptInv
  <2>5. QED
    BY <2>1, <2>2, <2>3, <2>4, ChipTells
<1>6. QED
  BY <1>1, <1>2, <1>3, <1>4, <1>5, StepsAre

LEMMA InitKept == Init => KeptInv
  BY DEF Init, KeptInv

\* The driver discards no answer that main waits for or is about to, as long as no
\* interrupt holds main between a write and the wait for its answer.
THEOREM AnswerIsKept ==
  ASSUME ~Preempted
  PROVE  Spec => []AnswerKept
<1>1. BaseInv /\ KeptInv /\ [Next]_vars => (BaseInv /\ KeptInv)'
  BY StepBase, StepKept
<1>2. KeptInv => AnswerKept
  BY DEF KeptInv, AnswerKept
<1>3. QED
  BY InitBase, InitKept, <1>1, <1>2, PTL DEF Spec


-----------------------------------------------------------------------------
(* How long the queues get *)

\* The command main is at is on its way to the chip, or main begins a new one.
LEMMA MainGoes ==
  ASSUME BaseInv, NEW op, MainStep(op)
  PROVE  \/ UNCHANGED call /\ (Unwritten' => Unwritten)
         \/ NewCommand(op)
<1>1. CallInv /\ BusExclusive
  BY DEF BaseInv, PlaceInv, BusInv
<1>2. CASE SpiWrite
  BY <1>2 DEF SpiWrite, SpiOpen, FirstWrite, FirstRest, Reserve, Proceed, Written, Goto,
              Unwritten, bus
<1>3. CASE hci_event_handler \/ Timeout \/ DataTimeout
  <2>1. UNCHANGED <<call, dma>>
    BY <1>3 DEF hci_event_handler, SimpleLinkWaitEvent, SimpleLinkWaitData, TakePacket,
                AfterPacket, Return, Goto, Timeout, DataTimeout, bus
  <2>2. main \in {"written", "event", "recv", "data"}
        /\ main' \in {"event", "data", "recv", "panic", "started", "free"}
    BY <1>3 DEF hci_event_handler, SimpleLinkWaitEvent, SimpleLinkWaitData, TakePacket,
                AfterPacket, Return, Goto, Timeout, DataTimeout
  <2>3. QED
    BY <2>1, <2>2 DEF Unwritten
<1>4. CASE HostFlowControlConsumeBuff
  BY <1>4 DEF HostFlowControlConsumeBuff, TransmitFailed, SocketInactive, NoBuffer,
              ReadCredit, CompareAndSwap, Goto, Unwritten, bus
<1>5. CASE sFLASH_CS_LOW \/ sFLASH_CS_HIGH \/ handle_spi_request
  BY <1>5 DEF sFLASH_CS_LOW, sFLASH_CS_HIGH, handle_spi_request, StartRead, Goto,
              Unwritten, bus
<1>6. QED
  BY <1>2, <1>3, <1>4, <1>5 DEF MainStep

LEMMA CommandBegins ==
  ASSUME BaseInv, NEW op \in Ops \cup {"bufferSize"}, NewCommand(op)
  PROVE  /\ call' = [op |-> op, id |-> call.id + 1] /\ call'.op = op /\ call'.id = call.id + 1
         /\ call.id \in Nat
         /\ ~Unwritten /\ dma # "write" /\ UNCHANGED <<bus, buffer, received, flow, seen>>
         /\ result' = Nothing
         /\ \/ op = "bufferSize" /\ main = "started" /\ main' = "reserve" /\ call.id = 0
            \/ op \in Ops /\ main = "free" /\ main' = (IF op = "send" THEN "consume" ELSE "reserve")
                 /\ call.id > 0
<1>1. call.id \in Nat
  BY DEF BaseInv, Types, ThreadTypes, Commands, Numbers
<1>2. /\ call' = [op |-> op, id |-> call.id + 1] /\ result' = Nothing
      /\ UNCHANGED <<bus, buffer, received, flow, seen>>
      /\ \/ op = "bufferSize" /\ main = "started" /\ main' = "reserve"
         \/ op \in Ops /\ main = "free" /\ main' = IF op = "send" THEN "consume" ELSE "reserve"
  BY DEF NewCommand, ReadBufferSize, Issue, Command
<1>3. call'.op = op /\ call'.id = call.id + 1
  BY <1>2
<1>4. /\ main = "started" => call.id = 0
      /\ main = "free" => call.id > 0
      /\ dma # "write" /\ ~Unwritten
  BY <1>2 DEF BaseInv, PlaceInv, CallInv, Unwritten
<1>5. QED
  BY <1>1, <1>2, <1>3, <1>4

LEMMA WriteEnds ==
  ASSUME BaseInv, SPI_DMA_IntHandler, WriteDone
  PROVE  /\ work' = Append(work, call) /\ work \in Seq(Commands) /\ call \in Commands
         /\ UNCHANGED <<outbox, sending, buffer, received, freeBuffers, main, call, seen>>
         /\ dma = "write" /\ dma' = "none" /\ main = "writing" /\ Unwritten /\ ~Unwritten'
<1>1. /\ work' = Append(work, call)
      /\ UNCHANGED <<outbox, sending, buffer, received, freeBuffers, main, call, seen>>
      /\ dma = "write" /\ dma' = "none" /\ spi = "WRITE_PROCEED"
  BY OthersLeave DEF WriteDone, flow
<1>2. work \in Seq(Commands) /\ call \in Commands
  BY DEF BaseInv, Types, ThreadTypes, ChipTypes
<1>3. main = "writing"
  BY <1>1 DEF BaseInv, BusInv, WriteInv, PlaceInv, CallInv
<1>4. QED
  BY <1>1, <1>2, <1>3 DEF Unwritten

LEMMA HeaderEnds ==
  ASSUME SPI_DMA_IntHandler, HeaderDone \/ FirstBytesDone
  PROVE  /\ UNCHANGED <<outbox, work, sending, buffer, received, freeBuffers, main, call, seen>>
         /\ dma' # "write" /\ (dma = "write" => spi = "FIRST_WRITE")
  BY OthersLeave DEF HeaderDone, FirstBytesDone, flow, chip

\* How many answers a reply adds.
LEMMA AnsweringCounts ==
  ASSUME BaseInv, NEW h \in Commands, NEW p \in Sent, Answering(h, p), NEW ops
  PROVE  /\ Count(outbox, ops) \in Nat /\ Len(outbox) \in Nat
         /\ \/ /\ Count(outbox', ops) = Count(outbox, ops) + One(p.op \in ops)
               /\ Len(outbox') = Len(outbox) + 1
            \/ /\ Count(outbox', ops)
                    = Count(outbox, ops) + One(p.op \in ops) + One("data" \in ops)
               /\ Len(outbox') = Len(outbox) + 2
               /\ p.op = "recv" /\ p.more
<1> DEFINE d == Packet("data", p.id, FALSE)
           u == Append(outbox, p)
<1>1. outbox \in Seq(Sent) /\ d \in Sent /\ d.op = "data"
  <2>1. p.id \in Numbers
    BY PacketTypes
  <2>2. d \in Sent /\ d.op = "data"
    BY <2>1, PacketTypes
  <2>3. QED
    BY <2>2 DEF BaseInv, Types, ChipTypes
<1>2. Count(outbox, ops) \in Nat /\ Len(outbox) \in Nat
  BY <1>1, CountType, LenProperties
<1>3. /\ u \in Seq(Sent) /\ Len(u) = Len(outbox) + 1
      /\ Count(u, ops) = Count(outbox, ops) + One(p.op \in ops)
  BY <1>1, AppendPlaces, CountAppend
<1> HIDE DEF u, d
<1>4. /\ Len(Append(u, d)) = Len(u) + 1
      /\ Count(Append(u, d), ops) = Count(u, ops) + One("data" \in ops)
  <2>1. Count(Append(u, d), ops) = Count(u, ops) + One(d.op \in ops)
    BY <1>1, <1>3, CountAppend
  <2>2. QED
    BY <1>1, <1>3, <2>1, AppendPlaces
<1>5. outbox' = u \/ (outbox' = Append(u, d) /\ p.op = "recv" /\ p.more)
  BY DEF Answering, u, d
<1>6. CASE outbox' = u
  BY <1>2, <1>3, <1>6
<1>7. CASE outbox' = Append(u, d) /\ p.op = "recv" /\ p.more
  BY <1>2, <1>3, <1>4, <1>7
<1>8. QED
  BY <1>5, <1>6, <1>7

LEMMA ReplyWorks ==
  ASSUME BaseInv, Replies
  PROVE  /\ work \in Seq(Commands) /\ work # <<>> /\ work' = Tail(work)
         /\ Head(work) \in Commands /\ 1 \in DOMAIN work /\ Head(work) = work[1]
         /\ \A i \in DOMAIN work' : i + 1 \in DOMAIN work /\ work'[i] = work[i + 1]
         /\ \E p \in Sent : Answering(Head(work), p)
         /\ sending' = sending + One(Head(work).op = "send") /\ sending \in Nat
         /\ UNCHANGED low /\ faults'.event = faults.event
<1>1. work \in Seq(Commands) /\ sending \in Nat
  BY DEF BaseInv, Types, ChipTypes
<1>2. work # <<>> /\ work' = Tail(work) /\ \E p \in Sent : Answering(Head(work), p)
  BY ReplyAnswers DEF BaseInv
<1>3. sending' = sending + One(Head(work).op = "send")
  BY <1>1 DEF Replies, One
<1>4. UNCHANGED low /\ faults'.event = faults.event
  BY DEF Replies, pins, BaseInv, Types, ChipTypes
<1>5. QED
  BY <1>1, <1>2, <1>3, <1>4, TailPlaces

LEMMA TellingCounts ==
  ASSUME BaseInv, NEW op, Telling(op), NEW ops
  PROVE  /\ Count(outbox, ops) \in Nat /\ Len(outbox) \in Nat
         /\ Count(outbox', ops) = Count(outbox, ops) + One(op \in ops)
         /\ Len(outbox') = Len(outbox) + 1 /\ UNCHANGED work
<1> DEFINE d == Packet(op, 0, FALSE)
<1>1. outbox \in Seq(Sent) /\ d \in Sent /\ d.op = op /\ outbox' = Append(outbox, d)
      /\ UNCHANGED work
  BY PacketTypes DEF BaseInv, Types, ChipTypes, Telling
<1> HIDE DEF d
<1>2. Count(outbox', ops) = Count(outbox, ops) + One(d.op \in ops)
  BY <1>1, CountAppend
<1>3. QED
  BY <1>1, <1>2, CountType, AppendPlaces


LEMMA OneType == \A c : One(c) \in {0, 1}
  BY DEF One

LEMMA QueueArithmetic ==
  ASSUME NEW w \in Nat, NEW o \in Nat, NEW u \in {0, 1}, NEW s \in Nat, NEW e \in Nat,
         NEW w1 \in Nat, NEW o1 \in Nat, NEW u1 \in {0, 1}, NEW s1 \in Nat, NEW e1 \in Nat,
         NEW n \in Nat,
         w + u <= n + 1, o + s + 2 * w + 2 * u <= 2 * (n + 1) + e,
         \/ w1 = w /\ o1 = o /\ s1 = s /\ u1 <= u /\ e1 = e
         \/ w1 = w + 1 /\ o1 = o /\ s1 = s /\ u1 = 0 /\ u = 1 /\ e1 = e
         \/ w1 = w /\ o1 + 1 = o /\ s1 = s /\ u1 = u /\ e1 = e
         \/ w1 + 1 = w /\ u1 = u /\ e1 = e /\ o1 + s1 <= o + s + 2
         \/ w1 = w /\ u1 = u /\ e1 = e /\ o1 = o + 1 /\ s1 = s - 1
         \/ w1 = w /\ u1 = u /\ e1 = e + 1 /\ o1 = o + 1 /\ s1 = s
  PROVE  w1 + u1 <= n + 1 /\ o1 + s1 + 2 * w1 + 2 * u1 <= 2 * (n + 1) + e1
  OBVIOUS

LEMMA StepQueue ==
  ASSUME BaseInv, QueueInv, [Next]_vars
  PROVE  QueueInv'
<1> DEFINE w == Len(work)  o == Len(outbox)  u == One(Unwritten)
<1>1. /\ w \in Nat /\ o \in Nat /\ u \in {0, 1} /\ sending \in Nat /\ call.id \in Nat
      /\ faults.event \in Nat
  <2>1. work \in Seq(Commands) /\ outbox \in Seq(Sent)
    BY DEF BaseInv, Types, ChipTypes
  <2>2. sending \in Nat /\ call.id \in Nat /\ faults.event \in Nat
    BY DEF BaseInv, Types, ThreadTypes, ChipTypes, Commands, Numbers
  <2>3. QED
    BY <2>1, <2>2, LenProperties, OneType
<1>2. CASE UNCHANGED vars
  <2>1. UNCHANGED <<work, outbox, sending, call, faults>> /\ Unwritten' = Unwritten
    BY <1>2 DEF vars, thread, chip, bus, Unwritten
  <2>2. QED
    BY <2>1 DEF QueueInv, One
<1>3. ASSUME NEW op \in Ops \cup {"bufferSize"}, MainStep(op) PROVE QueueInv'
  <2>1. UNCHANGED <<work, outbox, sending>>
    BY <1>3, MainLeaves
  <2>2. faults'.event = faults.event
    BY <1>3 DEF MainStep, SpiWrite, hci_event_handler, Timeout, DataTimeout, GivesUp,
                HostFlowControlConsumeBuff, NewCommand, sFLASH_CS_LOW, sFLASH_CS_HIGH,
                handle_spi_request, BaseInv, Types, ChipTypes
  <2>3. \/ call'.id = call.id /\ u' <= u /\ u' \in {0, 1}
        \/ call'.id = call.id + 1 /\ u' \in {0, 1} /\ u = 0
    <3>1. u' \in {0, 1}
      BY DEF One
    <3>2. CASE UNCHANGED call /\ (Unwritten' => Unwritten)
      BY <3>1, <3>2 DEF One
    <3>3. CASE NewCommand(op)
      BY <3>1, <3>3, CommandBegins DEF One
    <3>4. QED
      BY <1>3, <3>2, <3>3, MainGoes
  <2> HIDE DEF w, o, u
  <2>4. QueueInv' <=> /\ w + u' <= call'.id + 1
                      /\ o + sending + 2 * w + 2 * u' <= 2 * (call'.id + 1) + faults.event
    BY <2>1, <2>2 DEF QueueInv, w, o, u
  <2>5. QueueInv <=> /\ w + u <= call.id + 1
                     /\ o + sending + 2 * w + 2 * u <= 2 * (call.id + 1) + faults.event
    BY DEF QueueInv, w, o, u
  <2>6. QED
    BY <1>1, <2>3, <2>4, <2>5
<1>4. ASSUME SPI_EXTI_IntHandler \/ SPI_DMA_IntHandler \/ ChipWorks \/ ChipEvent
      PROVE  QueueInv'
  <2>1. /\ UNCHANGED call
        /\ \/ /\ w' = w /\ o' = o /\ sending' = sending /\ u' <= u /\ faults'.event = faults.event
           \/ /\ w' = w + 1 /\ o' = o /\ sending' = sending /\ u' = 0 /\ u = 1
              /\ faults'.event = faults.event
           \/ /\ w' = w /\ o' + 1 = o /\ sending' = sending /\ u' = u /\ faults'.event = faults.event
           \/ /\ w' + 1 = w /\ u' = u /\ faults'.event = faults.event
              /\ o' + sending' <= o + sending + 2
           \/ /\ w' = w /\ u' = u /\ faults'.event = faults.event
              /\ o' = o + 1 /\ sending' = sending - 1
           \/ /\ w' = w /\ u' = u /\ faults'.event = faults.event + 1
              /\ o' = o + 1 /\ sending' = sending
    <3>1. UNCHANGED <<main, call>>
      BY <1>4, OthersLeave
    <3>2. CASE SPI_EXTI_IntHandler
      <4>1. UNCHANGED <<work, outbox, sending, faults>> /\ dma' \in {dma, "header"}
        BY <3>2 DEF SPI_EXTI_IntHandler, Initialized, ReadRequested, ReadPostponed,
                    WriteAllowed, Ignored, StartRead, bus, chip
      <4>2. u' <= u
        <5>1. Unwritten' => Unwritten
          BY <3>1, <4>1 DEF Unwritten
        <5>2. QED
          BY <5>1 DEF One
      <4>3. QED
        BY <3>1, <4>1, <4>2
    <3>3. CASE SPI_DMA_IntHandler
      <4>1. UNCHANGED faults
        BY <3>3 DEF SPI_DMA_IntHandler
      <4>2. CASE HeaderDone \/ FirstBytesDone
        <5>1. UNCHANGED <<outbox, work, sending>> /\ (Unwritten' => Unwritten)
          BY <3>1, <3>3, <4>2, HeaderEnds DEF Unwritten
        <5>2. u' <= u
          BY <5>1 DEF One
        <5>3. QED
          BY <3>1, <4>1, <5>1, <5>2
      <4>3. CASE WriteDone
        <5>1. /\ work' = Append(work, call) /\ work \in Seq(Commands) /\ call \in Commands
              /\ UNCHANGED <<outbox, sending>> /\ Unwritten /\ ~Unwritten'
          BY <3>3, <4>3, WriteEnds
        <5>2. w' = w + 1 /\ u' = 0 /\ u = 1
          BY <5>1, AppendPlaces DEF One
        <5>3. QED
          BY <3>1, <4>1, <5>1, <5>2
      <4>4. CASE PayloadDone
        <5>1. /\ outbox \in Seq(Sent) /\ outbox # <<>> /\ outbox' = Tail(outbox)
              /\ UNCHANGED <<work, sending>> /\ dma = "payload" /\ dma' = "none"
          BY <4>4, Payload
        <5>2. o = o' + 1 /\ u' = u
          BY <3>1, <5>1, TailPlaces DEF Unwritten, One
        <5>3. QED
          BY <3>1, <4>1, <5>1, <5>2
      <4>5. QED
        BY <3>3, <4>2, <4>3, <4>4 DEF SPI_DMA_IntHandler
    <3>4. CASE ChipWorks \/ ChipEvent
      <4>1. UNCHANGED dma /\ (LowersLine \/ Replies \/ Transmitted \/ Unasked)
        BY <3>4 DEF ChipWorks, ChipEvent, bus
      <4>2. u' = u
        BY <3>1, <4>1 DEF Unwritten, One
      <4>3. CASE LowersLine
        <5>1. UNCHANGED <<work, outbox, sending, faults>>
          BY <4>3 DEF LowersLine, chip
        <5>2. QED
          BY <1>1, <3>1, <4>2, <5>1
      <4>4. CASE Replies
        <5>1. /\ work \in Seq(Commands) /\ work # <<>> /\ work' = Tail(work)
              /\ sending' = sending + One(Head(work).op = "send")
              /\ Head(work) \in Commands /\ faults'.event = faults.event
              /\ \E p \in Sent : Answering(Head(work), p)
          BY <4>4, ReplyWorks
        <5>2. PICK p \in Sent : Answering(Head(work), p)
          BY <5>1
        <5>3. \/ o' = o + 1
              \/ o' = o + 2 /\ p.op = "recv"
          BY <5>1, <5>2, AnsweringCounts
        <5>4. p.op = "recv" => Head(work).op # "send"
          BY <5>2 DEF Answering
        <5>5. o' + sending' <= o + sending + 2
          BY <1>1, <5>1, <5>3, <5>4 DEF One
        <5>6. w = w' + 1
          BY <5>1, TailPlaces
        <5>7. QED
          BY <3>1, <4>2, <5>1, <5>5, <5>6
      <4>5. CASE Transmitted
        <5>1. Telling("freeBuffer") /\ sending' = sending - 1 /\ UNCHANGED faults
          BY <4>5, ChipTells DEF Transmitted
        <5>2. o' = o + 1 /\ UNCHANGED work
          BY <5>1, TellingCounts
        <5>3. QED
          BY <3>1, <4>2, <5>1, <5>2
      <4>6. CASE Unasked
        <5>1. PICK op : Telling(op)
          BY <4>6, ChipTells
        <5>2. o' = o + 1 /\ UNCHANGED work
          BY <5>1, TellingCounts
        <5>3. UNCHANGED sending /\ faults'.event = faults.event + 1
          BY <4>6 DEF Unasked, BaseInv, Types, ChipTypes
        <5>4. QED
          BY <3>1, <4>2, <5>2, <5>3
      <4>7. QED
        BY <4>1, <4>3, <4>4, <4>5, <4>6
    <3>5. QED
      BY <1>4, <3>2, <3>3, <3>4
  <2>2. w' \in Nat /\ o' \in Nat /\ u' \in {0, 1} /\ sending' \in Nat
    <3>1. BaseInv'
      BY StepBase
    <3>2. work' \in Seq(Commands) /\ outbox' \in Seq(Sent) /\ sending' \in Nat
      BY <3>1 DEF BaseInv, Types, ChipTypes
    <3>3. QED
      BY <3>2, LenProperties DEF One
  <2> HIDE DEF w, o, u
  <2>3. QueueInv' <=>
          /\ w' + u' <= call'.id + 1
          /\ o' + sending' + 2 * w' + 2 * u' <= 2 * (call'.id + 1) + faults'.event
    BY DEF QueueInv, w, o, u
  <2>4. QueueInv <=> /\ w + u <= call.id + 1
                     /\ o + sending + 2 * w + 2 * u <= 2 * (call.id + 1) + faults.event
    BY DEF QueueInv, w, o, u
  <2>5. call'.id = call.id
    BY <2>1
  <2>6. /\ w' + u' <= call.id + 1
        /\ o' + sending' + 2 * w' + 2 * u' <= 2 * (call.id + 1) + faults'.event
    <3>1. /\ w + u <= call.id + 1
          /\ o + sending + 2 * w + 2 * u <= 2 * (call.id + 1) + faults.event
      BY <2>4
    <3>2. faults'.event \in Nat
      BY <1>1, <2>1
    <3>3. PICK w1, o1, u1, s1, e1 :
            w1 = w' /\ o1 = o' /\ u1 = u' /\ s1 = sending' /\ e1 = faults'.event
      OBVIOUS
    <3>4. PICK s, e, n : s = sending /\ e = faults.event /\ n = call.id
      OBVIOUS
    <3>5. /\ w1 \in Nat /\ o1 \in Nat /\ u1 \in {0, 1} /\ s1 \in Nat /\ e1 \in Nat
          /\ s \in Nat /\ e \in Nat /\ n \in Nat
          /\ w + u <= n + 1 /\ o + s + 2 * w + 2 * u <= 2 * (n + 1) + e
      BY <1>1, <2>2, <3>1, <3>2, <3>3, <3>4
    <3>6. \/ w1 = w /\ o1 = o /\ s1 = s /\ u1 <= u /\ e1 = e
          \/ w1 = w + 1 /\ o1 = o /\ s1 = s /\ u1 = 0 /\ u = 1 /\ e1 = e
          \/ w1 = w /\ o1 + 1 = o /\ s1 = s /\ u1 = u /\ e1 = e
          \/ w1 + 1 = w /\ u1 = u /\ e1 = e /\ o1 + s1 <= o + s + 2
          \/ w1 = w /\ u1 = u /\ e1 = e /\ o1 = o + 1 /\ s1 = s - 1
          \/ w1 = w /\ u1 = u /\ e1 = e + 1 /\ o1 = o + 1 /\ s1 = s
      BY <2>1, <3>3, <3>4
    <3>7. w1 + u1 <= n + 1 /\ o1 + s1 + 2 * w1 + 2 * u1 <= 2 * (n + 1) + e1
      BY <1>1, <3>5, <3>6, QueueArithmetic
    <3>8. QED
      BY <3>3, <3>4, <3>7
  <2>7. QED
    BY <2>3, <2>5, <2>6
<1>5. QED
  BY <1>2, <1>3, <1>4, StepsAre

-----------------------------------------------------------------------------
(* Transmit buffers *)

LEMMA CreditTypes ==
  ASSUME BaseInv
  PROVE  /\ freeBuffers \in Nat /\ Reserved \in {0, 1} /\ sending \in Nat /\ seen \in Nat
         /\ Count(outbox, {"freeBuffer"}) \in Nat /\ Count(work, {"send"}) \in Nat
         /\ Count(work, {"bufferSize"}) \in Nat /\ Count(outbox, {"bufferSize"}) \in Nat
         /\ Total \in Nat /\ Sizing \in Nat /\ Buffers \in Nat \ {0}
<1>1. freeBuffers \in Nat /\ Reserved \in {0, 1} /\ sending \in Nat /\ seen \in Nat
  BY DEF BaseInv, Types, ThreadTypes, ChipTypes, Reserved
<1>2. work \in Seq(Commands) /\ outbox \in Seq(Sent)
  BY DEF BaseInv, Types, ChipTypes
<1>3. /\ Count(outbox, {"freeBuffer"}) \in Nat /\ Count(work, {"send"}) \in Nat
      /\ Count(work, {"bufferSize"}) \in Nat /\ Count(outbox, {"bufferSize"}) \in Nat
  BY <1>2, CountType
<1>4. Total \in Nat
  BY <1>1, <1>3 DEF Total
<1>5. Sizing \in Nat
  BY <1>3 DEF Sizing, One
<1>6. QED
  BY <1>1, <1>3, <1>4, <1>5, BoundAssumption

LEMMA SizingType ==
  ASSUME BaseInv, [Next]_vars
  PROVE  Sizing' \in Nat
<1>1. work' \in Seq(Commands) /\ outbox' \in Seq(Sent)
  BY StepBase DEF BaseInv, Types, ChipTypes
<1>2. Count(work', {"bufferSize"}) \in Nat /\ Count(outbox', {"bufferSize"}) \in Nat
  BY <1>1, CountType
<1>3. QED
  BY <1>2 DEF Sizing, One

LEMMA CreditStays ==
  ASSUME BaseInv, CreditInv, Total' = Total, Sizing' <= Sizing, Sizing' \in Nat,
         call'.id = 0 => call.id = 0, seen' <= Buffers
  PROVE  CreditInv'
<1>1. Sizing \in Nat /\ Total \in Nat
  BY CreditTypes
<1>2. Sizing = 0 => Sizing' = 0
  BY <1>1
<1>3. Sizing <= 1 => Sizing' <= 1
  BY <1>1
<1>4. QED
  BY <1>2, <1>3 DEF CreditInv

LEMMA MainTotal ==
  ASSUME NEW op, MainStep(op), freeBuffers' + Reserved' = freeBuffers + Reserved
  PROVE  Total' = Total
  BY MainLeaves DEF Total

LEMMA MainSizing ==
  ASSUME BaseInv, NEW op, MainStep(op),
         received' /\ buffer'.op = "bufferSize" => received /\ buffer.op = "bufferSize",
         Unwritten' /\ call'.op = "bufferSize" => Unwritten /\ call.op = "bufferSize"
  PROVE  Sizing' <= Sizing
<1>1. UNCHANGED <<work, outbox>>
  BY MainLeaves
<1>2. One(received /\ buffer.op = "bufferSize")' <= One(received /\ buffer.op = "bufferSize")
  BY DEF One
<1>3. One(Unwritten /\ call.op = "bufferSize")' <= One(Unwritten /\ call.op = "bufferSize")
  BY DEF One
<1>4. /\ Count(work, {"bufferSize"}) \in Nat /\ Count(outbox, {"bufferSize"}) \in Nat
      /\ One(received /\ buffer.op = "bufferSize") \in {0, 1}
      /\ One(Unwritten /\ call.op = "bufferSize") \in {0, 1}
      /\ One(received /\ buffer.op = "bufferSize")' \in {0, 1}
      /\ One(Unwritten /\ call.op = "bufferSize")' \in {0, 1}
  BY CreditTypes DEF One
<1>5. QED
  BY <1>1, <1>2, <1>3, <1>4 DEF Sizing

\* What main does outside the wait for an answer: a buffer is taken from the free ones
\* for the send about to be written.
LEMMA MainReserves ==
  ASSUME BaseInv, NEW op \in Ops \cup {"bufferSize"}, MainStep(op),
         ~(TakePacket /\ UNCHANGED <<bus, buffer>>)
  PROVE  /\ freeBuffers' + Reserved' = freeBuffers + Reserved
         /\ seen' \in {seen, freeBuffers} /\ UNCHANGED received
         /\ received' /\ buffer'.op = "bufferSize" => received /\ buffer.op = "bufferSize"
<1>1. CallInv /\ BusExclusive /\ freeBuffers \in Nat /\ seen \in Nat /\ Reserved \in {0, 1}
  BY CreditTypes DEF BaseInv, PlaceInv, BusInv
<1>2. Garbage.op # "bufferSize"
  BY PacketTypes
<1>3. CASE SpiWrite
  <2>1. /\ UNCHANGED <<freeBuffers, seen, received, call>> /\ buffer' \in {buffer, Garbage}
    BY <1>3 DEF SpiWrite, SpiOpen, FirstWrite, FirstRest, Reserve, Proceed, Written, Goto,
                StartWrite, flow
  <2>2. \/ main \in {"open", "first", "first rest"}
        \/ main = "reserve" /\ main' = "proceed"
        \/ main = "proceed" /\ dma' = "write"
        \/ main = "writing" /\ main' = "written" /\ spi # "WRITE_PROCEED" /\ UNCHANGED dma
    BY <1>3 DEF SpiWrite, SpiOpen, FirstWrite, FirstRest, Reserve, Proceed, Written, Goto,
                StartWrite, bus
  <2>3. main \in {"open", "first", "first rest"} => call.op = "start"
    BY <1>1 DEF CallInv
  <2>4. Reserved' = Reserved
    BY <1>1, <2>1, <2>2, <2>3 DEF Reserved, CallInv, BusExclusive
  <2>5. QED
    BY <1>2, <2>1, <2>4
<1>4. CASE hci_event_handler \/ Timeout \/ DataTimeout
  <2>1. UNCHANGED <<freeBuffers, seen, received, call, buffer, dma>>
    BY <1>4 DEF hci_event_handler, SimpleLinkWaitEvent, SimpleLinkWaitData, Return, Goto,
                Timeout, DataTimeout, bus, flow
  <2>2. /\ main \in {"written", "event", "recv", "data"}
        /\ main' \in {"event", "data", "panic", "started", "free"}
    BY <1>4 DEF hci_event_handler, SimpleLinkWaitEvent, SimpleLinkWaitData, Return, Goto,
                Timeout, DataTimeout
  <2>3. Reserved' = Reserved
    BY <2>1, <2>2 DEF Reserved
  <2>4. QED
    BY <2>1, <2>3
<1>5. CASE HostFlowControlConsumeBuff
  <2>1. UNCHANGED <<call, dma, received, buffer>> /\ dma # "write" /\ call.op = "send"
    BY <1>1, <1>5 DEF HostFlowControlConsumeBuff, TransmitFailed, SocketInactive, NoBuffer,
         ReadCredit, CompareAndSwap, Goto, bus, CallInv
  <2>2. \/ /\ main = "consume" /\ main' \in {"free", "swap"} /\ UNCHANGED freeBuffers
           /\ seen' \in {seen, freeBuffers}
        \/ /\ main = "swap" /\ main' = "consume" /\ UNCHANGED <<freeBuffers, seen>>
        \/ /\ main = "swap" /\ main' = "reserve" /\ freeBuffers' = freeBuffers - 1
           /\ UNCHANGED seen
    BY <1>5 DEF HostFlowControlConsumeBuff, TransmitFailed, SocketInactive, NoBuffer,
         ReadCredit, CompareAndSwap, Goto, flow
  <2>3. Reserved = 0 /\ Reserved' = (IF main' = "reserve" THEN 1 ELSE 0)
    BY <2>1, <2>2 DEF Reserved
  <2>4. QED
    BY <1>1, <2>1, <2>2, <2>3
<1>6. CASE NewCommand(op)
  <2>1. UNCHANGED <<freeBuffers, seen, received, buffer, dma>> /\ dma # "write"
    BY <1>6, CommandBegins DEF flow, bus
  <2>2. main \in {"started", "free"} /\ (main' = "consume" \/ call'.op # "send")
    BY <1>6, CommandBegins
  <2>3. main' = "consume" => Reserved' = 0
    BY <2>1 DEF Reserved
  <2>4. Reserved = 0 /\ Reserved' = 0
    BY <2>1, <2>2, <2>3 DEF Reserved
  <2>5. QED
    BY <1>1, <2>1, <2>4
<1>7. CASE sFLASH_CS_LOW \/ sFLASH_CS_HIGH \/ handle_spi_request
  <2>1. UNCHANGED <<freeBuffers, seen, received, call>> /\ buffer' \in {buffer, Garbage}
        /\ dma' \in {dma, "header"}
        /\ main \in {"free", "flash", "released"} /\ main' \in {"free", "flash", "released"}
    BY <1>7 DEF sFLASH_CS_LOW, sFLASH_CS_HIGH, handle_spi_request, StartRead, Goto, bus, flow
  <2>2. dma # "write"
    BY <1>1, <2>1 DEF CallInv
  <2>3. Reserved = 0 /\ Reserved' = 0
    BY <2>1, <2>2 DEF Reserved
  <2>4. QED
    BY <1>1, <1>2, <2>1, <2>3
<1>8. QED
  BY <1>3, <1>4, <1>5, <1>6, <1>7 DEF MainStep

\* The answer of the chip fills the pool, and only once.
LEMMA TakeCredit ==
  ASSUME BaseInv, CreditInv, TakePacket, NEW op, MainStep(op), UNCHANGED <<bus, buffer, call>>
  PROVE  CreditInv' /\ Total' \in {Total, Buffers}
<1>1. /\ main \in {"event", "data"} /\ main' \in {"event", "data", "recv", "started", "free"}
      /\ received /\ ~received' /\ UNCHANGED seen
      /\ \/ freeBuffers' = Buffers /\ buffer.op = "bufferSize"
         \/ UNCHANGED freeBuffers
  BY DEF TakePacket, TakeEvent, TakeData, GiveBuffer, AfterPacket, Return
<1>2. Reserved = 0 /\ Reserved' = 0 /\ ~Unwritten /\ ~Unwritten'
  BY <1>1 DEF Reserved, Unwritten, BaseInv, PlaceInv, CallInv, bus
<1>3. UNCHANGED <<work, outbox, sending>>
  BY MainLeaves
<1>4. Sizing = Count(work, {"bufferSize"}) + Count(outbox, {"bufferSize"})
                 + One(buffer.op = "bufferSize")
  BY <1>1, <1>2, CreditTypes DEF Sizing, One
<1>5. Sizing' = Count(work, {"bufferSize"}) + Count(outbox, {"bufferSize"})
  BY <1>1, <1>2, <1>3, CreditTypes DEF Sizing, One
<1>6. /\ Count(work, {"bufferSize"}) \in Nat /\ Count(outbox, {"bufferSize"}) \in Nat
      /\ One(buffer.op = "bufferSize") \in {0, 1}
      /\ Total \in Nat /\ Buffers \in Nat \ {0} /\ freeBuffers \in Nat /\ sending \in Nat
      /\ Count(outbox, {"freeBuffer"}) \in Nat /\ Count(work, {"send"}) \in Nat
  BY CreditTypes, OneType
<1>7. Sizing' <= Sizing /\ Sizing' \in Nat
  BY <1>4, <1>5, <1>6
<1>8. seen' <= Buffers
  BY <1>1 DEF CreditInv
<1>9. CASE UNCHANGED freeBuffers
  <2>1. Total' = Total
    BY <1>2, <1>3, <1>9 DEF Total
  <2>2. QED
    BY <1>7, <1>8, <2>1, CreditStays
<1>10. CASE freeBuffers' = Buffers /\ buffer.op = "bufferSize"
  <2>1. Sizing = Sizing' + 1
    BY <1>4, <1>5, <1>6, <1>10 DEF One
  <2>2. Sizing' = 0 /\ Sizing # 0
    <3>1. Sizing <= 1
      BY DEF CreditInv
    <3>2. Sizing' \in Int /\ Sizing \in Int
      BY <1>7, <1>6, CreditTypes
    <3>3. \A m, n \in Int : m = n + 1 /\ m <= 1 /\ n >= 0 => n = 0 /\ m # 0
      OBVIOUS
    <3>4. Sizing' >= 0
      BY <1>7
    <3>5. QED
      BY <2>1, <3>1, <3>2, <3>3, <3>4
  <2>3. Total = 0 /\ call.id # 0
    BY <2>2 DEF CreditInv
  <2>4. freeBuffers = 0 /\ sending = 0 /\ Count(outbox, {"freeBuffer"}) = 0
        /\ Count(work, {"send"}) = 0
    BY <1>2, <1>6, <2>3 DEF Total
  <2>5. Total' = Buffers
    BY <1>2, <1>3, <1>6, <1>10, <2>4 DEF Total
  <2>6. QED
    BY <1>8, <2>2, <2>3, <2>5 DEF CreditInv
<1>11. QED
  BY <1>1, <1>9, <1>10

LEMMA MainCredit ==
  ASSUME BaseInv, CreditInv, NEW op \in Ops \cup {"bufferSize"}, MainStep(op), [Next]_vars
  PROVE  CreditInv' /\ Total' \in {Total, Buffers}
<1>1. CASE TakePacket /\ UNCHANGED <<bus, buffer>>
  <2>1. UNCHANGED call
    BY <1>1 DEF TakePacket, AfterPacket, Return
  <2>2. QED
    BY <1>1, <2>1, TakeCredit
<1>2. CASE ~(TakePacket /\ UNCHANGED <<bus, buffer>>)
  <2>1. Total' = Total
    BY <1>2, MainReserves, MainTotal
  <2>2. seen' <= Buffers
    <3>1. freeBuffers <= Total /\ Total <= Buffers /\ Total \in Nat /\ freeBuffers \in Nat
      BY CreditTypes DEF Total, CreditInv
    <3>2. QED
      BY <1>2, <3>1, MainReserves, CreditTypes DEF CreditInv
  <2>3. Sizing' \in Nat
    BY SizingType
  <2>4. CASE UNCHANGED call /\ (Unwritten' => Unwritten)
    <3>1. Sizing' <= Sizing
      BY <1>2, <2>4, MainReserves, MainSizing
    <3>2. QED
      BY <2>1, <2>2, <2>3, <2>4, <3>1, CreditStays
  <2>5. CASE NewCommand(op)
    <3>1. call'.op = op /\ call'.id # 0 /\ ~Unwritten
          /\ (op = "bufferSize" => call.id = 0)
      BY <2>5, CommandBegins DEF Ops
    <3>2. CASE op # "bufferSize"
      <4>1. Sizing' <= Sizing
        BY <1>2, <3>1, <3>2, MainReserves, MainSizing
      <4>2. QED
        BY <2>1, <2>2, <2>3, <3>1, <4>1, CreditStays
    <3>3. CASE op = "bufferSize"
      <4>1. Total = 0 /\ Sizing = 0
        BY <3>1, <3>3 DEF CreditInv
      <4>2. UNCHANGED <<work, outbox, received, buffer>>
        BY <2>5, CommandBegins, MainLeaves
      <4>3. Sizing' <= Sizing + 1
        BY <3>1, <4>2, CreditTypes DEF Sizing, One
      <4>4. QED
        BY <2>1, <2>2, <2>3, <3>1, <4>1, <4>3 DEF CreditInv
    <3>4. QED
      BY <3>2, <3>3
  <2>6. QED
    BY <2>4, <2>5, MainGoes
<1>3. QED
  BY <1>1, <1>2

LEMMA EdgeCredit ==
  ASSUME BaseInv, CreditInv, SPI_EXTI_IntHandler, [Next]_vars
  PROVE  CreditInv' /\ Total' \in {Total, Buffers}
<1>1. /\ UNCHANGED <<work, outbox, sending, received, freeBuffers, main, call, seen>>
      /\ (dma' = "header" /\ spi = "IDLE") \/ UNCHANGED dma
      /\ buffer' \in {buffer, Garbage}
  BY DEF SPI_EXTI_IntHandler, Initialized, ReadRequested, ReadPostponed, WriteAllowed,
         Ignored, StartRead, thread, chip, bus, flow
<1>2. dma' # "write" <=> dma # "write"
  BY <1>1 DEF BaseInv, BusInv, BusExclusive
<1>3. Reserved' = Reserved /\ Unwritten' = Unwritten
  BY <1>1, <1>2 DEF Reserved, Unwritten
<1>4. Total' = Total
  BY <1>1, <1>3 DEF Total
<1>5. received' /\ buffer'.op = "bufferSize" => received /\ buffer.op = "bufferSize"
  BY <1>1, PacketTypes
<1>6. One(received /\ buffer.op = "bufferSize")' <= One(received /\ buffer.op = "bufferSize")
  BY <1>5 DEF One
<1>7. Sizing' <= Sizing
  BY <1>1, <1>3, <1>6, CreditTypes DEF Sizing, One
<1>8. QED
  BY <1>1, <1>4, <1>7, SizingType, CreditStays DEF CreditInv

\* A packet read: a credit goes from the queue to the free buffers.
LEMMA PayloadCredit ==
  ASSUME BaseInv, CreditInv, SPI_DMA_IntHandler, PayloadDone, [Next]_vars
  PROVE  CreditInv' /\ Total' \in {Total, Buffers}
<1> DEFINE p == Head(outbox)
<1>1. /\ UNCHANGED <<main, call, seen, work, sending>>
      /\ outbox \in Seq(Sent) /\ outbox # <<>> /\ outbox' = Tail(outbox) /\ p \in Sent
      /\ ~received /\ buffer' = p /\ dma = "payload" /\ dma' = "none"
  BY OthersLeave, Payload
<1>2. freeBuffers' = freeBuffers + Credit(p)
  BY DEF PayloadDone, Unsolicited
<1>3. /\ Count(outbox, {"freeBuffer"}) = Count(outbox', {"freeBuffer"}) + One(p.op \in {"freeBuffer"})
      /\ Count(outbox, {"bufferSize"}) = Count(outbox', {"bufferSize"}) + One(p.op \in {"bufferSize"})
  BY <1>1, CountTail
<1>4. Count(outbox', {"freeBuffer"}) \in Nat /\ Count(outbox', {"bufferSize"}) \in Nat
  BY <1>1, TailPlaces, CountType
<1> HIDE DEF p
<1>5. Reserved' = Reserved /\ Unwritten' = Unwritten
  BY <1>1 DEF Reserved, Unwritten
<1>6. Total' = Total
  <2>1. Credit(p) = One(p.op \in {"freeBuffer"}) /\ Credit(p) \in {0, 1}
    BY DEF Credit, One
  <2>2. freeBuffers' + Count(outbox', {"freeBuffer"}) = freeBuffers + Count(outbox, {"freeBuffer"})
    BY <1>2, <1>3, <1>4, <2>1, CreditTypes
  <2>3. freeBuffers' \in Nat
    BY <1>2, <2>1, CreditTypes
  <2>4. Total = freeBuffers + Reserved + sending + Count(outbox, {"freeBuffer"})
                  + Count(work, {"send"})
    BY DEF Total
  <2>5. Total' = freeBuffers' + Reserved + sending + Count(outbox', {"freeBuffer"})
                  + Count(work, {"send"})
    BY <1>1, <1>5 DEF Total
  <2>6. QED
    BY <1>4, <2>2, <2>3, <2>4, <2>5, CreditTypes
<1>7. Sizing' <= Sizing
  <2> DEFINE q == One(Unwritten /\ call.op = "bufferSize")
             r == One(received' /\ p.op = "bufferSize")
  <2>1. Sizing = Count(work, {"bufferSize"}) + Count(outbox, {"bufferSize"}) + q
    BY <1>1, CreditTypes DEF Sizing, One
  <2>2. Sizing' = Count(work, {"bufferSize"}) + Count(outbox', {"bufferSize"}) + r + q
    BY <1>1, <1>5 DEF Sizing
  <2>3. r <= One(p.op \in {"bufferSize"}) /\ r \in {0, 1} /\ q \in {0, 1}
        /\ One(p.op \in {"bufferSize"}) \in {0, 1}
    BY DEF One
  <2> HIDE DEF q, r
  <2>4. QED
    BY <1>3, <1>4, <2>1, <2>2, <2>3, CreditTypes
<1>8. QED
  BY <1>1, <1>6, <1>7, SizingType, CreditStays DEF CreditInv

\* A command reaches the chip, with the buffer it was given.
LEMMA WriteCredit ==
  ASSUME BaseInv, CreditInv, SPI_DMA_IntHandler, WriteDone, [Next]_vars
  PROVE  CreditInv' /\ Total' \in {Total, Buffers}
<1>1. /\ work' = Append(work, call) /\ work \in Seq(Commands) /\ call \in Commands
      /\ UNCHANGED <<outbox, sending, buffer, received, freeBuffers, main, call, seen>>
      /\ dma = "write" /\ dma' = "none" /\ main = "writing" /\ Unwritten /\ ~Unwritten'
  BY WriteEnds
<1>2. /\ Count(work', {"send"}) = Count(work, {"send"}) + One(call.op \in {"send"})
      /\ Count(work', {"bufferSize"}) = Count(work, {"bufferSize"}) + One(call.op \in {"bufferSize"})
  BY <1>1, CountAppend
<1>3. Reserved = One(call.op \in {"send"}) /\ Reserved' = 0
  BY <1>1 DEF Reserved, One
<1>4. Total' = Total
  <2>1. Total = freeBuffers + Reserved + sending + Count(outbox, {"freeBuffer"})
                  + Count(work, {"send"})
    BY DEF Total
  <2>2. Total' = freeBuffers + Reserved' + sending + Count(outbox, {"freeBuffer"})
                  + Count(work', {"send"})
    BY <1>1 DEF Total
  <2>3. QED
    BY <1>2, <1>3, <2>1, <2>2, CreditTypes
<1>5. Sizing' <= Sizing
  <2> DEFINE r == One(received /\ buffer.op = "bufferSize")
             q == One(call.op \in {"bufferSize"})
  <2>1. Sizing = Count(work, {"bufferSize"}) + Count(outbox, {"bufferSize"}) + r + q
    BY <1>1 DEF Sizing, One
  <2>2. Sizing' = Count(work', {"bufferSize"}) + Count(outbox, {"bufferSize"}) + r
    <3>1. Count(work', {"bufferSize"}) \in Nat
      BY <1>2, CreditTypes DEF One
    <3>2. QED
      BY <1>1, <3>1, CreditTypes DEF Sizing, One
  <2>3. r \in {0, 1} /\ q \in {0, 1}
    BY DEF One
  <2> HIDE DEF q
  <2>4. QED
    BY <1>2, <2>1, <2>2, <2>3, CreditTypes DEF q
<1>6. QED
  BY <1>1, <1>4, <1>5, SizingType, CreditStays DEF CreditInv

LEMMA TransferCredit ==
  ASSUME BaseInv, CreditInv, SPI_DMA_IntHandler, [Next]_vars
  PROVE  CreditInv' /\ Total' \in {Total, Buffers}
<1>1. CASE HeaderDone \/ FirstBytesDone
  <2>1. /\ UNCHANGED <<outbox, work, sending, buffer, received, freeBuffers, main, call, seen>>
        /\ dma' # "write" /\ (dma = "write" => spi = "FIRST_WRITE")
    BY <1>1, HeaderEnds
  <2>2. dma = "write" => main = "first rest" /\ call.op = "start"
    BY <2>1 DEF BaseInv, PlaceInv, CallInv
  <2>3. Reserved' = Reserved /\ Unwritten' = Unwritten
    BY <2>1, <2>2 DEF Reserved, Unwritten
  <2>4. Total' = Total /\ Sizing' = Sizing
    BY <2>1, <2>3 DEF Total, Sizing
  <2>5. QED
    BY <2>1, <2>4 DEF CreditInv
<1>2. QED
  BY <1>1, PayloadCredit, WriteCredit DEF SPI_DMA_IntHandler

LEMMA ChipCredit ==
  ASSUME BaseInv, CreditInv, ChipWorks \/ ChipEvent, [Next]_vars
  PROVE  CreditInv' /\ Total' \in {Total, Buffers}
<1> DEFINE f  == Count(outbox, {"freeBuffer"})
           n  == Count(work, {"send"})
           bo == Count(outbox, {"bufferSize"})
           bw == Count(work, {"bufferSize"})
           f1  == Count(outbox', {"freeBuffer"})
           n1  == Count(work', {"send"})
           bo1 == Count(outbox', {"bufferSize"})
           bw1 == Count(work', {"bufferSize"})
           r == One(received /\ buffer.op = "bufferSize")
           q == One(Unwritten /\ call.op = "bufferSize")
<1>1. /\ UNCHANGED <<main, call, seen, freeBuffers, dma, received, buffer>>
      /\ LowersLine \/ Replies \/ Transmitted \/ Unasked
  BY OthersLeave DEF ChipWorks, ChipEvent, flow, bus
<1>2. Reserved' = Reserved /\ Unwritten' = Unwritten
  BY <1>1 DEF Reserved, Unwritten
<1>3. /\ f \in Nat /\ n \in Nat /\ bo \in Nat /\ bw \in Nat
      /\ sending \in Nat /\ freeBuffers \in Nat /\ Reserved \in {0, 1}
  BY CreditTypes
<1>0. PICK s1 : s1 = sending'
  OBVIOUS
<1>4. /\ s1 + f1 + n1 = sending + f + n /\ bo1 + bw1 = bo + bw
      /\ f1 \in Nat /\ n1 \in Nat /\ bo1 \in Nat /\ bw1 \in Nat /\ s1 \in Nat
  <2>1. CASE LowersLine
    BY <1>0, <1>3, <2>1 DEF LowersLine, chip
  <2>2. CASE Transmitted
    <3>1. Telling("freeBuffer") /\ sending' = sending - 1 /\ sending > 0
      BY <2>2, ChipTells DEF Transmitted
    <3>2. f1 = f + 1 /\ bo1 = bo /\ UNCHANGED work
      BY <1>3, <3>1, TellingCounts DEF One
    <3>3. QED
      BY <1>0, <1>3, <3>1, <3>2
  <2>3. CASE Unasked
    <3>1. PICK op \in {"known", "unknown"} : Telling(op)
      BY <2>3, ChipTells
    <3>2. f1 = f /\ bo1 = bo /\ UNCHANGED work
      BY <1>3, <3>1, TellingCounts DEF One
    <3>3. UNCHANGED sending
      BY <2>3 DEF Unasked
    <3>4. QED
      BY <1>0, <1>3, <3>2, <3>3
  <2>4. CASE Replies
    <3>1. /\ work \in Seq(Commands) /\ work # <<>> /\ work' = Tail(work)
          /\ Head(work) \in Commands
          /\ \E p \in Sent : Answering(Head(work), p)
          /\ sending' = sending + One(Head(work).op = "send") /\ sending \in Nat
      BY <2>4, ReplyWorks
    <3>2. PICK p \in Sent : Answering(Head(work), p)
      BY <3>1
    <3>3. /\ n = n1 + One(Head(work).op \in {"send"})
          /\ bw = bw1 + One(Head(work).op \in {"bufferSize"})
          /\ n1 \in Nat /\ bw1 \in Nat
      BY <3>1, CountTail, TailPlaces, CountType
    <3>4. "data" \notin {"freeBuffer"} /\ "data" \notin {"bufferSize"}
          /\ p.op \notin {"freeBuffer"}
          /\ (p.op \in {"bufferSize"} <=> Head(work).op \in {"bufferSize"})
      BY <3>1, <3>2 DEF Answering, Commands, Replying, Ops, BootOps
    <3>5. f1 = f
      BY <1>3, <3>1, <3>2, <3>4, AnsweringCounts DEF One
    <3>6. bo1 = bo + One(Head(work).op \in {"bufferSize"})
      BY <1>3, <3>1, <3>2, <3>4, AnsweringCounts DEF One
    <3>7. One(Head(work).op = "send") = One(Head(work).op \in {"send"})
          /\ One(Head(work).op \in {"send"}) \in {0, 1}
          /\ One(Head(work).op \in {"bufferSize"}) \in {0, 1}
      BY DEF One
    <3> HIDE DEF f, n, bo, bw, f1, n1, bo1, bw1
    <3>8. s1 = sending + One(Head(work).op \in {"send"})
      BY <1>0, <3>1, <3>7
    <3>9. s1 + f1 + n1 = sending + f + n /\ s1 \in Nat
      BY <1>3, <3>3, <3>5, <3>7, <3>8
    <3>10. bo1 + bw1 = bo + bw /\ bo1 \in Nat
      BY <1>3, <3>3, <3>6, <3>7
    <3>11. QED
      BY <1>3, <3>3, <3>5, <3>9, <3>10
  <2>5. QED
    BY <1>1, <2>1, <2>2, <2>3, <2>4
<1>5. /\ Total = freeBuffers + Reserved + sending + f + n
      /\ Total' = freeBuffers + Reserved + s1 + f1 + n1
  BY <1>0, <1>1, <1>2 DEF Total
<1>6. Sizing = bw + bo + r + q /\ Sizing' = bw1 + bo1 + r + q
  BY <1>1, <1>2 DEF Sizing
<1>7. r \in {0, 1} /\ q \in {0, 1}
  BY OneType
<1> HIDE DEF f, n, bo, bw, f1, n1, bo1, bw1, r, q
<1>8. Total' = Total
  BY <1>3, <1>4, <1>5
<1>9. Sizing' = Sizing
  BY <1>3, <1>4, <1>6, <1>7
<1>10. QED
  BY <1>1, <1>8, <1>9 DEF CreditInv

LEMMA StepCredit ==
  ASSUME BaseInv, CreditInv, [Next]_vars
  PROVE  CreditInv' /\ Total' \in {Total, Buffers}
<1>1. CASE UNCHANGED vars
  <2>1. UNCHANGED <<work, outbox, sending, received, buffer, freeBuffers, main, call, seen, dma>>
    BY <1>1 DEF vars, thread, chip, bus, flow
  <2>2. Reserved' = Reserved /\ Unwritten' = Unwritten
    BY <2>1 DEF Reserved, Unwritten
  <2>3. Total' = Total /\ Sizing' = Sizing
    BY <2>1, <2>2 DEF Total, Sizing
  <2>4. QED
    BY <2>1, <2>3 DEF CreditInv
<1>2. QED
  BY <1>1, MainCredit, EdgeCredit, TransferCredit, ChipCredit, StepsAre

FullInv == BaseInv /\ QueueInv /\ CreditInv

LEMMA InitFull == Init => FullInv
<1> SUFFICES ASSUME Init PROVE FullInv
  OBVIOUS
<1>1. work = <<>> /\ outbox = <<>>
  BY DEF Init
<1>2. \A ops : Count(work, ops) = 0 /\ Count(outbox, ops) = 0
  BY <1>1, CountEmpty
<1>3. Len(work) = 0 /\ Len(outbox) = 0
  BY <1>1
<1>4. QueueInv
  BY <1>3 DEF Init, QueueInv, One
<1>5. CreditInv
  BY <1>2, BoundAssumption DEF Init, CreditInv, Total, Sizing, One, Reserved
<1>6. QED
  BY <1>4, <1>5, InitBase DEF FullInv

LEMMA StepFull == FullInv /\ [Next]_vars => FullInv'
  BY StepBase, StepQueue, StepCredit DEF FullInv

\* Every variable keeps its type: the queues of the chip and its buffers are never more
\* than the calls made and the buffers it has.
THEOREM TypeCorrect == Spec => []TypeOK
<1>1. FullInv => TypeOK
  <2> SUFFICES ASSUME FullInv PROVE TypeOK
    OBVIOUS
  <2>1. /\ Types /\ BusInv /\ BaseInv
        /\ Len(work) + One(Unwritten) <= call.id + 1
        /\ Len(outbox) + sending + 2 * Len(work) + 2 * One(Unwritten)
             <= 2 * (call.id + 1) + faults.event
        /\ seen <= Buffers /\ (Total = 0 \/ Total = Buffers)
    BY DEF FullInv, BaseInv, QueueInv, CreditInv
  <2>2. Len(work) \in Nat /\ Len(outbox) \in Nat /\ One(Unwritten) \in {0, 1}
    <3>1. work \in Seq(Commands) /\ outbox \in Seq(Sent)
      BY <2>1 DEF Types, ChipTypes
    <3>2. QED
      BY <3>1, LenProperties, OneType
  <2>3. call.id \in 0 .. MaxCall + 1 /\ faults.event \in 0 .. MaxEvent
    BY <2>1 DEF Types, ThreadTypes, ChipTypes, Commands, Numbers
  <2>4. Len(work) <= MaxCall + 2
    BY <2>1, <2>2, <2>3, BoundAssumption
  <2>5. Len(outbox) <= 2 * (MaxCall + 2) + MaxEvent
    <3>1. sending \in Nat
      BY <2>1 DEF Types, ChipTypes
    <3>2. QED
      BY <2>1, <2>2, <2>3, <3>1, BoundAssumption
  <2>6. freeBuffers \in 0 .. Buffers /\ seen \in 0 .. Buffers /\ sending \in 0 .. Buffers
    BY <2>1, CreditTypes DEF Total
  <2>7. /\ {irq, edge, low, received, dataPending, solicited, transmitError, active}
             \subseteq BOOLEAN
        /\ dropped \cup failed \subseteq Numbers
    BY <2>1 DEF Types, BusTypes, ThreadTypes, ChipTypes
  <2>8. /\ {buffer, result} \subseteq Answers \cup Events \cup {Nothing, Garbage}
        /\ opcode \in Ops \cup BootOps \cup {"none"}
        /\ call \in [op : Ops \cup BootOps, id : Numbers]
    BY <2>1 DEF Types, BusTypes, ThreadTypes, Packets, Sent, Commands, Replying
  <2>9. QED
    BY <2>1, <2>4, <2>5, <2>6, <2>7, <2>8 DEF TypeOK, Types, BusTypes, BusInv
<1>2. QED
  BY InitFull, StepFull, <1>1, PTL DEF Spec


\* As long as no wait has timed out before its answer, one that times out has lost it.
LEMMA NoneLate ==
  ASSUME BaseInv, [Next]_vars, faults'.late = 0
  PROVE  /\ faults.late = 0
         /\ Timeout \/ DataTimeout => call.id \in dropped \cup failed
<1>1. faults \in [event : 0 .. MaxEvent, refused : 0 .. MaxRefused, late : 0 .. MaxLate]
  BY DEF BaseInv, Types, ChipTypes
<1>2. CASE Timeout \/ DataTimeout
  <2>1. ~(faults' = [faults EXCEPT !.late = @ + 1])
    BY <1>1
  <2>2. QED
    BY <1>2, <2>1 DEF Timeout, DataTimeout, GivesUp
<1>3. CASE ~(Timeout \/ DataTimeout) /\ \E op \in Ops \cup {"bufferSize"} : MainStep(op)
  BY <1>3 DEF MainStep, SpiWrite, hci_event_handler, HostFlowControlConsumeBuff,
              NewCommand, sFLASH_CS_LOW, sFLASH_CS_HIGH, handle_spi_request
<1>4. CASE SPI_EXTI_IntHandler \/ SPI_DMA_IntHandler \/ UNCHANGED vars
  BY <1>2, <1>4 DEF SPI_EXTI_IntHandler, SPI_DMA_IntHandler, vars
<1>5. CASE ChipWorks \/ ChipEvent
  <2>1. \/ UNCHANGED faults
        \/ faults' = [faults EXCEPT !.refused = @ + 1]
        \/ faults' = [faults EXCEPT !.event = @ + 1]
    BY <1>5 DEF ChipWorks, ChipEvent, LowersLine, Replies, Transmitted, Unasked
  <2>2. faults'.late = faults.late
    BY <1>1, <2>1
  <2>3. QED
    BY <1>2, <2>2
<1>6. QED
  BY <1>2, <1>3, <1>4, <1>5, StepsAre

\* The call that asks for the size of the pool does not return without it.
LEMMA StepSized ==
  ASSUME FullInv, SizedInv, [Next]_vars
  PROVE  SizedInv'
<1> DEFINE Ready == \/ call.op \in Ops
                    \/ call.op = "bufferSize" /\ main \in {"free", "flash", "released"}
<1>1. BaseInv /\ CreditInv /\ CreditInv' /\ Total' \in {Total, Buffers}
  BY StepCredit DEF FullInv
<1>2. SUFFICES ASSUME faults'.late = 0, dropped' = {}, Ready' PROVE Total' = Buffers
  BY DEF SizedInv
<1> HIDE DEF Ready
<1>3. dropped = {}
  <2>1. CASE \E op \in Ops \cup {"bufferSize"} : MainStep(op)
    BY <1>2, <2>1, MainLeaves
  <2>2. CASE SPI_EXTI_IntHandler \/ ChipWorks \/ ChipEvent \/ UNCHANGED vars
    BY <1>2, <2>2 DEF SPI_EXTI_IntHandler, ChipWorks, ChipEvent, vars, history
  <2>3. CASE SPI_DMA_IntHandler
    BY <1>2, <2>3 DEF SPI_DMA_IntHandler, HeaderDone, PayloadDone, FirstBytesDone,
                      WriteDone, history
  <2>4. QED
    BY <2>1, <2>2, <2>3, StepsAre
<1>4. /\ faults.late = 0
      /\ Timeout \/ DataTimeout => call.id \in failed
  BY <1>1, <1>2, <1>3, NoneLate
<1>5. Ready => Total' = Buffers
  BY <1>1, <1>3, <1>4 DEF SizedInv, Ready
<1>6. Timeout => call.op # "bufferSize"
  BY <1>1, <1>4 DEF BaseInv, PlaceInv, OrderInv
<1>7. Ready \/ (TakePacket /\ main' = "free" /\ call.op = "bufferSize" /\ UNCHANGED <<bus, buffer>>)
  <2>1. CASE UNCHANGED <<main, call>>
    BY <1>2, <2>1 DEF Ready
  <2>2. ASSUME NEW op \in Ops \cup {"bufferSize"}, MainStep(op)
        PROVE  Ready \/ (TakePacket /\ main' = "free" /\ call.op = "bufferSize"
                           /\ UNCHANGED <<bus, buffer>>)
    <3>1. CASE NewCommand(op)
      <4>1. call'.op = op /\ (op = "bufferSize" => main' = "reserve")
            /\ (op \in Ops => main = "free" /\ call.id > 0)
        BY <3>1, CommandBegins, <1>1 DEF Ops
      <4>2. op \in Ops
        BY <1>2, <4>1 DEF Ready
      <4>3. call.op # "start" /\ call.op \in Replying
        BY <1>1, <4>1, <4>2 DEF BaseInv, PlaceInv, CallInv, Types, ThreadTypes, Commands
      <4>4. QED
        BY <4>1, <4>2, <4>3 DEF Ready, Replying, BootOps
    <3>2. CASE SpiWrite
      <4>1. UNCHANGED call /\ main' \notin {"free", "flash", "released"}
        BY <3>2 DEF SpiWrite, SpiOpen, FirstWrite, FirstRest, Reserve, Proceed, Written, Goto
      <4>2. QED
        BY <1>2, <4>1 DEF Ready
    <3>3. CASE HostFlowControlConsumeBuff
      <4>1. UNCHANGED call /\ main \in {"consume", "swap"}
        BY <3>3 DEF HostFlowControlConsumeBuff, TransmitFailed, SocketInactive, NoBuffer,
                    ReadCredit, CompareAndSwap, Goto
      <4>2. QED
        BY <1>1, <4>1 DEF Ready, BaseInv, PlaceInv, CallInv, Ops
    <3>4. CASE sFLASH_CS_LOW \/ sFLASH_CS_HIGH \/ handle_spi_request
      <4>1. UNCHANGED call /\ main \in {"free", "flash", "released"}
        BY <3>4 DEF sFLASH_CS_LOW, sFLASH_CS_HIGH, handle_spi_request, Goto
      <4>2. QED
        BY <1>2, <4>1 DEF Ready
    <3>5. CASE Timeout
      <4>1. UNCHANGED call
        BY <3>5 DEF Timeout, Return
      <4>2. QED
        BY <1>2, <1>6, <3>5, <4>1 DEF Ready
    <3>6. CASE hci_event_handler \/ DataTimeout
      <4>1. UNCHANGED call
            /\ (main' \in {"event", "data", "panic", "recv", "started", "free"})
            /\ (main' = "free" => TakePacket)
            /\ (hci_event_handler => UNCHANGED <<bus, buffer>>)
            /\ (DataTimeout => main' = "panic")
        BY <3>6 DEF hci_event_handler, SimpleLinkWaitEvent, TakePacket, AfterPacket, Return,
                    SimpleLinkWaitData, DataTimeout, Goto
      <4>2. QED
        BY <1>2, <3>6, <4>1 DEF Ready
    <3>7. QED
      BY <2>2, <3>1, <3>2, <3>3, <3>4, <3>5, <3>6 DEF MainStep
  <2>3. CASE SPI_EXTI_IntHandler \/ SPI_DMA_IntHandler \/ ChipWorks \/ ChipEvent
    BY <2>1, <2>3, OthersLeave
  <2>4. QED
    BY <2>1, <2>2, <2>3, StepsAre DEF vars, thread
<1>8. ASSUME TakePacket, main' = "free", call.op = "bufferSize" PROVE Total' = Buffers
  <2>1. main = "event" /\ main' # main /\ opcode' = "none"
    BY <1>1, <1>8 DEF TakePacket, AfterPacket, Return, BaseInv, PlaceInv, CallInv
  <2>2. opcode = "bufferSize"
    BY <1>1, <1>8, <2>1 DEF BaseInv, PlaceInv, WaitInv
  <2>3. TakeEvent /\ buffer.op = opcode
    BY <1>8, <2>1, <2>2 DEF TakePacket, TakeEvent, TakeData
  <2>4. ~Handled(buffer)
    BY <2>2, <2>3 DEF Handled
  <2>5. freeBuffers' = Buffers
    BY <2>2, <2>3, <2>4 DEF TakeEvent
  <2>6. Total' # 0
    <3>1. BaseInv'
      BY <1>1, StepBase
    <3>2. /\ Count(outbox', {"freeBuffer"}) \in Nat /\ Count(work', {"send"}) \in Nat
          /\ Reserved' \in Nat /\ sending' \in Nat
      <4>1. work' \in Seq(Commands) /\ outbox' \in Seq(Sent) /\ sending' \in Nat
        BY <3>1 DEF BaseInv, Types, ChipTypes
      <4>2. QED
        BY <4>1, CountType DEF Reserved
    <3>3. QED
      BY <2>5, <3>2, BoundAssumption DEF Total
  <2>7. QED
    BY <1>1, <2>6 DEF CreditInv
<1>9. QED
  BY <1>5, <1>7, <1>8

\* No credit for a transmit buffer is lost or made up, although main takes them while the
\* interrupt gives them back.
THEOREM BuffersAreConserved == Spec => []BuffersConserved
<1>1. Init => FullInv /\ SizedInv
  BY InitFull DEF Init, SizedInv, Ops
<1>2. FullInv /\ SizedInv /\ [Next]_vars => (FullInv /\ SizedInv)'
  BY StepFull, StepSized
<1>3. FullInv /\ SizedInv => BuffersConserved
  <2> SUFFICES ASSUME FullInv, SizedInv, faults.late = 0, dropped = {}, call.op \in Ops
               PROVE  BuffersConserved
    BY DEF BuffersConserved
  <2>1. Total = Buffers
    BY DEF SizedInv
  <2>2. /\ Count(outbox, {"freeBuffer"})
             = Cardinality({i \in DOMAIN outbox : outbox[i].op = "freeBuffer"})
        /\ Count(work, {"send"}) = Cardinality({i \in DOMAIN work : work[i].op = "send"})
    <3>1. /\ {i \in DOMAIN outbox : outbox[i].op \in {"freeBuffer"}}
               = {i \in DOMAIN outbox : outbox[i].op = "freeBuffer"}
          /\ {i \in DOMAIN work : work[i].op \in {"send"}}
               = {i \in DOMAIN work : work[i].op = "send"}
      OBVIOUS
    <3>2. QED
      BY <3>1 DEF Count
  <2>3. QED
    BY <2>1, <2>2 DEF Total, BuffersConserved
<1>4. QED
  BY <1>1, <1>2, <1>3, PTL DEF Spec


-----------------------------------------------------------------------------
(* The answer is the call's *)

LEMMA OutstandingTypes ==
  ASSUME BaseInv
  PROVE  /\ Len(work) \in Nat /\ Count(outbox, Replied) \in Nat /\ Count(outbox, {"data"}) \in Nat
         /\ One(received /\ buffer.op \in Replying) \in {0, 1}
         /\ One(received /\ buffer.op = "data") \in {0, 1}
         /\ One(Unwritten) \in {0, 1} /\ One(call.id \in failed) \in {0, 1}
         /\ Outstanding \in Nat /\ Data \in Nat
<1>1. work \in Seq(Commands) /\ outbox \in Seq(Sent)
  BY DEF BaseInv, Types, ChipTypes
<1>2. /\ Len(work) \in Nat /\ Count(outbox, Replied) \in Nat /\ Count(outbox, {"data"}) \in Nat
  BY <1>1, LenProperties, CountType
<1>3. QED
  BY <1>2, OneType DEF Outstanding, Data

\* What is there when nothing is outstanding.
LEMMA NothingOutstanding ==
  ASSUME BaseInv, Outstanding = 0
  PROVE  /\ work = <<>> /\ ~(received /\ buffer.op \in Replying) /\ ~Announced
         /\ \A i \in DOMAIN outbox : outbox[i].op \notin Replied
<1>1. work \in Seq(Commands) /\ outbox \in Seq(Sent)
  BY DEF BaseInv, Types, ChipTypes
<1>2. /\ Len(work) = 0 /\ Count(outbox, Replied) = 0
      /\ One(received /\ buffer.op \in Replying) = 0
  BY OutstandingTypes DEF Outstanding
<1>3. work = <<>>
  BY <1>1, <1>2, EmptySeq, LenProperties
<1>4. \A i \in DOMAIN outbox : outbox[i].op \notin Replied
  BY <1>1, <1>2, CountEmptied
<1>5. ~(received /\ buffer.op \in Replying)
  BY <1>2 DEF One
<1>6. ~Announced
  BY <1>4, <1>5 DEF Announced, Replied, Replying, Ops
<1>7. QED
  BY <1>3, <1>4, <1>5, <1>6

LEMMA NoData ==
  ASSUME BaseInv, Data = 0
  PROVE  /\ ~(received /\ buffer.op = "data")
         /\ \A i \in DOMAIN outbox : outbox[i].op # "data"
<1>1. outbox \in Seq(Sent)
  BY DEF BaseInv, Types, ChipTypes
<1>2. Count(outbox, {"data"}) = 0 /\ One(received /\ buffer.op = "data") = 0
  BY OutstandingTypes DEF Data
<1>3. \A i \in DOMAIN outbox : outbox[i].op \notin {"data"}
  BY <1>1, <1>2, CountEmptied
<1>4. QED
  BY <1>2, <1>3 DEF One

\* The announcement of data is itself an answer.
LEMMA AnnouncedCounts ==
  ASSUME BaseInv, Announced
  PROVE  Count(outbox, Replied) + One(received /\ buffer.op \in Replying) >= 1
<1>1. outbox \in Seq(Sent)
  BY DEF BaseInv, Types, ChipTypes
<1>2. "recv" \in Replied /\ "recv" \in Replying
  BY DEF Replied, Replying, Ops
<1>3. CASE \E i \in DOMAIN outbox : outbox[i].op = "recv" /\ outbox[i].more
  <2>1. PICK i \in DOMAIN outbox : outbox[i].op = "recv"
    BY <1>3
  <2>2. Count(outbox, Replied) > 0
    BY <1>1, <1>2, <2>1, CountPositive
  <2>3. QED
    BY <2>2, OutstandingTypes
<1>4. CASE received /\ buffer.op = "recv" /\ buffer.more
  BY <1>2, <1>4, OutstandingTypes DEF One
<1>5. QED
  BY <1>3, <1>4 DEF Announced

\* Before a command is written nothing is outstanding, nor when main has no call to
\* wait for; then no data is either.
LEMMA QuietBefore ==
  ASSUME BaseInv, Punctual,
         \/ Unwritten /\ main \notin {"recv", "data"}
         \/ main \notin {"writing", "written", "event", "recv", "data"}
         \/ call.id \in failed /\ main \notin {"recv", "data"}
  PROVE  Outstanding = 0 /\ Data = 0
<1>1. Outstanding = 0
  <2>1. CASE Unwritten
    BY <2>1, OutstandingTypes DEF Punctual, Counted, One
  <2>2. CASE main \notin {"writing", "written", "event", "recv", "data"}
    BY <2>2 DEF Punctual, Counted
  <2>3. CASE call.id \in failed
    BY <2>3, OutstandingTypes DEF Punctual, Counted, One
  <2>4. QED
    BY <2>1, <2>2, <2>3
<1>2. ~Announced
  BY <1>1, NothingOutstanding
<1>3. Data <= 1 /\ Data # 1
  BY <1>2 DEF Punctual, Following
<1>4. QED
  BY <1>1, <1>3, OutstandingTypes

\* Steps that touch no queue, no answer and no call.
LEMMA PunctualStays ==
  ASSUME BaseInv, Punctual,
         UNCHANGED <<work, outbox, failed, call, received>>, received => UNCHANGED buffer,
         result' \in {result, Nothing}, Unwritten' => Unwritten,
         main' \notin {"writing", "written", "event"} =>
           main \notin {"writing", "written", "event"} \/ Outstanding = 0,
         main \in {"recv", "data"} <=> main' \in {"recv", "data"}
  PROVE  Punctual'
<1>1. /\ One(received /\ buffer.op \in Replying)' = One(received /\ buffer.op \in Replying)
      /\ One(received /\ buffer.op = "data")' = One(received /\ buffer.op = "data")
      /\ Announced' = Announced
  BY DEF One, Announced
<1>2. Outstanding' = Outstanding /\ Data' = Data
  BY <1>1 DEF Outstanding, Data
<1>3. One(Unwritten)' <= One(Unwritten) /\ One(Unwritten)' \in {0, 1}
  BY DEF One
<1>4. Counted'
  <2>1. Outstanding + One(Unwritten)' + One(call.id \in failed) <= 1
    BY <1>3, OutstandingTypes DEF Punctual, Counted
  <2>2. One(call.id \in failed)' = One(call.id \in failed)
    OBVIOUS
  <2>3. QED
    BY <1>2, <2>1, <2>2 DEF Punctual, Counted
<1>5. Own'
  BY DEF Punctual, Own
<1>6. Following'
  BY <1>1, <1>2 DEF Punctual, Following
<1>7. QED
  BY <1>4, <1>5, <1>6 DEF Punctual

\* Steps while nothing is outstanding.
LEMMA PunctualQuiet ==
  ASSUME BaseInv, Punctual, Outstanding = 0, Data = 0,
         UNCHANGED <<work, outbox, failed, call, received>>, buffer' \in {buffer, Garbage},
         result' \in {result, Nothing}, Unwritten' => Unwritten,
         main' \notin {"recv", "data"}
  PROVE  Punctual'
<1>1. /\ ~(received /\ buffer.op \in Replying) /\ ~(received /\ buffer.op = "data")
      /\ Garbage.op = "garbage"
  BY NothingOutstanding, NoData, PacketTypes
<1>2. ~(received /\ buffer.op \in Replying)' /\ ~(received /\ buffer.op = "data")'
  BY <1>1 DEF Replying, Ops, BootOps
<1>3. Outstanding' = 0 /\ Data' = 0
  <2>1. /\ One(received /\ buffer.op \in Replying)' = 0
        /\ One(received /\ buffer.op = "data")' = 0
    BY <1>2 DEF One
  <2>2. Len(work) = 0 /\ Count(outbox, Replied) = 0 /\ Count(outbox, {"data"}) = 0
    BY OutstandingTypes DEF Outstanding, Data
  <2>3. QED
    BY <2>1, <2>2 DEF Outstanding, Data
<1>4. One(Unwritten)' <= One(Unwritten) /\ One(Unwritten)' \in {0, 1}
  BY DEF One
<1>5. Counted'
  <2>1. One(Unwritten)' + One(call.id \in failed) <= 1
    BY <1>4, OutstandingTypes DEF Punctual, Counted
  <2>2. One(call.id \in failed)' = One(call.id \in failed)
    OBVIOUS
  <2>3. QED
    BY <1>3, <1>4, <2>1, <2>2, OutstandingTypes DEF Counted
<1>6. Own'
  BY <1>2 DEF Punctual, Own
<1>7. Following'
  BY <1>3 DEF Following
<1>8. QED
  BY <1>5, <1>6, <1>7 DEF Punctual

LEMMA EdgePunctual ==
  ASSUME BaseInv, Punctual, SPI_EXTI_IntHandler
  PROVE  Punctual'
<1>1. /\ UNCHANGED <<work, outbox, failed, call, received, result, main>>
      /\ dma' \in {dma, "header"}
      /\ UNCHANGED buffer \/ (irq /\ Interrupt)
  BY DEF SPI_EXTI_IntHandler, Initialized, ReadRequested, ReadPostponed, WriteAllowed,
         Ignored, StartRead, Interrupt, thread, chip, history, bus
<1>2. received => UNCHANGED buffer
  BY <1>1 DEF BaseInv, PlaceInv, ReadInv
<1>3. Unwritten' => Unwritten
  BY <1>1 DEF Unwritten
<1>4. QED
  BY <1>1, <1>2, <1>3, PunctualStays

LEMMA WritePunctual ==
  ASSUME BaseInv, Punctual, SpiWrite
  PROVE  Punctual'
<1>1. UNCHANGED <<work, outbox, failed, call, received, result>>
  BY DEF SpiWrite, SpiOpen, FirstWrite, FirstRest, Reserve, Proceed, Written, Goto,
         chip, history
<1>2. Unwritten' => Unwritten
  BY DEF SpiWrite, SpiOpen, FirstWrite, FirstRest, Reserve, Proceed, Written, Goto,
         Unwritten, bus
<1>3. CASE SpiOpen \/ FirstWrite \/ FirstRest \/ Reserve \/ Proceed
  <2>1. /\ main \in {"open", "first", "first rest", "reserve", "proceed"}
        /\ main' \notin {"recv", "data"} /\ buffer' \in {buffer, Garbage}
    BY <1>3 DEF SpiOpen, FirstWrite, FirstRest, Reserve, Proceed, Goto, StartWrite
  <2>2. Outstanding = 0 /\ Data = 0
    BY <2>1, QuietBefore
  <2>3. QED
    BY <1>1, <1>2, <2>1, <2>2, PunctualQuiet
<1>4. CASE Written
  <2>1. UNCHANGED buffer /\ main = "writing" /\ main' = "written"
    BY <1>4 DEF Written, Goto
  <2>2. QED
    BY <1>1, <1>2, <2>1, PunctualStays
<1>5. QED
  BY <1>3, <1>4 DEF SpiWrite

LEMMA FlowPunctual ==
  ASSUME BaseInv, Punctual, HostFlowControlConsumeBuff
  PROVE  Punctual'
<1>1. /\ UNCHANGED <<work, outbox, failed, call, received, buffer, result, dma>>
      /\ main \in {"consume", "swap"} /\ main' \in {"free", "swap", "reserve", "consume"}
  BY DEF HostFlowControlConsumeBuff, TransmitFailed, SocketInactive, NoBuffer,
         ReadCredit, CompareAndSwap, Goto, chip, history, bus
<1>2. QED
  BY <1>1, PunctualStays DEF Unwritten

LEMMA FlashPunctual ==
  ASSUME BaseInv, Punctual, sFLASH_CS_LOW \/ sFLASH_CS_HIGH \/ handle_spi_request
  PROVE  Punctual'
<1>1. /\ UNCHANGED <<work, outbox, failed, call, received, result>>
      /\ main \in {"free", "flash", "released"} /\ main' \in {"free", "flash", "released"}
      /\ dma' \in {dma, "header"} /\ buffer' \in {buffer, Garbage}
  BY DEF sFLASH_CS_LOW, sFLASH_CS_HIGH, handle_spi_request, StartRead, Goto, chip, history,
         bus, thread
<1>2. Outstanding = 0 /\ Data = 0
  BY <1>1, QuietBefore
<1>3. QED
  BY <1>1, <1>2, PunctualQuiet DEF Unwritten

LEMMA CommandPunctual ==
  ASSUME BaseInv, Punctual, NEW op \in Ops \cup {"bufferSize"}, NewCommand(op)
  PROVE  Punctual'
<1>1. /\ call'.id = call.id + 1 /\ call.id \in Nat /\ UNCHANGED <<buffer, received>>
      /\ result' = Nothing /\ main \in {"started", "free"} /\ main' \in {"consume", "reserve"}
  BY CommandBegins
<1>2. UNCHANGED <<work, outbox, failed>>
  BY DEF NewCommand, chip, history
<1>3. Outstanding = 0 /\ Data = 0
  BY <1>1, QuietBefore
<1>4. /\ work = <<>> /\ ~(received /\ buffer.op \in Replying)
      /\ ~(received /\ buffer.op = "data")
      /\ \A i \in DOMAIN outbox : outbox[i].op \notin Replied \cup {"data"}
  BY <1>3, NothingOutstanding, NoData
<1>5. Outstanding' = 0 /\ Data' = 0
  BY <1>1, <1>2, <1>3 DEF Outstanding, Data
<1>6. call'.id \notin failed
  <2>1. \A id \in failed : id \in Int /\ id <= call.id
    BY DEF BaseInv, Types, ChipTypes, Numbers, PlaceInv, OrderInv
  <2>2. QED
    BY <1>1, <2>1
<1>7. Counted'
  BY <1>2, <1>5, <1>6 DEF Counted, One
<1>8. Own'
  BY <1>1, <1>2, <1>4 DEF Own
<1>9. Following'
  BY <1>1, <1>5 DEF Following
<1>10. QED
  BY <1>7, <1>8, <1>9 DEF Punctual


\* The packet main takes: the answer ends the wait or announces the data that main then
\* waits for.
LEMMA TakePunctual ==
  ASSUME BaseInv, Punctual, TakePacket, UNCHANGED <<bus, buffer, chip>>
  PROVE  Punctual'
<1>1. /\ main \in {"event", "data"} /\ received /\ ~received'
      /\ UNCHANGED <<work, outbox, failed, call, buffer>>
      /\ main' \in {"event", "data", "recv", "started", "free"}
  BY DEF TakePacket, GiveBuffer, AfterPacket, Return, chip, history
<1>2. /\ buffer \in Packets /\ call.op \in Replying /\ opcode \in Replying \cup {"none"}
  BY DEF BaseInv, Types, BusTypes, ThreadTypes, Commands
<1>3. /\ main = "event" => opcode = call.op /\ ~dataPending
      /\ main = "data" => opcode = "none" /\ dataPending /\ buffer # Garbage
  BY <1>1 DEF BaseInv, PlaceInv, WaitInv, Punctual, Following
<1>4. /\ Outstanding' = Len(work) + Count(outbox, Replied)
      /\ Outstanding = Len(work) + Count(outbox, Replied) + One(buffer.op \in Replying)
      /\ Data' = Count(outbox, {"data"})
      /\ Data = Count(outbox, {"data"}) + One(buffer.op = "data")
  <2>1. /\ One(received /\ buffer.op \in Replying)' = 0
        /\ One(received /\ buffer.op = "data")' = 0
        /\ One(received /\ buffer.op \in Replying) = One(buffer.op \in Replying)
        /\ One(received /\ buffer.op = "data") = One(buffer.op = "data")
    BY <1>1 DEF One
  <2>2. Len(work) \in Nat /\ Count(outbox, Replied) \in Nat /\ Count(outbox, {"data"}) \in Nat
    BY OutstandingTypes
  <2>3. QED
    BY <1>1, <2>1, <2>2 DEF Outstanding, Data
<1>5. /\ Len(work) \in Nat /\ Count(outbox, Replied) \in Nat /\ Count(outbox, {"data"}) \in Nat
      /\ One(buffer.op \in Replying) \in {0, 1} /\ One(buffer.op = "data") \in {0, 1}
      /\ One(Unwritten) \in {0, 1} /\ One(call.id \in failed) \in {0, 1}
  BY OutstandingTypes, OneType
<1>6. /\ Outstanding + One(Unwritten) + One(call.id \in failed) <= 1
      /\ main = "data" => Outstanding = 0
  BY <1>1 DEF Punctual, Counted
<1>7. ~Unwritten /\ ~Unwritten'
  BY <1>1 DEF Unwritten, bus, BaseInv, PlaceInv, CallInv
<1>8. main = "event" /\ main' # "event" => TakeEvent /\ buffer.op = call.op /\ opcode' = "none"
  <2> SUFFICES ASSUME main = "event", main' # "event"
               PROVE  TakeEvent /\ buffer.op = call.op /\ opcode' = "none"
    OBVIOUS
  <2>1. opcode' = "none"
    BY DEF TakePacket, AfterPacket
  <2>2. opcode # "none" /\ opcode = call.op
    BY <1>2, <1>3 DEF Replying, Ops, BootOps
  <2>3. QED
    BY <2>1, <2>2 DEF TakePacket, TakeEvent, TakeData
<1>9. Counted'
  <2>1. Outstanding' + One(Unwritten)' + One(call.id \in failed)' <= 1
    <3>1. One(Unwritten)' = 0 /\ One(call.id \in failed)' = One(call.id \in failed)
      BY <1>1, <1>7 DEF One
    <3>2. Outstanding' <= Outstanding /\ Outstanding' \in Nat /\ Outstanding \in Nat
      BY <1>4, <1>5
    <3>3. QED
      BY <1>5, <1>6, <3>1, <3>2
  <2>2. main' # "event" => Outstanding' = 0
    <3>1. CASE main = "data"
      BY <1>4, <1>5, <1>6, <3>1
    <3>2. CASE main = "event" /\ main' # "event"
      <4>1. One(buffer.op \in Replying) = 1
        BY <1>2, <1>8, <3>2 DEF One
      <4>2. QED
        BY <1>4, <1>5, <1>6, <4>1
    <3>3. QED
      BY <1>1, <3>1, <3>2
  <2>3. QED
    BY <2>1, <2>2 DEF Counted
<1>10. result' = result \/ (result' = buffer /\ buffer.op \in Replying \cup {"data"})
  <2>1. CASE TakeEvent
    <3>1. CASE Handled(buffer) \/ buffer.op = "unknown"
      BY <2>1, <3>1 DEF TakeEvent
    <3>2. CASE ~(Handled(buffer) \/ buffer.op = "unknown")
      <4>1. result' = buffer /\ buffer.op \in {"send", opcode}
        BY <2>1, <3>2 DEF TakeEvent, Handled
      <4>2. buffer.op # "none"
        BY <1>2, PacketTypes DEF Packets, Replied, Replying, Ops, BootOps
      <4>3. QED
        BY <1>2, <4>1, <4>2 DEF Replying, Ops
    <3>3. QED
      BY <3>1, <3>2
  <2>2. CASE TakeData
    <3>1. CASE ~dataPending
      BY <2>2, <3>1 DEF TakeData
    <3>2. CASE dataPending
      <4>1. main = "data" /\ buffer # Garbage
        BY <1>1, <1>3, <3>2
      <4>2. buffer.op = "data"
        BY <1>2, <2>2, <4>1, PacketTypes DEF TakeData, IsEvent, Packets, Replied, Replying,
                                             Ops, BootOps
      <4>3. QED
        BY <2>2, <3>2, <4>2 DEF TakeData
    <3>3. QED
      BY <3>1, <3>2
  <2>3. QED
    BY <2>1, <2>2 DEF TakePacket
<1>11. Own'
  <2>1. result' # Nothing => result'.id = call'.id
    BY <1>1, <1>10 DEF Punctual, Own
  <2>2. QED
    BY <1>1, <2>1 DEF Punctual, Own
<1>12. Following'
  <2>1. Data' <= 1
    <3>1. Data <= 1
      BY DEF Punctual, Following
    <3>2. QED
      BY <1>4, <1>5, <3>1
  <2>2. ASSUME Data' = 1 PROVE main' \in {"recv", "data"} \/ Announced'
    <3>1. Data = 1 /\ buffer.op # "data"
      <4>1. Data <= 1
        BY DEF Punctual, Following
      <4>2. One(buffer.op = "data") = 0 /\ Data = 1
        BY <1>4, <1>5, <2>2, <4>1
      <4>3. QED
        BY <4>2 DEF One
    <3>2. main = "data" \/ Announced
      BY <1>1, <3>1 DEF Punctual, Following
    <3>3. CASE main = "data"
      <4>1. IsEvent(buffer)
        BY <1>2, <1>3, <3>1, <3>3, PacketTypes DEF IsEvent, Packets, Replied, Replying,
                                                    Ops, BootOps
      <4>2. dataPending'
        BY <1>3, <3>3, <4>1 DEF TakePacket, TakeEvent, TakeData
      <4>3. main' = main
        BY <4>2 DEF TakePacket, AfterPacket
      <4>4. QED
        BY <3>3, <4>3
    <3>4. CASE Announced /\ main = "event"
      <4>1. CASE \E i \in DOMAIN outbox : outbox[i].op = "recv" /\ outbox[i].more
        BY <1>1, <4>1 DEF Announced
      <4>2. CASE buffer.op = "recv" /\ buffer.more
        <5>1. buffer.op = call.op /\ opcode = buffer.op
          BY <1>1, <1>3, <3>4, <4>2 DEF Punctual, Own, Replying, Ops
        <5>2. IsEvent(buffer) /\ ~Handled(buffer)
          BY <4>2, <5>1 DEF IsEvent, Handled
        <5>3. TakeEvent
          BY <5>2 DEF TakePacket, TakeData
        <5>4. opcode' = "none" /\ result' = buffer /\ ~dataPending'
          BY <1>3, <3>4, <4>2, <5>1, <5>2, <5>3 DEF TakeEvent
        <5>5. main' = "recv"
          BY <3>4, <4>2, <5>1, <5>4 DEF TakePacket, AfterPacket, HasData
        <5>6. QED
          BY <5>5
      <4>3. QED
        BY <3>4, <4>1, <4>2 DEF Announced
    <3>5. QED
      BY <1>1, <3>2, <3>3, <3>4
  <2>3. QED
    BY <1>1, <2>1, <2>2 DEF Following
<1>13. QED
  BY <1>9, <1>11, <1>12 DEF Punctual

LEMMA WaitPunctual ==
  ASSUME BaseInv, Punctual, dropped = {}, hci_event_handler \/ Timeout \/ DataTimeout,
         Timeout \/ DataTimeout => call.id \in failed
  PROVE  Punctual'
<1>1. CASE TakePacket /\ UNCHANGED <<bus, buffer, chip, faults>>
  BY <1>1, TakePunctual
<1>2. CASE (SimpleLinkWaitEvent \/ SimpleLinkWaitData) /\ UNCHANGED <<bus, buffer, chip, faults>>
  <2>1. /\ UNCHANGED <<work, outbox, failed, call, received, result, buffer, dma>>
        /\ \/ main = "written" /\ main' = "event"
           \/ main = "recv" /\ main' = "data"
    BY <1>2 DEF SimpleLinkWaitEvent, SimpleLinkWaitData, Goto, chip, history, bus
  <2>2. Unwritten' => Unwritten
    BY <2>1 DEF Unwritten
  <2>3. CASE main = "written" /\ main' = "event"
    BY <2>1, <2>2, <2>3, PunctualStays
  <2>4. CASE main = "recv" /\ main' = "data"
    BY <2>1, <2>2, <2>4, PunctualStays
  <2>5. QED
    BY <2>1, <2>3, <2>4
<1>3. CASE Timeout
  <2>1. /\ UNCHANGED <<work, outbox, failed, call, received, buffer, dma>>
        /\ main = "event" /\ main' \in {"started", "free"} /\ result' = Nothing
    BY <1>3 DEF Timeout, Return, chip, history, bus
  <2>2. Outstanding = 0 /\ Data = 0
    BY <1>3, <2>1, QuietBefore
  <2>3. QED
    BY <2>1, <2>2, PunctualQuiet DEF Unwritten
<1>4. ~DataTimeout
  <2> SUFFICES ASSUME DataTimeout PROVE FALSE
    OBVIOUS
  <2>1. main = "data" /\ call.id \in failed
    BY DEF DataTimeout
  <2>2. call.op = "recv" /\ call.op = "send"
    BY <2>1 DEF BaseInv, PlaceInv, CallInv, OrderInv
  <2>3. QED
    BY <2>2
<1>5. QED
  BY <1>1, <1>2, <1>3, <1>4 DEF hci_event_handler

\* What the interrupt reads is for main, or closes the socket, or is no answer.
LEMMA PayloadPunctual ==
  ASSUME BaseInv, Punctual, dropped' = {}, SPI_DMA_IntHandler, PayloadDone
  PROVE  Punctual'
<1> DEFINE p  == Head(outbox)
           o  == Count(outbox, Replied)
           o1 == Count(outbox', Replied)
           d  == Count(outbox, {"data"})
           d1 == Count(outbox', {"data"})
           b1 == One(received' /\ p.op \in Replying)
           e1 == One(received' /\ p.op = "data")
           n  == Len(work)
           u  == One(Unwritten)
           f  == One(call.id \in failed)
           f1 == One(call.id \in failed')
<1>1. /\ UNCHANGED <<main, call, result, work>>
      /\ outbox \in Seq(Sent) /\ outbox # <<>> /\ outbox' = Tail(outbox) /\ p \in Sent
      /\ 1 \in DOMAIN outbox /\ p = outbox[1]
      /\ \A i \in DOMAIN outbox' : i + 1 \in DOMAIN outbox /\ outbox'[i] = outbox[i + 1]
      /\ \A i \in DOMAIN outbox :
           i = 1 \/ (i - 1 \in DOMAIN outbox' /\ outbox'[i - 1] = outbox[i])
      /\ ~received /\ buffer' = p /\ received' = ~Released(p)
      /\ dma = "payload" /\ dma' = "none"
  BY OthersLeave, Payload
<1>2. /\ failed' = failed \cup IF p.op = "sendFailed" THEN {p.id} ELSE {}
      /\ ~(Released(p) /\ Awaited(p) /\ p.op = call.op)
  BY DEF PayloadDone
<1>3. /\ o = o1 + One(p.op \in Replied) /\ d = d1 + One(p.op \in {"data"})
      /\ o1 \in Nat /\ d1 \in Nat
  BY <1>1, CountTail, TailPlaces, CountType
<1>4. /\ p.op \in Replied \cup {"data", "freeBuffer", "known", "unknown"} /\ p # Garbage
      /\ "data" \notin Replied /\ Replied = Replying \cup {"sendFailed"}
      /\ "data" \notin Replying /\ "sendFailed" \notin Replying
  BY <1>1, PacketTypes DEF Replied, Replying, Ops, BootOps
<1>5. p.op \in Replied \cup {"data"} => p.id = call.id
  BY <1>1 DEF Punctual, Own
<1>6. p.op \in Replying => p.op = call.op
  BY <1>1, <1>4, <1>5 DEF BaseInv, PlaceInv, OrderInv
<1>7. n \in Nat /\ u \in {0, 1} /\ f \in {0, 1} /\ f1 \in {0, 1} /\ b1 \in {0, 1} /\ e1 \in {0, 1}
  BY OutstandingTypes, OneType
<1> HIDE DEF p
<1>8. /\ Outstanding = n + o /\ Outstanding' = n + o1 + b1
      /\ Data = d /\ Data' = d1 + e1 /\ One(Unwritten)' = u /\ One(call.id \in failed)' = f1
  <2>1. /\ One(received /\ buffer.op \in Replying) = 0
        /\ One(received /\ buffer.op = "data") = 0
        /\ Unwritten' = Unwritten
    BY <1>1 DEF One, Unwritten
  <2>2. n \in Nat /\ o \in Nat /\ d \in Nat
    BY OutstandingTypes
  <2>3. QED
    BY <1>1, <2>1, <2>2 DEF Outstanding, Data
<1>9. /\ n + o + u + f <= 1 /\ (main \notin {"writing", "written", "event"} => n + o = 0)
      /\ d <= 1 /\ (d = 1 => main \in {"recv", "data"} \/ Announced)
  BY <1>8 DEF Punctual, Counted, Following
\* the answer main waits for stays
<1>10. p.op \in Replying => received'
  <2> SUFFICES ASSUME p.op \in Replying PROVE received'
    OBVIOUS
  <2>1. One(p.op \in Replied) = 1
    BY <1>4 DEF One
  <2>2. n + o # 0
    BY <1>3, <1>7, <2>1
  <2>3. Awaited(p)
    BY <1>4, <1>5, <1>9, <2>2 DEF Awaited
  <2>4. QED
    BY <1>1, <1>2, <1>6, <2>3
<1>11. n + o1 + b1 + u + f1 <= 1 /\ n + o1 + b1 <= n + o
  <2>1. CASE p.op \in Replying
    <3>1. o = o1 + 1 /\ b1 = 1 /\ f1 = f
      BY <1>2, <1>3, <1>4, <1>10, <2>1 DEF One
    <3>2. QED
      BY <1>3, <1>7, <1>9, <3>1
  <2>2. CASE p.op = "sendFailed"
    <3>1. o = o1 + 1 /\ b1 = 0
      BY <1>3, <1>4, <2>2 DEF One
    <3>2. QED
      BY <1>3, <1>7, <1>9, <3>1
  <2>3. CASE p.op \notin Replied
    <3>1. o = o1 /\ b1 = 0 /\ f1 = f
      BY <1>2, <1>3, <1>4, <2>3 DEF One
    <3>2. QED
      BY <1>3, <1>7, <1>9, <3>1
  <2>4. QED
    BY <1>4, <2>1, <2>2, <2>3
<1>12. d1 + e1 <= d
  <2>1. e1 <= One(p.op \in {"data"}) /\ One(p.op \in {"data"}) \in {0, 1}
    BY DEF One
  <2>2. QED
    BY <1>3, <1>7, <2>1
<1>13. Announced => Announced'
  <2>1. ASSUME NEW i \in DOMAIN outbox, outbox[i].op = "recv", outbox[i].more
        PROVE  Announced'
    <3>1. CASE i = 1
      <4>1. p.op = "recv" /\ p.more /\ p.op \in Replying
        BY <1>1, <2>1, <3>1 DEF Replying, Ops
      <4>2. QED
        BY <1>1, <1>10, <4>1 DEF Announced
    <3>2. CASE i # 1
      BY <1>1, <2>1, <3>2 DEF Announced
    <3>3. QED
      BY <3>1, <3>2
  <2>2. QED
    BY <1>1, <2>1 DEF Announced
<1> HIDE DEF o, o1, d, d1, b1, e1, n, u, f, f1
<1>14. Counted'
  <2>1. n + o1 + b1 \in Nat /\ n + o \in Nat /\ d1 + e1 \in Nat
    <3>1. o \in Nat
      BY OutstandingTypes DEF o
    <3>2. QED
      BY <1>3, <1>7, <3>1
  <2>2. n + o = 0 => n + o1 + b1 = 0
    BY <1>11, <2>1
  <2>3. QED
    BY <1>1, <1>8, <1>9, <1>11, <2>2 DEF Counted
<1>15. Own'
  <2>1. \A i \in DOMAIN outbox' :
          outbox'[i].op \in Replied \cup {"data"} => outbox'[i].id = call'.id
    BY <1>1 DEF Punctual, Own
  <2>2. received' /\ buffer'.op \in Replying \cup {"data"} => buffer'.id = call'.id
    BY <1>1, <1>4, <1>5
  <2>3. received' /\ buffer'.op \in Replying => buffer'.op = call'.op
    BY <1>1, <1>6
  <2>4. QED
    BY <1>1, <2>1, <2>2, <2>3 DEF Punctual, Own
<1>16. Following'
  <2>1. d1 + e1 \in Nat /\ d \in Nat
    <3>1. d \in Nat
      BY OutstandingTypes DEF d
    <3>2. QED
      BY <1>3, <1>7, <3>1
  <2>2. d1 + e1 <= 1 /\ (d1 + e1 = 1 => d = 1)
    BY <1>9, <1>12, <2>1
  <2>3. QED
    BY <1>1, <1>4, <1>8, <1>9, <1>13, <2>2 DEF Following
<1>17. QED
  BY <1>14, <1>15, <1>16 DEF Punctual


LEMMA TransferPunctual ==
  ASSUME BaseInv, Punctual, dropped' = {}, SPI_DMA_IntHandler
  PROVE  Punctual'
<1>1. CASE HeaderDone \/ FirstBytesDone
  <2>1. /\ UNCHANGED <<outbox, work, received, buffer, main, call, result, failed>>
        /\ dma' # "write"
    BY <1>1, HeaderEnds, OthersLeave DEF HeaderDone, FirstBytesDone, history
  <2>2. QED
    BY <2>1, PunctualStays DEF Unwritten
<1>2. CASE WriteDone
  <2>1. /\ work' = Append(work, call) /\ work \in Seq(Commands) /\ call \in Commands
        /\ UNCHANGED <<outbox, buffer, received, main, call>>
        /\ main = "writing" /\ Unwritten /\ ~Unwritten'
    BY <1>2, WriteEnds
  <2>2. UNCHANGED <<result, failed>>
    BY <1>2, OthersLeave DEF WriteDone, history
  <2>3. /\ Len(work') = Len(work) + 1
        /\ \A i \in DOMAIN work' : (i \in DOMAIN work /\ work'[i] = work[i]) \/ work'[i] = call
    BY <2>1, AppendPlaces
  <2>4. /\ Outstanding' = Len(work') + Count(outbox, Replied)
                            + One(received /\ buffer.op \in Replying)
        /\ Data' = Data /\ Announced' = Announced
        /\ One(Unwritten) = 1 /\ One(Unwritten)' = 0
        /\ One(call.id \in failed)' = One(call.id \in failed)
    BY <2>1, <2>2 DEF Outstanding, Data, Announced, One
  <2>5. Outstanding' = Outstanding + 1
    BY <2>3, <2>4, OutstandingTypes DEF Outstanding
  <2>6. Counted'
    <3>1. Outstanding + 1 + One(call.id \in failed) <= 1
      BY <2>4 DEF Punctual, Counted
    <3>2. Outstanding' + 0 + One(call.id \in failed) <= 1
      BY <2>5, <3>1, OutstandingTypes
    <3>3. QED
      BY <2>1, <2>4, <3>2 DEF Counted
  <2>7. Own'
    <3>1. \A i \in DOMAIN work' : work'[i].id = call'.id
      <4>1. \A i \in DOMAIN work : work[i].id = call.id
        BY DEF Punctual, Own
      <4>2. UNCHANGED call
        BY <2>1
      <4>3. QED
        BY <2>3, <4>1, <4>2
    <3>2. UNCHANGED <<outbox, buffer, received, call, result>>
      BY <2>1, <2>2
    <3>3. QED
      BY <3>1, <3>2 DEF Punctual, Own
  <2>8. Following'
    BY <2>1, <2>4 DEF Punctual, Following
  <2>9. QED
    BY <2>6, <2>7, <2>8 DEF Punctual
<1>3. QED
  BY <1>1, <1>2, PayloadPunctual DEF SPI_DMA_IntHandler

\* The chip answers a command once, and the data follows its announcement.
LEMMA ChipPunctual ==
  ASSUME BaseInv, Punctual, ChipWorks \/ ChipEvent
  PROVE  Punctual'
<1>1. /\ UNCHANGED <<main, call, result, failed, dma, received, buffer>>
      /\ LowersLine \/ Replies \/ Transmitted \/ Unasked
  BY OthersLeave DEF ChipWorks, ChipEvent, history, bus
<1>2. /\ Unwritten' = Unwritten
      /\ One(received /\ buffer.op \in Replying)' = One(received /\ buffer.op \in Replying)
      /\ One(received /\ buffer.op = "data")' = One(received /\ buffer.op = "data")
      /\ One(call.id \in failed)' = One(call.id \in failed)
  BY <1>1 DEF Unwritten
<1>3. One(Unwritten)' = One(Unwritten)
  BY <1>2 DEF One
<1>4. CASE LowersLine
  <2>1. UNCHANGED <<work, outbox>>
    BY <1>4 DEF LowersLine, chip
  <2>2. QED
    BY <1>1, <1>2, <2>1, PunctualStays
<1>5. CASE \E op : Telling(op)
  <2>1. PICK op : Telling(op)
    BY <1>5
  <2>2. /\ \A i \in DOMAIN outbox' :
              \/ i \in DOMAIN outbox /\ outbox'[i] = outbox[i]
              \/ outbox'[i].op = op /\ op \notin Replied \cup {"data"}
        /\ \A i \in DOMAIN outbox :
              i \in DOMAIN outbox' /\ outbox'[i] = outbox[i]
        /\ op \notin Replied \cup {"data"}
    BY <2>1, TellingPlaces DEF BaseInv, Telling, Replied, Replying, Ops, BootOps
  <2>3. /\ Count(outbox', Replied) = Count(outbox, Replied) /\ UNCHANGED work
        /\ Count(outbox', {"data"}) = Count(outbox, {"data"})
    BY <2>1, <2>2, TellingCounts, OutstandingTypes DEF One
  <2>4. Outstanding' = Outstanding /\ Data' = Data
    BY <1>2, <2>3 DEF Outstanding, Data
  <2>5. Counted'
    BY <1>1, <1>2, <1>3, <2>4 DEF Punctual, Counted
  <2>6. Own'
    BY <1>1, <2>2, <2>3 DEF Punctual, Own
  <2>7. Announced => Announced'
    BY <1>1, <2>2 DEF Announced
  <2>8. Following'
    BY <1>1, <2>4, <2>7 DEF Punctual, Following
  <2>9. QED
    BY <2>5, <2>6, <2>8 DEF Punctual
<1>6. CASE Replies
  <2> DEFINE h == Head(work)
  <2>1. /\ work \in Seq(Commands) /\ work # <<>> /\ work' = Tail(work)
        /\ h \in Commands /\ 1 \in DOMAIN work /\ h = work[1]
        /\ \A i \in DOMAIN work' : i + 1 \in DOMAIN work /\ work'[i] = work[i + 1]
        /\ \E p \in Sent : Answering(h, p)
    BY <1>6, ReplyWorks
  <2>2. Len(work) = Len(work') + 1 /\ Len(work') \in Nat
    BY <2>1, TailPlaces
  <2> HIDE DEF h
  <2>3. h.id = call.id /\ h.op \in Replying
    BY <2>1 DEF Punctual, Own, Commands
  <2>4. PICK p \in Sent : Answering(h, p)
    BY <2>1
  <2>5. p.id = call.id /\ p.op \in Replied
    BY <2>3, <2>4 DEF Answering, Replied
  <2>6. /\ \A i \in DOMAIN outbox : i \in DOMAIN outbox' /\ outbox'[i] = outbox[i]
        /\ \A i \in DOMAIN outbox' :
              \/ i \in DOMAIN outbox /\ outbox'[i] = outbox[i]
              \/ outbox'[i] = p
              \/ outbox'[i] = Packet("data", h.id, FALSE) /\ p.op = "recv" /\ p.more
        /\ \E i \in DOMAIN outbox' : outbox'[i] = p
    BY <2>1, <2>4, AnsweringPlaces DEF BaseInv
  <2>7. /\ Count(outbox', Replied) = Count(outbox, Replied) + 1
        /\ \/ Count(outbox', {"data"}) = Count(outbox, {"data"})
           \/ /\ Count(outbox', {"data"}) = Count(outbox, {"data"}) + 1
              /\ p.op = "recv" /\ p.more
    <3>1. "data" \notin Replied /\ p.op \notin {"data"}
      BY <2>5 DEF Replied, Replying, Ops, BootOps
    <3>2. Count(outbox', Replied) = Count(outbox, Replied) + 1
      BY <2>1, <2>4, <2>5, <3>1, AnsweringCounts DEF One
    <3>3. \/ Count(outbox', {"data"}) = Count(outbox, {"data"})
          \/ /\ Count(outbox', {"data"}) = Count(outbox, {"data"}) + 1
             /\ p.op = "recv" /\ p.more
      BY <2>1, <2>4, <3>1, AnsweringCounts DEF One
    <3>4. QED
      BY <3>2, <3>3
  <2>8. Outstanding' = Outstanding
    <3>1. /\ Outstanding = Len(work) + Count(outbox, Replied)
                             + One(received /\ buffer.op \in Replying)
          /\ Outstanding' = Len(work') + Count(outbox', Replied)
                             + One(received /\ buffer.op \in Replying)
      BY <1>1 DEF Outstanding
    <3>2. QED
      BY <2>2, <2>7, <3>1, OutstandingTypes
  <2>9. Counted'
    BY <1>1, <1>2, <1>3, <2>8 DEF Punctual, Counted
  <2>10. Own'
    <3>1. \A i \in DOMAIN outbox' :
            outbox'[i].op \in Replied \cup {"data"} => outbox'[i].id = call'.id
      <4>1. Packet("data", h.id, FALSE).id = call.id
        BY <2>3 DEF Packet
      <4>2. QED
        BY <1>1, <2>5, <2>6, <4>1 DEF Punctual, Own
    <3>2. QED
      BY <1>1, <2>1, <3>1 DEF Punctual, Own
  <2>11. Following'
    <3>1. Data = 0
      <4>1. Len(work) >= 1
        BY <2>2
      <4>2. Outstanding <= 1 /\ Outstanding >= 1
            /\ Count(outbox, Replied) + One(received /\ buffer.op \in Replying) = 0
        BY <4>1, OutstandingTypes DEF Punctual, Counted, Outstanding
      <4>3. ~Announced
        BY <4>2, AnnouncedCounts
      <4>4. main \notin {"recv", "data"}
        BY <4>2 DEF Punctual, Counted
      <4>5. QED
        BY <4>3, <4>4, OutstandingTypes DEF Punctual, Following
    <3>2. /\ Data = Count(outbox, {"data"}) + One(received /\ buffer.op = "data")
          /\ Data' = Count(outbox', {"data"}) + One(received /\ buffer.op = "data")
      BY <1>1 DEF Data
    <3>3. Data' = 0 \/ (Data' = 1 /\ p.op = "recv" /\ p.more)
      BY <2>7, <3>1, <3>2, OutstandingTypes
    <3>4. p.op = "recv" /\ p.more => Announced'
      BY <2>6 DEF Announced
    <3>5. QED
      BY <1>1, <3>3, <3>4 DEF Punctual, Following
  <2>12. QED
    BY <2>9, <2>10, <2>11 DEF Punctual
<1>7. QED
  BY <1>1, <1>4, <1>5, <1>6, ChipTells

LEMMA StepPunctual ==
  ASSUME BaseInv, KeptInv, PunctualInv, KeptInv', [Next]_vars
  PROVE  PunctualInv'
<1> SUFFICES ASSUME faults'.late = 0 PROVE Punctual'
  BY DEF PunctualInv
<1>1. /\ Punctual /\ dropped = {} /\ dropped' = {}
      /\ Timeout \/ DataTimeout => call.id \in failed
  BY NoneLate DEF PunctualInv, KeptInv
<1>2. CASE UNCHANGED vars
  <2>1. UNCHANGED <<work, outbox, failed, call, received, buffer, result, main, dma>>
    BY <1>2 DEF vars, thread, chip, history, bus
  <2>2. Unwritten' => Unwritten
    BY <2>1 DEF Unwritten
  <2>3. QED
    BY <1>1, <2>1, <2>2, PunctualStays
<1>3. ASSUME NEW op \in Ops \cup {"bufferSize"}, MainStep(op) PROVE Punctual'
  BY <1>1, <1>3, WritePunctual, WaitPunctual, FlowPunctual, CommandPunctual, FlashPunctual
     DEF MainStep
<1>4. QED
  BY <1>1, <1>2, <1>3, EdgePunctual, TransferPunctual, ChipPunctual, StepsAre

LEMMA InitPunctual == Init => PunctualInv
<1> SUFFICES ASSUME Init PROVE Punctual
  BY DEF PunctualInv
<1>1. work = <<>> /\ outbox = <<>> /\ ~received /\ failed = {} /\ result = Nothing
      /\ main = "open"
  BY DEF Init
<1>2. \A ops : Count(outbox, ops) = 0
  BY <1>1, CountEmpty
<1>3. Outstanding = 0 /\ Data = 0
  BY <1>1, <1>2 DEF Outstanding, Data, One
<1>4. Counted
  BY <1>1, <1>3 DEF Counted, One
<1>5. Own
  BY <1>1 DEF Own
<1>6. Following
  BY <1>1, <1>3 DEF Following
<1>7. QED
  BY <1>4, <1>5, <1>6 DEF Punctual

PromptInv == BaseInv /\ KeptInv /\ PunctualInv

LEMMA InitPrompt == Init => PromptInv
  BY InitBase, InitKept, InitPunctual DEF PromptInv

LEMMA StepPrompt == ~Preempted /\ PromptInv /\ [Next]_vars => PromptInv'
  BY StepBase, StepKept, StepPunctual DEF PromptInv

\* What a call returns is the answer to this call and not to an earlier one, as long as
\* the chip answers before the timeout and no interrupt holds main between a write and
\* the wait for its answer.
THEOREM AnswersAlwaysMatch ==
  ASSUME ~Preempted
  PROVE  Spec => []AnswersMatch
<1>1. PromptInv => AnswersMatch
  BY DEF PromptInv, PunctualInv, Punctual, Own, AnswersMatch
<1>2. PromptInv /\ [Next]_vars => PromptInv'
  BY StepPrompt
<1>3. QED
  BY InitPrompt, <1>1, <1>2, PTL DEF Spec


-----------------------------------------------------------------------------
(* A packet is not overwritten before main has seen it *)

\* A packet is kept only when somebody waits for it.
LEMMA PayloadUnread ==
  ASSUME BaseInv, Punctual, Unread, SPI_DMA_IntHandler, PayloadDone
  PROVE  Unread'
<1> DEFINE p == Head(outbox)
<1>1. /\ UNCHANGED <<main, solicited>> /\ p \in Sent /\ 1 \in DOMAIN outbox /\ p = outbox[1]
      /\ ~received /\ buffer' = p /\ received' = ~Released(p) /\ spi = "READ_PROCEED"
      /\ outbox \in Seq(Sent)
  BY OthersLeave, Payload
<1> HIDE DEF p
<1>2. p # Garbage
  BY <1>1, PacketTypes
<1>3. main \notin {"first rest", "proceed"}
  BY <1>1 DEF BaseInv, BusInv, WriteInv
<1>4. CASE p.op = "data"
  <2>1. main \in {"recv", "data"} \/ Announced
    <3>1. Data # 0
      BY <1>1, <1>4, NoData
    <3>2. QED
      BY <3>1, OutstandingTypes DEF Punctual, Following
  <2>2. CASE Announced
    <3>1. Outstanding # 0
      BY <2>2, AnnouncedCounts, NothingOutstanding
    <3>2. main \in {"writing", "written", "event"}
      BY <3>1 DEF Punctual, Counted
    <3>3. QED
      BY <1>1, <1>2, <3>2 DEF Unread
  <2>3. QED
    BY <1>1, <1>2, <2>1, <2>2 DEF Unread
<1>5. CASE p.op # "data"
  <2>1. received' => solicited
    BY <1>1, <1>5, PacketTypes DEF Released, IsEvent, Replied, Replying, Ops, BootOps
  <2>2. QED
    BY <1>1, <1>2, <1>3, <2>1 DEF Unread
<1>6. QED
  BY <1>4, <1>5

\* main starts no write and goes nowhere else before it has taken the answer.
LEMMA MainUnread ==
  ASSUME BaseInv, Unread, NEW op \in Ops \cup {"bufferSize"}, MainStep(op),
         ~Timeout, ~DataTimeout
  PROVE  Unread'
<1>1. CASE SpiWrite
  <2>1. UNCHANGED received
    BY <1>1 DEF SpiWrite
  <2>2. \/ main = "open" /\ main' = "first" /\ UNCHANGED <<solicited, buffer>>
        \/ main \in {"first", "reserve"} /\ main' \in {"first rest", "proceed"}
        \/ main \in {"first rest", "proceed"} /\ main' = "writing"
        \/ main = "writing" /\ main' = "written" /\ UNCHANGED buffer
    BY <1>1 DEF SpiWrite, SpiOpen, FirstWrite, FirstRest, Reserve, Proceed, Written, Goto
  <2>3. CASE main = "writing" /\ main' = "written" /\ UNCHANGED buffer
    BY <2>1, <2>3 DEF Unread
  <2>4. CASE main \in {"open", "first", "reserve", "first rest", "proceed"}
    <3>1. ~received /\ ~received'
      BY <2>1, <2>4 DEF Unread
    <3>2. main = "open" => ~solicited
      BY DEF Unread
    <3>3. main' \in {"first rest", "proceed", "writing"} \/ ~solicited'
      BY <2>2, <2>4, <3>2
    <3>4. QED
      BY <3>1, <3>3 DEF Unread
  <2>5. QED
    BY <2>2, <2>3, <2>4
<1>2. CASE (SimpleLinkWaitEvent \/ SimpleLinkWaitData) /\ UNCHANGED buffer
  <2>1. /\ UNCHANGED <<received, solicited, buffer>>
        /\ \/ main = "written" /\ main' = "event"
           \/ main = "recv" /\ main' = "data"
    BY <1>2 DEF SimpleLinkWaitEvent, SimpleLinkWaitData, Goto
  <2>2. QED
    BY <2>1 DEF Unread
<1>3. CASE TakePacket
  <2>1. ~received' /\ main \in {"event", "data"}
    BY <1>3 DEF TakePacket, GiveBuffer
  <2>2. ASSUME main' # "event" PROVE ~solicited'
    <3>1. CASE main = "data"
      <4>1. ~solicited
        BY <3>1 DEF Unread
      <4>2. QED
        BY <1>3, <4>1 DEF TakePacket, TakeEvent, TakeData
    <3>2. CASE main = "event"
      <4>1. opcode' = "none" /\ opcode = call.op /\ opcode # "none"
        BY <1>3, <2>2, <3>2 DEF TakePacket, AfterPacket, BaseInv, PlaceInv, WaitInv, Types,
                                ThreadTypes, Commands, Replying, Ops, BootOps
      <4>2. QED
        BY <1>3, <4>1 DEF TakePacket, TakeEvent, TakeData
    <3>3. QED
      BY <2>1, <3>1, <3>2
  <2>3. QED
    BY <2>1, <2>2 DEF Unread
<1>4. CASE HostFlowControlConsumeBuff
  <2>1. UNCHANGED <<received, solicited>> /\ main \in {"consume", "swap"}
    BY <1>4 DEF HostFlowControlConsumeBuff, TransmitFailed, SocketInactive, NoBuffer,
                ReadCredit, CompareAndSwap
  <2>2. QED
    BY <2>1 DEF Unread
<1>5. CASE NewCommand(op)
  <2>1. UNCHANGED <<received, solicited>> /\ main \in {"started", "free"}
    BY <1>5, CommandBegins DEF NewCommand
  <2>2. QED
    BY <2>1 DEF Unread
<1>6. CASE sFLASH_CS_LOW \/ sFLASH_CS_HIGH \/ handle_spi_request
  <2>1. UNCHANGED <<received, solicited>> /\ main \in {"free", "flash", "released"}
    BY <1>6 DEF sFLASH_CS_LOW, sFLASH_CS_HIGH, handle_spi_request
  <2>2. QED
    BY <2>1 DEF Unread
<1>7. QED
  BY <1>1, <1>2, <1>3, <1>4, <1>5, <1>6 DEF MainStep, hci_event_handler

LEMMA StepUnread ==
  ASSUME PromptInv, UnreadInv, [Next]_vars
  PROVE  UnreadInv'
<1> SUFFICES ASSUME faults'.late = 0, failed' = {} PROVE Unread'
  BY DEF UnreadInv
<1>1. BaseInv /\ KeptInv /\ PunctualInv
  BY DEF PromptInv
<1>2. faults.late = 0 /\ (Timeout \/ DataTimeout => call.id \in failed)
  BY <1>1, NoneLate DEF KeptInv
<1>3. failed = {}
  <2>1. CASE \E op \in Ops \cup {"bufferSize"} : MainStep(op)
    BY <2>1, MainLeaves
  <2>2. CASE SPI_EXTI_IntHandler \/ ChipWorks \/ ChipEvent \/ UNCHANGED vars
    BY <2>2 DEF SPI_EXTI_IntHandler, ChipWorks, ChipEvent, vars, history
  <2>3. CASE SPI_DMA_IntHandler
    BY <2>3 DEF SPI_DMA_IntHandler, HeaderDone, PayloadDone, FirstBytesDone, WriteDone, history
  <2>4. QED
    BY <2>1, <2>2, <2>3, StepsAre
<1>4. Unread /\ Punctual /\ ~Timeout /\ ~DataTimeout
  BY <1>1, <1>2, <1>3 DEF UnreadInv, PunctualInv
<1>5. CASE UNCHANGED vars
  BY <1>4, <1>5 DEF Unread, vars, thread
<1>6. CASE SPI_EXTI_IntHandler
  <2>1. UNCHANGED <<received, main, solicited>> /\ (UNCHANGED buffer \/ irq)
    BY <1>6, OthersLeave DEF SPI_EXTI_IntHandler, Initialized, ReadRequested, ReadPostponed,
                             WriteAllowed, Ignored, Interrupt
  <2>2. received => UNCHANGED buffer
    BY <1>1, <2>1 DEF BaseInv, PlaceInv, ReadInv
  <2>3. QED
    BY <1>4, <2>1, <2>2 DEF Unread
<1>7. CASE SPI_DMA_IntHandler /\ ~PayloadDone
  <2>1. UNCHANGED <<received, main, solicited, buffer>>
    BY <1>7, OthersLeave DEF SPI_DMA_IntHandler, HeaderDone, FirstBytesDone, WriteDone
  <2>2. QED
    BY <1>4, <2>1 DEF Unread
<1>8. CASE ChipWorks \/ ChipEvent
  <2>1. UNCHANGED <<received, main, solicited, buffer>>
    BY <1>8, OthersLeave DEF ChipWorks, ChipEvent
  <2>2. QED
    BY <1>4, <2>1 DEF Unread
<1>9. QED
  BY <1>1, <1>4, <1>5, <1>6, <1>7, <1>8, PayloadUnread, MainUnread, StepsAre

\* A packet that main has still to look at is overwritten neither by the next read nor by
\* what the chip shifts out while main writes, as long as no wait has timed out and no
\* interrupt holds main between a write and the wait for its answer.
THEOREM UnreadIsKept ==
  ASSUME ~Preempted
  PROVE  Spec => []UnreadKept
<1>1. Init => UnreadInv
  BY DEF Init, UnreadInv, Unread
<1>2. UnreadInv => UnreadKept
  BY DEF UnreadInv, Unread, UnreadKept
<1>3. PromptInv /\ UnreadInv /\ [Next]_vars => (PromptInv /\ UnreadInv)'
  BY StepPrompt, StepUnread
<1>4. QED
  BY InitPrompt, <1>1, <1>2, <1>3, PTL DEF Spec

=============================================================================
