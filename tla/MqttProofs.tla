----------------------------- MODULE MqttProofs -----------------------------
(***************************************************************************)
(* Theorems about MqttDevice, for any budgets of faults.                   *)
(***************************************************************************)
EXTENDS MqttDevice, SequenceTheorems, TLAPS

-----------------------------------------------------------------------------
(* Types *)

ToBroker == {"CONNECT", "command", "all", "SYN", "ACK", "ping"}
ToDevice == {"connack", "pingresp", "connect", "disconnect", "synack"}
ToServer == {"SYN", "ACK", "will"}

Packets ==
  /\ toBroker \in Seq(ToBroker) /\ toDevice \in Seq(ToDevice)
  /\ toServer \in Seq(ToServer)

Control ==
  /\ caller \in {"loop", "tail"}
  /\ pc \in {"call", "loop", "read", "rest", "timer", "connack", "tail"}
  /\ conn \in {"none", "up", "silent", "closed"}
  /\ pingOutstanding \in BOOLEAN /\ timerEnabled \in BOOLEAN /\ due \in BOOLEAN
  /\ brokerConnected \in BOOLEAN /\ isConnected \in BOOLEAN
  /\ passed \in BOOLEAN /\ session \in BOOLEAN
  /\ brokerConnected => ~timerEnabled

Ages ==
  /\ inAge \in {0, 1} /\ outAge \in {0, 1}
  /\ silence \in 0 .. MaxSilence

Outside ==
  /\ subs \subseteq {"command", "all"}
  /\ server \in {"down", "subscribed", "up"} /\ known \in {"no", "syn", "yes"}
  /\ faults \in [Faults -> Nat]

Types == Packets /\ Control /\ Ages /\ Outside

\* TCPClient's _buffer holds what came first.
FetchedInv == fetched \in 0 .. Len(toDevice)

LEMMA TypeParts == TypeOK <=> Types /\ FetchedInv
  BY DEF TypeOK, FetchedInv, Types, Packets, Control, Ages, Outside, ToBroker, ToDevice, ToServer

\* A fault takes from its own budget.
LEMMA FaultType ==
  ASSUME faults \in [Faults -> Nat], NEW k \in Faults, Fault(k)
  PROVE  /\ faults' \in [Faults -> Nat] /\ faults'[k] = faults[k] - 1
         /\ \A j \in Faults : j # k => faults'[j] = faults[j]
  BY DEF Fault

\* What PubSubClient writes is a packet.
LEMMA WriteType ==
  ASSUME toBroker \in Seq(ToBroker), NEW kinds \in Seq(ToBroker), Write(kinds)
  PROVE  toBroker' \in Seq(ToBroker) /\ outAge' = 0
  BY ConcatProperties DEF Write

LEMMA Writes ==
  /\ \A kind \in ToBroker : <<kind>> \in Seq(ToBroker)
  /\ Subscriptions \in Seq(ToBroker)
  BY DEF ToBroker, Subscriptions

LEMMA TailType ==
  ASSUME NEW S, NEW s \in Seq(S), s # <<>>
  PROVE  Tail(s) \in Seq(S) /\ Head(s) \in S /\ Head(s) = s[1] /\ Len(s) \in Nat \ {0}
<1>1. Tail(s) \in Seq(S) /\ Head(s) \in S
  BY HeadTailProperties
<1>2. QED
  BY <1>1, EmptySeq

\* What stop() leaves to be read is what _buffer holds.
LEMMA StopKeeps ==
  ASSUME Types, FetchedInv, Stop
  PROVE  /\ conn' = "none" /\ toBroker' = <<>> /\ toDevice' \in Seq(ToDevice)
         /\ fetched' = Len(toDevice') /\ (toDevice = <<>> => toDevice' = <<>>)
         /\ silence' = (IF toDevice' = <<>> THEN 0 ELSE silence)
         /\ fetched = 0 /\ conn # "closed" => toDevice' = <<>>
         /\ toDevice' = <<>> => toDevice = <<>> \/ (fetched = 0 /\ conn # "closed")
<1> DEFINE n == IF conn = "closed" /\ fetched = 0 THEN Len(toDevice) ELSE fetched
<1>1. toDevice \in Seq(ToDevice) /\ n \in 0 .. Len(toDevice)
  BY LenProperties DEF Types, Packets, FetchedInv
<1>2. /\ conn' = "none" /\ toBroker' = <<>> /\ toDevice' = SubSeq(toDevice, 1, n)
      /\ fetched' = n /\ silence' = IF n = 0 THEN 0 ELSE silence
  BY DEF Stop
<1>3. \A i \in 1 .. n : toDevice[i] \in ToDevice
  BY <1>1, ElementOfSeq
<1>4. toDevice' \in Seq(ToDevice) /\ Len(toDevice') = n
  <2> HIDE DEF n
  <2>1. n \in Int /\ n >= 0
    BY <1>1
  <2>2. /\ SubSeq(toDevice, 1, n) \in Seq(ToDevice)
        /\ Len(SubSeq(toDevice, 1, n)) = IF 1 <= n THEN n - 1 + 1 ELSE 0
    BY <1>3, <2>1, SubSeqProperties
  <2>3. QED
    BY <1>2, <2>1, <2>2
<1>5. (toDevice' = <<>> <=> n = 0) /\ (toDevice = <<>> <=> Len(toDevice) = 0)
  BY <1>1, <1>4, EmptySeq
<1>6. QED
  BY <1>1, <1>2, <1>4, <1>5 DEF FetchedInv

LEMMA InitTypes == Init => Types /\ FetchedInv
<1> SUFFICES ASSUME Init PROVE Types /\ FetchedInv
  OBVIOUS
<1>1. Packets
  BY EmptySeq DEF Init, Packets
<1>2. Control
  BY Zenon DEF Init, Control
<1>3. Ages
  BY DEF Init, Ages, MaxSilence
<1>4. Outside
  BY BoundAssumption DEF Init, Outside
<1>5. FetchedInv
  BY EmptySeq DEF Init, FetchedInv
<1>6. QED
  BY <1>1, <1>2, <1>3, <1>4, <1>5 DEF Types

\* PubSubClient::loop.
LEMMA ClientTypes == Types /\ FetchedInv /\ ClientLoop => Types'
<1> SUFFICES ASSUME Types, FetchedInv, ClientLoop PROVE Types'
  OBVIOUS
<1> USE DEF Types, ages, client, timer, flags, broker, world, bounds
<1>1. CASE NotConnected \/ StillAlive \/ NothingToRead
  <2>1. CASE NotConnected
    BY <2>1 DEF NotConnected, Packets, Control, Ages, Outside
  <2>2. CASE StillAlive
    BY <2>2 DEF StillAlive, Packets, Control, Ages, Outside
  <2>3. CASE NothingToRead
    BY <2>3 DEF NothingToRead, Packets, Control, Ages, Outside
  <2>4. QED
    BY <1>1, <2>1, <2>2, <2>3
<1>2. CASE KeepAliveFails
  <2>1. /\ conn' = "none" /\ silence' \in {0, silence} /\ toBroker' = <<>>
        /\ toDevice' \in Seq(ToDevice)
    BY <1>2, StopKeeps DEF KeepAliveFails
  <2>2. Packets'
    BY <1>2, <2>1, EmptySeq DEF KeepAliveFails, Packets
  <2>3. QED
    BY <1>2, <2>1, <2>2 DEF KeepAliveFails, Control, Ages, Outside, MaxSilence
<1>3. CASE Ping
  <2>1. toBroker' \in Seq(ToBroker) /\ outAge' = 0
    BY <1>3, Writes, WriteType DEF Ping, Packets, ToBroker
  <2>2. Packets' /\ Outside' /\ Ages'
    BY <1>3, <2>1 DEF Ping, Packets, Outside, Ages
  <2>3. Control'
    BY <1>3, Zenon DEF Ping, Control
  <2>4. QED
    BY <2>2, <2>3
<1>4. CASE ReadHalf
  BY <1>4, FaultType DEF ReadHalf, Faults, Packets, Control, Ages, Outside
<1>5. CASE ReadPacket
  <2>1. Tail(toDevice) \in Seq(ToDevice) /\ Head(toDevice) \in ToDevice
    BY <1>5, TailType DEF ReadPacket, Packets
  <2>2. toBroker' \in Seq(ToBroker) /\ (outAge' = 0 \/ outAge' = outAge)
    BY <1>5, Writes, WriteType
    DEF ReadPacket, DefaultMessageHandler, Packets, ToBroker
  <2>3. Packets' /\ Outside' /\ Ages'
    BY <1>5, <2>1, <2>2 DEF ReadPacket, Packets, Outside, Ages
  <2>4. conn' \in {"none", "up", "silent", "closed"}
    BY <1>5 DEF ReadPacket, Checked, Control
  <2>5. isConnected' \in BOOLEAN /\ pingOutstanding' \in BOOLEAN
    BY <1>5, Zenon DEF ReadPacket, DefaultMessageHandler
  <2>6. Control'
    BY <1>5, <2>4, <2>5 DEF ReadPacket, Control
  <2>7. QED
    BY <2>3, <2>6
<1>6. QED
  BY <1>1, <1>2, <1>3, <1>4, <1>5 DEF ClientLoop

\* mqttConnect and the rest of mqttLoop.
LEMMA ConnectTypes == Types /\ FetchedInv /\ (MqttLoop \/ Button) => Types'
<1> SUFFICES ASSUME Types, FetchedInv, MqttLoop \/ Button PROVE Types'
  OBVIOUS
<1> USE DEF Types, ages, client, timer, flags, broker, world, bounds
<1>1. CASE TimerRests
  BY <1>1 DEF TimerRests, Packets, Control, Ages, Outside
<1>2. CASE Button
  BY <1>2, FaultType DEF Button, Faults, Packets, Control, Ages, Outside
<1>3. ASSUME TimerFires \/ Called
      PROVE  /\ due' \in BOOLEAN /\ caller' \in {"loop", "tail"}
             /\ UNCHANGED timerEnabled
  <2>1. due' \in BOOLEAN
    BY <1>3, Zenon DEF TimerFires, Called, Control
  <2>2. QED
    BY <1>3, <2>1 DEF TimerFires, Called
<1>4. CASE AlreadyConnected
  BY <1>3, <1>4 DEF AlreadyConnected, Packets, Control, Ages, Outside
<1>5. CASE Connect
  <2>1. Packets'
    BY <1>5, Writes, EmptySeq DEF Connect, Packets, ToBroker
  <2>2. QED
    BY <1>3, <1>5, <2>1 DEF Connect, Control, Ages, Outside
<1>6. CASE ConnectRefused
  BY <1>3, <1>6, FaultType DEF ConnectRefused, Faults, Packets, Control, Ages, Outside
<1>7. CASE Connack
  <2>1. Packets' /\ outAge' = 0
    BY <1>7, TailType, Writes, WriteType DEF Connack, Packets
  <2>2. Control'
    <3>1. pingOutstanding' \in BOOLEAN
      BY <1>7, Zenon DEF Connack
    <3>2. QED
      BY <1>7, <3>1 DEF Connack, Control
  <2>3. QED
    BY <1>7, <2>1, <2>2 DEF Connack, Ages, Outside
<1>8. CASE ConnackTimeout
  <2>1. /\ conn' = "none" /\ silence' \in {0, silence} /\ toBroker' = <<>>
        /\ toDevice' \in Seq(ToDevice)
    BY <1>8, StopKeeps DEF ConnackTimeout
  <2>2. Packets'
    BY <1>8, <2>1, EmptySeq DEF ConnackTimeout, Packets
  <2>3. QED
    BY <1>8, <2>1, <2>2 DEF ConnackTimeout, Control, Ages, Outside, MaxSilence
<1>9. CASE TailConnected
  <2>1. Packets' /\ (outAge' = 0 \/ outAge' = outAge)
    BY <1>9, Writes, WriteType DEF TailConnected, Packets, ToBroker
  <2>2. Control'
    <3>1. /\ timerEnabled' \in BOOLEAN /\ brokerConnected' \in BOOLEAN
          /\ passed' \in BOOLEAN /\ ~timerEnabled'
      BY <1>9, Zenon DEF TailConnected
    <3>2. QED
      BY <1>9, <3>1 DEF TailConnected, Control
  <2>3. QED
    BY <1>9, <2>1, <2>2 DEF TailConnected, Ages, Outside
<1>10. CASE TailDisconnected
  <2>1. /\ timerEnabled' \in BOOLEAN /\ brokerConnected' \in BOOLEAN
        /\ passed' \in BOOLEAN /\ ~brokerConnected'
    BY <1>10, Zenon DEF TailDisconnected
  <2>2. QED
    BY <1>10, <2>1 DEF TailDisconnected, Packets, Control, Ages, Outside
<1>11. QED
  BY <1>1, <1>2, <1>4, <1>5, <1>6, <1>7, <1>8, <1>9, <1>10, ClientTypes
  DEF MqttLoop

LEMMA BrokerTypes ==
  Types /\ (BrokerReads \/ BrokerDrops \/ BrokerRestarts \/ LinkFails) => Types'
<1> SUFFICES ASSUME Types, BrokerReads \/ BrokerDrops \/ BrokerRestarts \/ LinkFails
             PROVE  Types'
  OBVIOUS
<1> USE DEF Types, ages, client, timer, flags, broker, world, bounds
<1>1. ASSUME NEW kind \in ToServer, Forward(kind) PROVE toServer' \in Seq(ToServer)
  BY <1>1, AppendProperties DEF Forward, Packets
<1>2. CASE BrokerReads
  <2>1. Tail(toBroker) \in Seq(ToBroker) /\ Head(toBroker) \in ToBroker
    BY <1>2, TailType DEF BrokerReads, Packets
  <2>2. /\ Append(toDevice, "connack") \in Seq(ToDevice)
        /\ Append(toDevice, "pingresp") \in Seq(ToDevice)
    BY AppendProperties DEF Packets, ToDevice
  <2>3. toDevice' \in Seq(ToDevice)
    BY <1>2, <2>2 DEF BrokerReads, Packets
  <2>4. toServer' \in Seq(ToServer)
    BY <1>1, <1>2 DEF BrokerReads, ToServer, Packets
  <2>5. subs' \subseteq {"command", "all"}
    BY <1>2 DEF BrokerReads, Outside
  <2>6. session' \in BOOLEAN
    BY <1>2, Zenon DEF BrokerReads
  <2>7. QED
    BY <1>2, <2>1, <2>3, <2>4, <2>5, <2>6 DEF BrokerReads, Packets, Control, Ages, Outside
<1>3. CASE BrokerDrops
  <2>1. session' \in BOOLEAN
    BY <1>3, Zenon DEF BrokerDrops
  <2>2. QED
    BY <1>1, <1>3, <2>1 DEF BrokerDrops, Packets, Control, Ages, Outside, ToServer
<1>4. CASE BrokerRestarts
  <2>1. session' \in BOOLEAN
    BY <1>4, Zenon DEF BrokerRestarts
  <2>2. Packets'
    BY <1>4, EmptySeq DEF BrokerRestarts, Packets
  <2>3. QED
    BY <1>4, <2>1, <2>2, FaultType DEF BrokerRestarts, Faults, Control, Ages, Outside
<1>5. CASE LinkFails
  <2>1. Packets'
    BY <1>5, EmptySeq DEF LinkFails, Packets
  <2>2. QED
    BY <1>5, <2>1, FaultType DEF LinkFails, Faults, Control, Ages, Outside
<1>6. QED
  BY <1>2, <1>3, <1>4, <1>5

LEMMA ServerTypes == Types /\ (Server \/ ServerStops \/ Tick) => Types'
<1> SUFFICES ASSUME Types, Server \/ ServerStops \/ Tick PROVE Types'
  OBVIOUS
<1> USE DEF Types, ages, client, timer, flags, broker, world, bounds
<1>1. ASSUME NEW topic, NEW kind \in ToDevice, Deliver(topic, kind)
      PROVE  toDevice' \in Seq(ToDevice)
  BY <1>1, AppendProperties DEF Deliver, Packets
<1>2. CASE ServerStarts
  BY <1>2 DEF ServerStarts, Packets, Control, Ages, Outside
<1>3. CASE ServerBroadcasts
  BY <1>1, <1>3 DEF ServerBroadcasts, ToDevice, Packets, Control, Ages, Outside
<1>4. CASE ServerReads
  <2>1. Tail(toServer) \in Seq(ToServer) /\ Head(toServer) \in ToServer
    BY <1>4, TailType DEF ServerReads, Packets
  <2>2. toDevice' \in Seq(ToDevice) /\ known' \in {"no", "syn", "yes"}
    BY <1>1, <1>4, <2>1 DEF ServerReads, ToServer, ToDevice, Packets, Outside
  <2>3. QED
    BY <1>4, <2>1, <2>2 DEF ServerReads, Packets, Control, Ages, Outside
<1>5. CASE ServerStops
  <2>1. toDevice' \in Seq(ToDevice)
    BY <1>1, <1>5 DEF ServerStops, ToDevice, Packets
  <2>2. Packets'
    BY <1>5, <2>1, EmptySeq DEF ServerStops, Packets
  <2>3. QED
    BY <1>5, <2>2, FaultType DEF ServerStops, Faults, Control, Ages, Outside
<1>6. CASE Tick
  <2>1. faults' \in [Faults -> Nat]
    BY <1>6, FaultType DEF Tick, Faults, Outside
  <2>2. Ages'
    BY <1>6 DEF Tick, Ages, MaxSilence
  <2>3. due' \in BOOLEAN /\ passed' \in BOOLEAN
    BY <1>6, Zenon DEF Tick
  <2>4. QED
    BY <1>6, <2>1, <2>2, <2>3 DEF Tick, Packets, Control, Outside
<1>7. QED
  BY <1>2, <1>3, <1>4, <1>5, <1>6 DEF Server

LEMMA NextTypes == Types /\ FetchedInv /\ [Next]_vars => Types'
<1>1. Types /\ UNCHANGED vars => Types'
  BY DEF vars, ages, client, timer, flags, broker, world, bounds, Types, Packets, Control,
         Ages, Outside
<1>2. QED
  BY <1>1, ConnectTypes, BrokerTypes, ServerTypes DEF Next

LEMMA NextFetched == Types /\ FetchedInv /\ [Next]_vars => FetchedInv'
<1> SUFFICES ASSUME Types, FetchedInv, [Next]_vars PROVE FetchedInv'
  OBVIOUS
<1> USE DEF client
<1>0. toDevice \in Seq(ToDevice) /\ Len(toDevice) \in Nat
  BY LenProperties DEF Types, Packets
<1>1. CASE UNCHANGED <<fetched, toDevice>>
  BY <1>1 DEF FetchedInv
<1>2. CASE fetched' = 0 /\ toDevice' = <<>>
  BY <1>2, EmptySeq DEF FetchedInv
<1>3. ASSUME NEW kind \in ToDevice, toDevice' = Append(toDevice, kind), UNCHANGED fetched
      PROVE  FetchedInv'
  BY <1>0, <1>3, AppendProperties DEF FetchedInv
<1>4. ASSUME toDevice # <<>>, toDevice' = Tail(toDevice), Fetch(Tail(toDevice))
      PROVE  FetchedInv'
  <2>1. Len(toDevice') = Len(toDevice) - 1
    BY <1>0, <1>4, HeadTailProperties
  <2>2. QED
    BY <1>0, <1>4, <2>1 DEF Fetch, FetchedInv
<1>5. ASSUME Stop PROVE FetchedInv'
  BY <1>5, StopKeeps, LenProperties DEF FetchedInv
<1>6. ASSUME NEW topic, NEW kind \in ToDevice, Deliver(topic, kind), UNCHANGED fetched
      PROVE  FetchedInv'
  BY <1>1, <1>3, <1>6 DEF Deliver
<1>7. CASE ClientLoop
  <2>1. CASE KeepAliveFails
    BY <1>5, <2>1 DEF KeepAliveFails
  <2>2. CASE ReadPacket
    BY <1>4, <2>2 DEF ReadPacket
  <2>3. CASE NotConnected \/ Ping \/ StillAlive \/ NothingToRead \/ ReadHalf
    BY <1>1, <2>3 DEF NotConnected, Ping, StillAlive, NothingToRead, ReadHalf
  <2>4. QED
    BY <1>7, <2>1, <2>2, <2>3 DEF ClientLoop
<1>8. CASE TimerRests \/ AlreadyConnected \/ ConnectRefused \/ TailConnected
           \/ TailDisconnected \/ Button
  BY <1>1, <1>8
  DEF TimerRests, AlreadyConnected, ConnectRefused, TailConnected, TailDisconnected, Button
<1>9. CASE Connect
  BY <1>2, <1>9 DEF Connect
<1>10. CASE Connack
  BY <1>4, <1>10 DEF Connack
<1>11. CASE ConnackTimeout
  BY <1>5, <1>11 DEF ConnackTimeout
<1>12. CASE BrokerReads
  <2>1. UNCHANGED fetched
    BY <1>12 DEF BrokerReads
  <2>2. \/ UNCHANGED toDevice
        \/ \E kind \in ToDevice : toDevice' = Append(toDevice, kind)
    BY <1>12 DEF BrokerReads, ToDevice
  <2>3. QED
    BY <1>1, <1>3, <2>1, <2>2
<1>13. CASE BrokerDrops \/ BrokerRestarts \/ LinkFails \/ ServerStarts \/ Tick
  BY <1>1, <1>13 DEF BrokerDrops, BrokerRestarts, LinkFails, ServerStarts, Tick
<1>14. CASE ServerBroadcasts
  BY <1>6, <1>14 DEF ServerBroadcasts, ToDevice
<1>15. CASE ServerReads
  <2>1. Head(toServer) \in ToServer
    BY <1>15, TailType DEF ServerReads, Types, Packets
  <2>2. UNCHANGED fetched
    BY <1>15 DEF ServerReads
  <2>3. Deliver("command", "synack") \/ UNCHANGED toDevice
    BY <1>15, <2>1 DEF ServerReads, ToServer
  <2>4. QED
    BY <1>1, <1>6, <2>2, <2>3 DEF ToDevice
<1>16. CASE ServerStops
  BY <1>1, <1>6, <1>16 DEF ServerStops, ToDevice
<1>17. CASE UNCHANGED vars
  BY <1>1, <1>17 DEF vars
<1>18. QED
  BY <1>7, <1>8, <1>9, <1>10, <1>11, <1>12, <1>13, <1>14, <1>15, <1>16, <1>17
  DEF Next, MqttLoop, Server

LEMMA TypesAlways == Spec => [](Types /\ FetchedInv)
  BY InitTypes, NextTypes, NextFetched, PTL DEF Spec

\* The device stays what it is, and while it takes itself for connected to the broker
\* its timer does not connect again.
THEOREM TypeCorrect == Spec => []TypeOK
  BY TypesAlways, TypeParts, PTL

-----------------------------------------------------------------------------
(* Stranded *)

\* What is written last was not written longer ago than what was read last; and what
\* stop() left in _buffer stays there, since the answer to a ping is due.
StrandInv ==
  /\ outAge = 1 => inAge = 1
  /\ pc = "read" \/ (pc = "rest" /\ conn = "up") => outAge = 0
  /\ Stranded =>
       /\ pingOutstanding /\ inAge = 1 /\ fetched = Len(toDevice)
       /\ pc \in {"call", "loop", "timer", "tail"}

\* Steps that leave the device and its client alone.
Apart ==
  /\ UNCHANGED <<pc, ages, client>>
  /\ conn' = conn \/ (conn = "up" /\ conn' \in {"closed", "silent"})
  /\ conn = "up" \/ toDevice' = toDevice

LEMMA OutsideApart ==
  ASSUME Types,
         BrokerReads \/ BrokerDrops \/ BrokerRestarts \/ LinkFails \/ Server \/ ServerStops
  PROVE  Apart
<1>1. CASE BrokerReads \/ BrokerDrops \/ BrokerRestarts \/ LinkFails
  BY <1>1 DEF BrokerReads, BrokerDrops, BrokerRestarts, LinkFails, MayLose, Apart
<1>2. CASE Server \/ ServerStops
  <2>1. ASSUME NEW topic, NEW kind, Deliver(topic, kind)
        PROVE  conn = "up" \/ toDevice' = toDevice
    BY <2>1 DEF Deliver, Current
  <2>2. CASE ServerStarts \/ ServerBroadcasts \/ ServerStops
    BY <2>1, <2>2 DEF ServerStarts, ServerBroadcasts, ServerStops, Apart
  <2>3. CASE ServerReads
    <3>1. Head(toServer) \in ToServer
      BY <2>3, TailType DEF ServerReads, Types, Packets
    <3>2. QED
      BY <2>1, <2>3, <3>1 DEF ServerReads, ToServer, Apart
  <2>4. QED
    BY <1>2, <2>2, <2>3 DEF Server
<1>3. QED
  BY <1>1, <1>2

\* No step but that of a keep-alive which fails strands a device; no step frees one.
LEMMA NextStrand ==
  ASSUME Types, FetchedInv, StrandInv, [Next]_vars
  PROVE  /\ StrandInv' /\ (Stranded => Stranded')
         /\ Stranded' => Stranded \/ KeepAliveFails
<1> USE DEF StrandInv, Stranded, ages, client
<1>0. /\ inAge \in {0, 1} /\ outAge \in {0, 1} /\ caller \in {"loop", "tail"}
      /\ conn \in {"none", "up", "silent", "closed"}
      /\ pc \in {"call", "loop", "read", "rest", "timer", "connack", "tail"}
  BY DEF Types, Ages, Control
<1>1. CASE NotConnected \/ TailDisconnected
  BY <1>0, <1>1 DEF NotConnected, TailDisconnected, Connected, Open
<1>2. CASE KeepAliveFails
  <2>1. inAge = 1 /\ pingOutstanding /\ UNCHANGED <<inAge, outAge, pingOutstanding>>
        /\ pc' = "timer"
    BY <1>0, <1>2 DEF KeepAliveFails, Expired
  <2>2. /\ conn' = "none" /\ fetched' = Len(toDevice')
        /\ toDevice' = <<>> => toDevice = <<>> \/ fetched = 0
    BY <1>2, StopKeeps DEF KeepAliveFails
  <2>3. Stranded => fetched # 0
    BY EmptySeq DEF Types, Packets
  <2>4. QED
    BY <1>2, <2>1, <2>2, <2>3
<1>3. CASE Ping
  <2>1. inAge' = 0 /\ outAge' = 0
    BY <1>3 DEF Ping, Write
  <2>2. QED
    BY <1>3, <2>1 DEF Ping
<1>4. CASE StillAlive
  BY <1>0, <1>4 DEF StillAlive, Expired
<1>5. CASE NothingToRead
  BY <1>5 DEF NothingToRead
<1>6. CASE ReadHalf
  BY <1>6 DEF ReadHalf
<1>7. CASE ReadPacket
  <2>1. conn' = conn \/ (conn' = "none" /\ toDevice' = <<>>)
    BY <1>7 DEF ReadPacket, Checked, Open
  <2>2. outAge' = 0
    BY <1>7 DEF ReadPacket, DefaultMessageHandler, Write
  <2>3. ~Stranded
    BY <1>7 DEF ReadPacket
  <2>4. QED
    BY <1>7, <2>1, <2>2, <2>3 DEF ReadPacket
<1>8. CASE TimerRests
  BY <1>8 DEF TimerRests
<1>9. CASE AlreadyConnected
  <2>1. pc' \in {"loop", "tail"}
    BY <1>9 DEF AlreadyConnected, TimerFires, Called
  <2>2. QED
    BY <1>9, <2>1 DEF AlreadyConnected
<1>10. CASE Connect
  BY <1>10 DEF Connect, Connected, Open
<1>11. CASE ConnectRefused
  <2>1. pc' \in {"loop", "tail"}
    BY <1>11 DEF ConnectRefused, TimerFires, Called
  <2>2. QED
    BY <1>11, <2>1 DEF ConnectRefused, Connected, Open
<1>12. CASE Connack
  <2>1. pc' \in {"loop", "tail"} /\ inAge' = 0 /\ outAge' = 0 /\ conn' = conn
    BY <1>0, <1>12 DEF Connack, Write
  <2>2. conn # "none"
    BY <1>12 DEF Connack
  <2>3. QED
    BY <2>1, <2>2
<1>13. CASE ConnackTimeout
  <2>1. toDevice' = <<>> /\ conn' = "none" /\ toDevice = <<>>
    BY <1>13, StopKeeps DEF ConnackTimeout
  <2>2. pc' \in {"loop", "tail"} /\ UNCHANGED <<inAge, outAge>>
    BY <1>0, <1>13 DEF ConnackTimeout
  <2>3. QED
    BY <2>1, <2>2
<1>14. CASE TailConnected
  <2>1. outAge' \in {0, outAge}
    BY <1>14 DEF TailConnected, Write
  <2>2. QED
    BY <1>14, <2>1 DEF TailConnected
<1>15. CASE Button
  BY <1>15 DEF Button
<1>16. CASE BrokerReads \/ BrokerDrops \/ BrokerRestarts \/ LinkFails \/ Server \/ ServerStops
  <2>1. Apart
    BY <1>16, OutsideApart
  <2>2. QED
    BY <2>1 DEF Apart
<1>17. CASE Tick
  BY <1>17 DEF Tick
<1>18. CASE UNCHANGED vars
  BY <1>18 DEF vars
<1>19. QED
  BY <1>1, <1>2, <1>3, <1>4, <1>5, <1>6, <1>7, <1>8, <1>9, <1>10, <1>11, <1>12, <1>13,
     <1>14, <1>15, <1>16, <1>17, <1>18
  DEF Next, MqttLoop, ClientLoop

LEMMA StrandAlways == Spec => []StrandInv
<1>1. Init => StrandInv
  BY DEF Init, StrandInv, Stranded
<1>2. QED
  BY TypesAlways, NextStrand, <1>1, PTL DEF Spec

\* TCPClient::stop() does not flush _buffer: a client that was stopped with a packet in it
\* takes itself for connected for ever, and mqttLoop never connects again.
THEOREM StrandedForEver == Spec => StaysStranded
<1>1. Types /\ FetchedInv /\ StrandInv /\ [Next]_vars => [Stranded => Stranded']_vars
  BY NextStrand
<1>2. QED
  BY TypesAlways, StrandAlways, <1>1, PTL DEF Spec, StaysStranded

-----------------------------------------------------------------------------
(* Silence *)

\* A pass of mqttLoop leaves a connection on which something came, or a ping was
\* sent, no longer ago than MQTT_KEEPALIVE.
PassInv ==
  conn \in {"up", "silent"} /\ (passed \/ pc \in {"read", "timer", "tail"}) =>
    inAge = 0

\* Silence, measured by lastInActivity and pingOutstanding; loop() may be late once.
SilenceInv ==
  /\ conn \in {"up", "closed"} \/ (conn = "none" /\ ~Stranded) => silence = 0
  /\ pc = "rest" => conn = "up"
  /\ faults["late"] <= 1
  /\ conn = "silent" =>
       /\ toDevice # <<>> => silence + faults["late"] <= 1
       /\ silence + faults["late"] <=
            1 + inAge + (IF pingOutstanding THEN 1 ELSE 0)

QuietInv == PassInv /\ SilenceInv

\* Steps that leave the device, its ages and its budget of lateness alone.
Elsewhere ==
  /\ UNCHANGED <<pc, inAge, pingOutstanding, passed, silence>>
  /\ faults'["late"] = faults["late"]
  /\ \/ conn' = conn /\ (conn = "up" \/ toDevice' = toDevice)
     \/ conn = "up" /\ conn' = "closed" /\ pc # "rest"
     \/ conn = "up" /\ conn' = "silent" /\ pc # "rest" /\ silence = 0

LEMMA ElsewhereQuiet == Types /\ QuietInv /\ Elsewhere => QuietInv'
<1> SUFFICES ASSUME Types, QuietInv, Elsewhere PROVE QuietInv'
  OBVIOUS
<1>0. inAge \in {0, 1} /\ silence \in Nat /\ faults["late"] \in Nat
  BY DEF Types, Ages, Outside, Faults, MaxSilence
<1> USE DEF QuietInv, PassInv, SilenceInv, Stranded
<1>1. CASE conn' = conn /\ (conn = "up" \/ toDevice' = toDevice)
  BY <1>0, <1>1 DEF Elsewhere
<1>2. CASE conn = "up" /\ conn' = "closed" /\ pc # "rest"
  BY <1>0, <1>2 DEF Elsewhere
<1>3. CASE conn = "up" /\ conn' = "silent" /\ pc # "rest" /\ silence = 0
  <2>1. faults'["late"] <= 1
    BY DEF Elsewhere
  <2>2. QED
    BY <1>0, <1>3, <2>1 DEF Elsewhere
<1>4. QED
  BY <1>1, <1>2, <1>3 DEF Elsewhere

LEMMA ClientQuiet ==
  Types /\ FetchedInv /\ StrandInv /\ QuietInv /\ ClientLoop => QuietInv'
<1> SUFFICES ASSUME Types, FetchedInv, StrandInv, QuietInv, ClientLoop PROVE QuietInv'
  OBVIOUS
<1>0. /\ inAge \in {0, 1} /\ silence \in Nat /\ faults["late"] \in Nat
      /\ conn \in {"none", "up", "silent", "closed"}
  BY DEF Types, Ages, Control, Outside, Faults, MaxSilence
<1> USE DEF QuietInv, PassInv, SilenceInv, Stranded, ages, client, bounds
<1>1. CASE NotConnected
  BY <1>0, <1>1 DEF NotConnected, Connected, Open
<1>2. CASE KeepAliveFails
  BY <1>0, <1>2, StopKeeps DEF KeepAliveFails
<1>3. CASE Ping
  BY <1>0, <1>3 DEF Ping
<1>4. CASE StillAlive
  BY <1>0, <1>4 DEF StillAlive, Expired
<1>5. CASE NothingToRead
  BY <1>0, <1>5 DEF NothingToRead
<1>6. CASE ReadHalf
  <2>1. faults'["late"] = faults["late"]
    BY <1>6, FaultType DEF ReadHalf, Faults, Types, Outside
  <2>2. QED
    BY <1>0, <1>6, <2>1 DEF ReadHalf
<1>7. CASE ReadPacket
  <2>1. /\ conn' = conn \/ (conn # "silent" /\ conn' = "none")
        /\ conn # "none"
    BY <1>7 DEF ReadPacket, Checked, Open, StrandInv
  <2>2. /\ toDevice # <<>> /\ inAge' = 0 /\ pc' = "timer"
        /\ UNCHANGED <<silence, faults>>
    BY <1>7 DEF ReadPacket
  <2>3. conn = "silent" => silence + faults["late"] <= 1
    BY <1>0, <2>2
  <2>4. QED
    BY <1>0, <2>1, <2>2, <2>3
<1>8. QED
  BY <1>1, <1>2, <1>3, <1>4, <1>5, <1>6, <1>7 DEF ClientLoop

LEMMA ConnectQuiet ==
  Types /\ FetchedInv /\ StrandInv /\ QuietInv /\ (MqttLoop \/ Button) => QuietInv'
<1> SUFFICES ASSUME Types, FetchedInv, StrandInv, QuietInv, MqttLoop \/ Button PROVE QuietInv'
  OBVIOUS
<1>0. /\ inAge \in {0, 1} /\ silence \in Nat /\ faults["late"] \in Nat
      /\ conn \in {"none", "up", "silent", "closed"}
      /\ caller \in {"loop", "tail"}
  BY DEF Types, Ages, Control, Outside, Faults, MaxSilence
<1> USE DEF QuietInv, PassInv, SilenceInv, Stranded, ages, client, bounds
<1>1. CASE TimerRests
  BY <1>0, <1>1 DEF TimerRests
<1>2. CASE Button
  <2>1. faults'["late"] = faults["late"]
    BY <1>2, FaultType DEF Button, Faults, Types, Outside
  <2>2. QED
    BY <1>0, <1>2, <2>1 DEF Button
<1>3. CASE AlreadyConnected
  <2>1. pc' \in {"loop", "tail"} /\ (pc' = "tail" => pc = "timer")
    BY <1>3 DEF AlreadyConnected, TimerFires, Called
  <2>2. QED
    BY <1>0, <1>3, <2>1 DEF AlreadyConnected
<1>4. CASE Connect
  BY <1>0, <1>4 DEF Connect, Connected, Open
<1>5. CASE ConnectRefused
  <2>1. faults'["late"] = faults["late"] /\ pc' # "rest"
    BY <1>5, FaultType
    DEF ConnectRefused, TimerFires, Called, Faults, Types, Outside
  <2>2. silence = 0
    BY <1>0, <1>5 DEF ConnectRefused, Connected, Open
  <2>3. QED
    BY <1>0, <1>5, <2>1, <2>2 DEF ConnectRefused
<1>6. CASE Connack
  BY <1>0, <1>6 DEF Connack, StrandInv
<1>7. CASE ConnackTimeout
  BY <1>0, <1>7, StopKeeps DEF ConnackTimeout
<1>8. CASE TailConnected
  BY <1>0, <1>8 DEF TailConnected
<1>9. CASE TailDisconnected
  BY <1>0, <1>9 DEF TailDisconnected, Connected, Open
<1>10. QED
  BY <1>1, <1>2, <1>3, <1>4, <1>5, <1>6, <1>7, <1>8, <1>9, ClientQuiet DEF MqttLoop

LEMMA OutsideQuiet ==
  ASSUME Types, QuietInv, ~Truncating,
         BrokerReads \/ BrokerDrops \/ BrokerRestarts \/ LinkFails \/ Server \/ ServerStops
  PROVE  QuietInv'
<1> USE DEF ages, client, bounds
<1>1. CASE BrokerReads \/ BrokerDrops
  <2>1. Elsewhere
    BY <1>1 DEF BrokerReads, BrokerDrops, Elsewhere
  <2>2. QED
    BY <2>1, ElsewhereQuiet
<1>2. CASE BrokerRestarts
  <2>1. faults'["late"] = faults["late"]
    BY <1>2, FaultType DEF BrokerRestarts, Faults, Types, Outside
  <2>2. Elsewhere
    BY <1>2, <2>1 DEF BrokerRestarts, MayLose, Elsewhere
  <2>3. QED
    BY <2>2, ElsewhereQuiet
<1>3. CASE LinkFails
  <2>1. faults'["late"] = faults["late"]
    BY <1>3, FaultType DEF LinkFails, Faults, Types, Outside
  <2>2. silence = 0
    BY <1>3 DEF LinkFails, MayLose, QuietInv, SilenceInv
  <2>3. Elsewhere
    BY <1>3, <2>1, <2>2 DEF LinkFails, MayLose, Elsewhere
  <2>4. QED
    BY <2>3, ElsewhereQuiet
<1>4. CASE Server \/ ServerStops
  <2>1. ASSUME NEW topic, NEW kind, Deliver(topic, kind)
        PROVE  conn = "up" \/ toDevice' = toDevice
    BY <2>1 DEF Deliver, Current
  <2>2. conn = "up" \/ toDevice' = toDevice
    <3>1. CASE ServerStarts \/ ServerBroadcasts \/ ServerStops
      BY <2>1, <3>1 DEF ServerStarts, ServerBroadcasts, ServerStops
    <3>2. CASE ServerReads
      <4>1. Head(toServer) \in ToServer
        BY <3>2, TailType DEF ServerReads, Types, Packets
      <4>2. QED
        BY <2>1, <3>2, <4>1 DEF ServerReads, ToServer
    <3>3. QED
      BY <1>4, <3>1, <3>2 DEF Server
  <2>3. faults'["late"] = faults["late"]
    BY <1>4, FaultType
    DEF Server, ServerStarts, ServerBroadcasts, ServerReads, ServerStops, Faults,
        Types, Outside
  <2>4. Elsewhere
    BY <1>4, <2>2, <2>3
    DEF Server, ServerStarts, ServerBroadcasts, ServerReads, ServerStops, Elsewhere
  <2>5. QED
    BY <2>4, ElsewhereQuiet
<1>5. QED
  BY <1>1, <1>2, <1>3, <1>4

LEMMA TickQuiet == Types /\ QuietInv /\ Tick => QuietInv'
<1> SUFFICES ASSUME Types, QuietInv, Tick PROVE QuietInv'
  OBVIOUS
<1>0. /\ inAge \in {0, 1} /\ silence \in Nat /\ faults["late"] \in Nat
      /\ silence' \in {silence, silence + 1}
      /\ conn # "silent" /\ ~(conn = "none" /\ toDevice # <<>>) => silence' = silence
  BY DEF Tick, Stranded, Types, Ages, Outside, Faults, MaxSilence
<1> USE DEF QuietInv, PassInv, SilenceInv, Stranded, client
<1>1. CASE pc = "loop" /\ Quiet /\ UNCHANGED faults
  BY <1>0, <1>1 DEF Tick, Quiet
<1>2. CASE pc = "loop" /\ Fault("late")
  <2>1. faults'["late"] = faults["late"] - 1 /\ faults["late"] = 1
    BY <1>0, <1>2, FaultType DEF Fault, Faults, Types, Outside
  <2>2. QED
    BY <1>0, <1>2, <2>1 DEF Tick
<1>3. CASE pc = "connack" /\ inAge = 0 /\ toDevice = <<>> /\ UNCHANGED faults
  BY <1>0, <1>3 DEF Tick
<1>4. CASE pc = "rest" /\ conn # "up"
  BY <1>4
<1>5. QED
  BY <1>1, <1>2, <1>3, <1>4 DEF Tick

LEMMA NextQuiet ==
  ASSUME Types, FetchedInv, StrandInv, QuietInv, ~Truncating, [Next]_vars
  PROVE  QuietInv'
<1>1. CASE UNCHANGED vars
  BY <1>1 DEF vars, ages, client, bounds, QuietInv, PassInv, SilenceInv, Stranded
<1>2. CASE Next
  BY <1>2, ConnectQuiet, OutsideQuiet, TickQuiet DEF Next
<1>3. QED
  BY <1>1, <1>2

LEMMA QuietAlways ==
  ASSUME ~Truncating, \A budget \in Budgets : budget["late"] <= 1
  PROVE  Spec => []QuietInv
<1>1. Init => QuietInv
  BY DEF Init, QuietInv, PassInv, SilenceInv
<1>2. Types /\ FetchedInv /\ StrandInv /\ QuietInv /\ [Next]_vars => QuietInv'
  BY NextQuiet
<1>3. QED
  BY TypesAlways, StrandAlways, <1>1, <1>2, PTL DEF Spec

\* MQTT_KEEPALIVE: where no connection is lost in the middle of a packet and loop() is
\* late at most once, a connection that has died without a word is given up after two
\* periods of keep-alive and that lateness, whatever was under way, whatever else fails
\* and however often, unless stop() finds a packet in _buffer.
THEOREM DeathIsNoticed ==
  ASSUME ~Truncating, \A budget \in Budgets : budget["late"] <= 1
  PROVE  Spec => []DeadNoticed
<1>1. Types /\ QuietInv => DeadNoticed
  BY DEF Types, Ages, Control, Outside, Faults, QuietInv, SilenceInv, DeadNoticed, MaxSilence
<1>2. QED
  BY TypesAlways, QuietAlways, <1>1, PTL

-----------------------------------------------------------------------------
(* Device and server *)

In(kind, packets) == \E i \in DOMAIN packets : packets[i] = kind

\* After each a comes a b.
Followed(a, b, packets) ==
  \A i \in DOMAIN packets : packets[i] = a =>
    \E j \in DOMAIN packets : j > i /\ packets[j] = b

\* No connection is made without a SYN to come: mqttConnect is called only while
\* BROKER_CONNECTED is clear, and a pass that ends with a connection sets it.
SynDueInv ==
  /\ faults["button"] = 0
  /\ pc = "call" => ~brokerConnected /\ ~passed /\ conn # "up"
  /\ pc = "connack" /\ caller = "loop" => ~passed
  /\ pc = "loop" /\ passed /\ conn = "up" => brokerConnected

\* What is known of a connection: first CONNECT, then its answer, then the subscriptions,
\* each of which is with the broker or under way, before the SYN.
SubscribedInv ==
  conn = "up" =>
    IF pc = "connack"
      THEN /\ ~brokerConnected
           /\ \/ toBroker = <<"CONNECT">> /\ toDevice = <<>>
              \/ toBroker = <<>> /\ session /\ subs = {}
      ELSE /\ session /\ ~In("CONNECT", toBroker)
           /\ \A topic \in {"command", "all"} :
                \/ topic \in subs
                \/ /\ In(topic, toBroker)
                   /\ brokerConnected => Followed(topic, "SYN", toBroker)

\* What the server hears last of a connection is not the will of the one before.
WillInv ==
  /\ server = "down" => toServer = <<>>
  /\ conn = "up" /\ brokerConnected =>
       In("SYN", toBroker) \/ Followed("will", "SYN", toServer)

\* A server that has taken its leave comes back with a broadcast, in the same order.
LeaveInv ==
  conn = "up" /\ In("disconnect", toDevice) =>
    "all" \in subs /\ (server = "up" => Followed("disconnect", "connect", toDevice))

\* A server that is up has the device's word, or it is under way, or asked for.
ExchangeInv ==
  conn = "up" /\ brokerConnected /\ server = "up" =>
    \/ In("connect", toDevice) \/ In("SYN", toServer) \/ In("SYN", toBroker)
    \/ /\ known \in {"syn", "yes"}
       /\ \/ In("synack", toDevice)
          \/ isConnected /\ (known = "yes" \/ In("ACK", toServer) \/ In("ACK", toBroker))

ConnInv == SubscribedInv /\ WillInv /\ LeaveInv /\ ExchangeInv


LEMMA InTail ==
  ASSUME NEW S, NEW s \in Seq(S), s # <<>>, NEW k
  PROVE  In(k, s) <=> Head(s) = k \/ In(k, Tail(s))
<1>0. Len(s) \in Nat \ {0} /\ Head(s) = s[1] /\ Tail(s) \in Seq(S) /\ Len(Tail(s)) = Len(s) - 1
      /\ \A i \in 1 .. Len(s) - 1 : Tail(s)[i] = s[i + 1]
  BY TailType, HeadTailProperties
<1>1. ASSUME In(k, s) PROVE Head(s) = k \/ In(k, Tail(s))
  <2>1. PICK i \in 1 .. Len(s) : s[i] = k
    BY <1>1 DEF In
  <2>2. CASE i # 1
    <3>1. i - 1 \in DOMAIN Tail(s) /\ Tail(s)[i - 1] = k
      BY <1>0, <2>1, <2>2
    <3>2. QED
      BY <3>1 DEF In
  <2>3. QED
    BY <1>0, <2>1, <2>2
<1>2. ASSUME In(k, Tail(s)) PROVE In(k, s)
  <2>1. PICK i \in 1 .. Len(s) - 1 : Tail(s)[i] = k
    BY <1>0, <1>2 DEF In
  <2>2. i + 1 \in DOMAIN s /\ s[i + 1] = k
    BY <1>0, <2>1
  <2>3. QED
    BY <2>2 DEF In
<1>3. ASSUME Head(s) = k PROVE In(k, s)
  BY <1>0, <1>3 DEF In
<1>4. QED
  BY <1>1, <1>2, <1>3

LEMMA InConcat ==
  ASSUME NEW S, NEW s \in Seq(S), NEW t \in Seq(S), NEW k
  PROVE  In(k, s \o t) <=> In(k, s) \/ In(k, t)
<1>0. /\ s \o t \in Seq(S) /\ Len(s \o t) = Len(s) + Len(t)
      /\ Len(s) \in Nat /\ Len(t) \in Nat
      /\ \A i \in 1 .. Len(s) + Len(t) :
           (s \o t)[i] = IF i <= Len(s) THEN s[i] ELSE t[i - Len(s)]
  BY ConcatProperties, LenProperties
<1>1. ASSUME In(k, s \o t) PROVE In(k, s) \/ In(k, t)
  <2>1. PICK i \in 1 .. Len(s) + Len(t) : (s \o t)[i] = k
    BY <1>0, <1>1 DEF In
  <2>2. \/ i \in DOMAIN s /\ s[i] = k
        \/ i - Len(s) \in DOMAIN t /\ t[i - Len(s)] = k
    BY <1>0, <2>1
  <2>3. QED
    BY <2>2 DEF In
<1>2. ASSUME In(k, s) PROVE In(k, s \o t)
  <2>1. PICK i \in 1 .. Len(s) : s[i] = k
    BY <1>2 DEF In
  <2>2. i \in DOMAIN (s \o t) /\ (s \o t)[i] = k
    BY <1>0, <2>1
  <2>3. QED
    BY <2>2 DEF In
<1>3. ASSUME In(k, t) PROVE In(k, s \o t)
  <2>1. PICK i \in 1 .. Len(t) : t[i] = k
    BY <1>3 DEF In
  <2>2. Len(s) + i \in DOMAIN (s \o t) /\ (s \o t)[Len(s) + i] = k
    BY <1>0, <2>1
  <2>3. QED
    BY <2>2 DEF In
<1>4. QED
  BY <1>1, <1>2, <1>3

LEMMA InOne == \A k, x : In(k, <<x>>) <=> k = x
<1> SUFFICES ASSUME NEW k, NEW x PROVE In(k, <<x>>) <=> k = x
  OBVIOUS
<1>1. DOMAIN <<x>> = {1} /\ <<x>>[1] = x
  OBVIOUS
<1>2. QED
  BY <1>1 DEF In

LEMMA FollowedTail ==
  ASSUME NEW S, NEW s \in Seq(S), s # <<>>, NEW a, NEW b, Followed(a, b, s)
  PROVE  Followed(a, b, Tail(s)) /\ (Head(s) = a => In(b, Tail(s)))
<1>0. Len(s) \in Nat \ {0} /\ Head(s) = s[1] /\ Tail(s) \in Seq(S) /\ Len(Tail(s)) = Len(s) - 1
      /\ \A i \in 1 .. Len(s) - 1 : Tail(s)[i] = s[i + 1]
  BY TailType, HeadTailProperties
<1>1. ASSUME NEW i \in 1 .. Len(s), s[i] = a
      PROVE  \E j \in 1 .. Len(s) - 1 : j > i - 1 /\ Tail(s)[j] = b
  <2>1. PICK j \in 1 .. Len(s) : j > i /\ s[j] = b
    BY <1>1 DEF Followed
  <2>2. j - 1 \in 1 .. Len(s) - 1 /\ j - 1 > i - 1 /\ Tail(s)[j - 1] = b
    BY <1>0, <2>1
  <2>3. QED
    BY <2>2
<1>2. Followed(a, b, Tail(s))
  <2>0. DOMAIN Tail(s) = 1 .. Len(s) - 1
    BY <1>0
  <2> SUFFICES ASSUME NEW i \in 1 .. Len(s) - 1, Tail(s)[i] = a
               PROVE  \E j \in 1 .. Len(s) - 1 : j > i /\ Tail(s)[j] = b
    BY <2>0, Zenon DEF Followed
  <2>1. Tail(s)[i] = s[i + 1]
    BY <1>0
  <2>2. i + 1 \in 1 .. Len(s) /\ s[i + 1] = a
    BY <1>0, <2>1
  <2>3. PICK j \in 1 .. Len(s) - 1 : j > (i + 1) - 1 /\ Tail(s)[j] = b
    BY <1>1, <2>2
  <2>4. QED
    BY <2>3
<1>3. ASSUME Head(s) = a PROVE In(b, Tail(s))
  <2>1. 1 \in 1 .. Len(s) /\ s[1] = a
    BY <1>0, <1>3
  <2>2. PICK j \in 1 .. Len(s) - 1 : Tail(s)[j] = b
    BY <1>1, <2>1
  <2>3. j \in DOMAIN Tail(s)
    BY <1>0
  <2>4. QED
    BY <2>2, <2>3 DEF In
<1>4. QED
  BY <1>2, <1>3

LEMMA FollowedAppend ==
  ASSUME NEW S, NEW s \in Seq(S), NEW x \in S, NEW a, NEW b, a # b,
         x = b \/ (Followed(a, b, s) /\ x # a)
  PROVE  Followed(a, b, Append(s, x))
<1>0. /\ Append(s, x) \in Seq(S) /\ Len(Append(s, x)) = Len(s) + 1 /\ Len(s) \in Nat
      /\ \A i \in 1 .. Len(s) : Append(s, x)[i] = s[i]
      /\ Append(s, x)[Len(s) + 1] = x
  BY AppendProperties, LenProperties
<1> SUFFICES ASSUME NEW i \in 1 .. Len(s) + 1, Append(s, x)[i] = a
             PROVE  \E j \in 1 .. Len(s) + 1 : j > i /\ Append(s, x)[j] = b
  BY <1>0 DEF Followed
<1>1. i \in 1 .. Len(s) /\ s[i] = a
  BY <1>0
<1>2. CASE x = b
  BY <1>0, <1>1, <1>2
<1>3. CASE x # b
  <2>1. PICK j \in 1 .. Len(s) : j > i /\ s[j] = b
    BY <1>1, <1>3 DEF Followed
  <2>2. QED
    BY <1>0, <2>1
<1>4. QED
  BY <1>2, <1>3

LEMMA NotFollowed ==
  ASSUME NEW s, NEW a, NEW b, Followed(a, b, s), ~In(b, s)
  PROVE  ~In(a, s)
  BY DEF Followed, In

LEMMA FollowedEmpty == \A a, b : Followed(a, b, <<>>) /\ ~In(a, <<>>)
  BY DEF Followed, In

LEMMA InAppend ==
  ASSUME NEW S, NEW s \in Seq(S), NEW x \in S, NEW k
  PROVE  /\ In(k, Append(s, x)) <=> In(k, s) \/ k = x
         /\ Append(s, x) = s \o <<x>>
<1>1. Append(s, x) = s \o <<x>> /\ <<x>> \in Seq(S)
  BY AppendIsConcat
<1>2. In(k, s \o <<x>>) <=> In(k, s) \/ In(k, <<x>>)
  BY <1>1, InConcat
<1>3. In(k, <<x>>) <=> k = x
  BY InOne
<1>4. QED
  BY <1>1, <1>2, <1>3

-----------------------------------------------------------------------------
(* Each step *)

LEMMA StepSynDue == Types /\ SynDueInv /\ [Next]_vars => SynDueInv'
<1> SUFFICES ASSUME Types, SynDueInv, [Next]_vars PROVE SynDueInv'
  OBVIOUS
<1> USE DEF SynDueInv, ages, client, timer, flags, broker, world, bounds
<1>0. /\ faults \in [Faults -> Nat] /\ "button" \in Faults
      /\ caller \in {"loop", "tail"} /\ (brokerConnected => ~timerEnabled)
  BY DEF Types, Outside, Control, Faults
<1>1. faults'["button"] = 0
  <2>1. ASSUME NEW k \in Faults, Fault(k) PROVE faults'["button"] = 0
    <3>1. k # "button"
      BY <1>0, <2>1 DEF Fault
    <3>2. QED
      BY <1>0, <2>1, <3>1, FaultType
  <2>2. CASE UNCHANGED faults
    BY <2>2
  <2>3. (\E k \in Faults : Fault(k)) \/ UNCHANGED faults
    BY DEF Next, MqttLoop, ClientLoop, Server, NotConnected, KeepAliveFails, Ping, StillAlive,
       NothingToRead, ReadHalf, ReadPacket, TimerRests, AlreadyConnected, Connect,
       ConnectRefused, Connack, ConnackTimeout, TailConnected, TailDisconnected, Button,
       BrokerReads, BrokerDrops, BrokerRestarts, LinkFails, ServerStarts, ServerBroadcasts,
       ServerReads, ServerStops, Tick, vars, Faults
  <2>4. QED
    BY <2>1, <2>2, <2>3
<1>2. CASE ClientLoop
  BY <1>1, <1>2
  DEF ClientLoop, NotConnected, KeepAliveFails, Ping, StillAlive, NothingToRead, ReadHalf,
      ReadPacket
<1>3. CASE TimerRests \/ AlreadyConnected
  BY <1>0, <1>1, <1>3 DEF TimerRests, AlreadyConnected, TimerFires, Called
<1>4. CASE Connect
  BY <1>0, <1>1, <1>4 DEF Connect, TimerFires, Called
<1>5. CASE ConnectRefused \/ ConnackTimeout
  BY <1>0, <1>1, <1>5 DEF ConnectRefused, ConnackTimeout, Stop, TimerFires, Called
<1>6. CASE Connack
  BY <1>0, <1>1, <1>6 DEF Connack
<1>7. CASE TailConnected \/ TailDisconnected
  BY <1>0, <1>1, <1>7 DEF TailConnected, TailDisconnected
<1>8. CASE Button
  BY <1>0, <1>8 DEF Button, Fault
<1>9. CASE BrokerReads \/ BrokerDrops \/ BrokerRestarts \/ LinkFails
  BY <1>1, <1>9 DEF BrokerReads, BrokerDrops, BrokerRestarts, LinkFails
<1>10. CASE Server \/ ServerStops
  <2>1. UNCHANGED <<pc, conn, caller, brokerConnected, passed>>
    BY <1>10 DEF Server, ServerStarts, ServerBroadcasts, ServerReads, ServerStops
  <2>2. QED
    BY <1>1, <2>1
<1>11. CASE Tick
  BY <1>1, <1>11 DEF Tick
<1>12. CASE UNCHANGED vars
  BY <1>12 DEF vars
<1>13. QED
  BY <1>2, <1>3, <1>4, <1>5, <1>6, <1>7, <1>8, <1>9, <1>10, <1>11, <1>12
  DEF Next, MqttLoop

Talk == <<conn, toBroker, toDevice, toServer, session, subs, server, known, isConnected,
          brokerConnected>>

LEMMA Untouched ==
  ASSUME ConnInv, UNCHANGED Talk, pc' = pc \/ (pc # "connack" /\ pc' # "connack")
  PROVE  ConnInv'
  BY DEF ConnInv, SubscribedInv, WillInv, LeaveInv, ExchangeInv, Talk

\* A connection that is over counts for nothing.
LEMMA Over ==
  ASSUME conn' # "up", server' = "down" => toServer' = <<>>
  PROVE  ConnInv'
  BY DEF ConnInv, SubscribedInv, WillInv, LeaveInv, ExchangeInv

\* The device says something on an open connection.
LEMMA Says ==
  ASSUME Types, ConnInv, conn = "up", pc # "connack", NEW kind \in {"SYN", "ACK", "ping"},
         toBroker' = toBroker \o <<kind>>
  PROVE  /\ \A k : In(k, toBroker') <=> In(k, toBroker) \/ k = kind
         /\ \A topic \in {"command", "all"} :
              \/ topic \in subs
              \/ /\ In(topic, toBroker')
                 /\ brokerConnected \/ kind = "SYN" => Followed(topic, "SYN", toBroker')
<1>0. toBroker \in Seq(ToBroker) /\ kind \in ToBroker /\ toBroker' = Append(toBroker, kind)
  BY AppendIsConcat DEF Types, Packets, ToBroker
<1>1. \A k : In(k, toBroker') <=> In(k, toBroker) \/ k = kind
  <2> SUFFICES ASSUME NEW k PROVE In(k, toBroker') <=> In(k, toBroker) \/ k = kind
    OBVIOUS
  <2>1. In(k, Append(toBroker, kind)) <=> In(k, toBroker) \/ k = kind
    BY <1>0, InAppend
  <2>2. QED
    BY <1>0, <2>1
<1>2. ASSUME NEW topic \in {"command", "all"}, topic \notin subs,
             brokerConnected \/ kind = "SYN"
      PROVE  Followed(topic, "SYN", toBroker')
  <2>1. kind = "SYN" \/ Followed(topic, "SYN", toBroker)
    BY <1>2 DEF ConnInv, SubscribedInv
  <2>2. QED
    BY <1>0, <1>2, <2>1, FollowedAppend
<1>3. \A topic \in {"command", "all"} : topic \in subs \/ In(topic, toBroker)
  BY DEF ConnInv, SubscribedInv
<1>4. QED
  BY <1>1, <1>2, <1>3

LEMMA PingTalk == Types /\ ConnInv /\ Ping => ConnInv'
<1> SUFFICES ASSUME Types, ConnInv, Ping PROVE ConnInv'
  OBVIOUS
<1> USE DEF flags, broker, world
<1>0. /\ pc # "connack" /\ pc' # "connack"
      /\ UNCHANGED <<conn, toDevice, toServer, session, subs, server, known, isConnected,
                     brokerConnected>>
  BY DEF Ping
<1>1. CASE conn = "up"
  <2>1. toBroker' = toBroker \o <<"ping">>
    BY <1>1 DEF Ping, Write
  <2>2. /\ \A k : In(k, toBroker') <=> In(k, toBroker) \/ k = "ping"
        /\ \A topic \in {"command", "all"} :
             \/ topic \in subs
             \/ In(topic, toBroker') /\ (brokerConnected => Followed(topic, "SYN", toBroker'))
    BY <1>0, <1>1, <2>1, Says
  <2>3. QED
    BY <1>0, <2>2 DEF ConnInv, SubscribedInv, WillInv, LeaveInv, ExchangeInv
<1>2. CASE conn # "up"
  BY <1>0, <1>2, Over DEF ConnInv, WillInv
<1>3. QED
  BY <1>1, <1>2

LEMMA ReadTalk == Types /\ ConnInv /\ ReadPacket => ConnInv'
<1> SUFFICES ASSUME Types, ConnInv, ReadPacket PROVE ConnInv'
  OBVIOUS
<1> USE DEF flags, broker, world
<1> DEFINE kind == Head(toDevice)
<1>0. /\ pc # "connack" /\ pc' # "connack" /\ toDevice' = Tail(toDevice) /\ toDevice # <<>>
      /\ UNCHANGED <<toServer, session, subs, server, known, brokerConnected>>
      /\ toDevice \in Seq(ToDevice) /\ isConnected \in BOOLEAN
      /\ isConnected' = (kind = "synack" \/ (isConnected /\ kind # "disconnect"))
  BY DEF ReadPacket, DefaultMessageHandler, Types, Packets, Control
<1>1. CASE conn # "up"
  <2>1. conn' # "up"
    BY <1>1 DEF ReadPacket, Checked
  <2>2. QED
    BY <1>0, <2>1, Over DEF ConnInv, WillInv
<1>2. CASE conn = "up"
  <2>1. conn' = "up"
    BY <1>2 DEF ReadPacket, Checked, Open
  <2>2. \A k : In(k, toDevice) <=> kind = k \/ In(k, toDevice')
    BY <1>0, InTail
  <2>3. /\ kind = "connect" => toBroker' = toBroker \o <<"SYN">>
        /\ kind = "synack"  => toBroker' = toBroker \o <<"ACK">>
        /\ kind \notin {"connect", "synack"} => toBroker' = toBroker
    BY <1>2 DEF ReadPacket, DefaultMessageHandler, Write
  <2>4. /\ \A k : In(k, toBroker) => In(k, toBroker')
        /\ kind = "connect" => In("SYN", toBroker')
        /\ kind = "synack"  => In("ACK", toBroker')
        /\ ~In("CONNECT", toBroker')
        /\ \A topic \in {"command", "all"} :
             \/ topic \in subs
             \/ In(topic, toBroker') /\ (brokerConnected => Followed(topic, "SYN", toBroker'))
    <3>1. CASE kind = "connect"
      BY <1>0, <1>2, <2>3, <3>1, Says DEF ConnInv, SubscribedInv
    <3>2. CASE kind = "synack"
      BY <1>0, <1>2, <2>3, <3>2, Says DEF ConnInv, SubscribedInv
    <3>3. CASE kind \notin {"connect", "synack"}
      BY <1>0, <1>2, <2>3, <3>3 DEF ConnInv, SubscribedInv
    <3>4. QED
      BY <3>1, <3>2, <3>3
  <2>5. SubscribedInv'
    BY <1>0, <1>2, <2>1, <2>4 DEF ConnInv, SubscribedInv
  <2>6. WillInv'
    BY <1>0, <1>2, <2>4 DEF ConnInv, WillInv
  <2>7. In("disconnect", toDevice) /\ server = "up" =>
          /\ Followed("disconnect", "connect", toDevice')
          /\ kind = "disconnect" => In("connect", toDevice')
    <3> SUFFICES ASSUME In("disconnect", toDevice), server = "up"
                 PROVE  /\ Followed("disconnect", "connect", toDevice')
                        /\ kind = "disconnect" => In("connect", toDevice')
      OBVIOUS
    <3>1. Followed("disconnect", "connect", toDevice)
      BY <1>2 DEF ConnInv, LeaveInv
    <3>2. QED
      BY <1>0, <3>1, FollowedTail
  <2>8. LeaveInv'
    BY <1>0, <1>2, <2>2, <2>7 DEF ConnInv, LeaveInv
  <2>9. ExchangeInv'
    <3> SUFFICES ASSUME brokerConnected, server = "up"
                 PROVE  \/ In("connect", toDevice') \/ In("SYN", toServer)
                        \/ In("SYN", toBroker')
                        \/ /\ known \in {"syn", "yes"}
                           /\ \/ In("synack", toDevice')
                              \/ /\ isConnected'
                                 /\ \/ known = "yes" \/ In("ACK", toServer)
                                    \/ In("ACK", toBroker')
      BY <1>0 DEF ExchangeInv
    <3>1. \/ In("connect", toDevice) \/ In("SYN", toServer) \/ In("SYN", toBroker)
          \/ /\ known \in {"syn", "yes"}
             /\ \/ In("synack", toDevice)
                \/ isConnected /\ (known = "yes" \/ In("ACK", toServer) \/ In("ACK", toBroker))
      BY <1>2 DEF ConnInv, ExchangeInv
    <3>2. CASE kind = "disconnect"
      BY <2>2, <2>7, <3>2
    <3>3. CASE kind = "synack"
      BY <1>0, <2>2, <2>4, <3>1, <3>3
    <3>4. CASE kind = "connect"
      BY <2>4, <3>4
    <3>5. CASE kind \notin {"disconnect", "synack", "connect"}
      BY <1>0, <2>2, <2>4, <3>1, <3>5
    <3>6. QED
      BY <3>2, <3>3, <3>4, <3>5
  <2>10. QED
    BY <2>5, <2>6, <2>8, <2>9 DEF ConnInv
<1>3. QED
  BY <1>1, <1>2

LEMMA ConnackTalk == Types /\ ConnInv /\ Connack => ConnInv'
<1> SUFFICES ASSUME Types, ConnInv, Connack PROVE ConnInv'
  OBVIOUS
<1> USE DEF flags, broker, world
<1>0. /\ pc = "connack" /\ pc' # "connack" /\ toDevice # <<>> /\ toDevice' = Tail(toDevice)
      /\ UNCHANGED <<conn, toServer, session, subs, server, known, isConnected,
                     brokerConnected>>
      /\ toDevice \in Seq(ToDevice)
  BY DEF Connack, Types, Packets, Control
<1>1. CASE conn = "up"
  <2>1. /\ toBroker = <<>> /\ session /\ subs = {} /\ ~brokerConnected
        /\ ~In("disconnect", toDevice)
    BY <1>0, <1>1 DEF ConnInv, SubscribedInv, LeaveInv
  <2>2. toBroker' = <<"command", "all">>
    BY <1>1, <2>1 DEF Connack, Write, Subscriptions
  <2>3. In("command", toBroker') /\ In("all", toBroker') /\ ~In("CONNECT", toBroker')
    BY <2>2 DEF In
  <2>4. ~In("disconnect", toDevice')
    BY <1>0, <2>1, InTail
  <2>5. QED
    BY <1>0, <2>1, <2>3, <2>4
    DEF ConnInv, SubscribedInv, WillInv, LeaveInv, ExchangeInv
<1>2. CASE conn # "up"
  BY <1>0, <1>2, Over DEF ConnInv, WillInv
<1>3. QED
  BY <1>1, <1>2

LEMMA TailTalk == Types /\ ConnInv /\ TailConnected => ConnInv'
<1> SUFFICES ASSUME Types, ConnInv, TailConnected PROVE ConnInv'
  OBVIOUS
<1> USE DEF flags, broker, world
<1>0. /\ pc # "connack" /\ pc' # "connack" /\ brokerConnected'
      /\ UNCHANGED <<conn, toDevice, toServer, session, subs, server, known, isConnected>>
      /\ brokerConnected \in BOOLEAN
  BY DEF TailConnected, Types, Control
<1>1. CASE conn # "up"
  BY <1>0, <1>1, Over DEF ConnInv, WillInv
<1>2. CASE conn = "up" /\ brokerConnected
  <2>1. UNCHANGED toBroker /\ brokerConnected' = brokerConnected
    BY <1>0, <1>2 DEF TailConnected
  <2>2. QED
    BY <1>0, <2>1, Untouched DEF Talk
<1>3. CASE conn = "up" /\ ~brokerConnected
  <2>1. toBroker' = toBroker \o <<"SYN">>
    BY <1>3 DEF TailConnected, Write
  <2>2. /\ \A k : In(k, toBroker') <=> In(k, toBroker) \/ k = "SYN"
        /\ \A topic \in {"command", "all"} :
             topic \in subs \/ (In(topic, toBroker') /\ Followed(topic, "SYN", toBroker'))
    BY <1>0, <1>3, <2>1, Says
  <2>3. QED
    BY <1>0, <1>3, <2>2 DEF ConnInv, SubscribedInv, WillInv, LeaveInv, ExchangeInv
<1>4. QED
  BY <1>1, <1>2, <1>3

LEMMA ConnectTalk == Types /\ SynDueInv /\ ConnInv /\ Connect => ConnInv'
<1> SUFFICES ASSUME Types, SynDueInv, ConnInv, Connect PROVE ConnInv'
  OBVIOUS
<1> USE DEF flags, broker, world
<1>1. /\ pc' = "connack" /\ toBroker' = <<"CONNECT">> /\ toDevice' = <<>>
      /\ UNCHANGED <<toServer, server>> /\ ~brokerConnected'
  BY DEF Connect, TimerFires, Called, Types, Control, SynDueInv
<1>2. ~In("disconnect", toDevice')
  BY <1>1, FollowedEmpty
<1>3. QED
  BY <1>1, <1>2 DEF ConnInv, SubscribedInv, WillInv, LeaveInv, ExchangeInv

LEMMA DeviceTalk == Types /\ SynDueInv /\ ConnInv /\ (MqttLoop \/ Button \/ Tick) => ConnInv'
<1> SUFFICES ASSUME Types, SynDueInv, ConnInv, MqttLoop \/ Button \/ Tick
             PROVE  ConnInv'
  OBVIOUS
<1> USE DEF flags, broker, world
<1>0. server = "down" => toServer = <<>>
  BY DEF ConnInv, WillInv
<1>1. CASE NotConnected \/ KeepAliveFails \/ ConnectRefused \/ ConnackTimeout \/ TailDisconnected
  <2>1. conn' # "up" /\ UNCHANGED <<server, toServer>>
    BY <1>1
    DEF NotConnected, KeepAliveFails, ConnectRefused, ConnackTimeout, TailDisconnected, Stop
  <2>2. QED
    BY <1>0, <2>1, Over
<1>2. CASE StillAlive \/ NothingToRead \/ ReadHalf \/ TimerRests \/ AlreadyConnected
           \/ Button \/ Tick
  <2>1. pc' = pc \/ (pc # "connack" /\ pc' # "connack")
    BY <1>2
    DEF StillAlive, NothingToRead, ReadHalf, TimerRests, AlreadyConnected, TimerFires,
        Called, Button, Tick
  <2>2. UNCHANGED Talk
    BY <1>2
    DEF StillAlive, NothingToRead, ReadHalf, TimerRests, AlreadyConnected, Button, Tick, Talk
  <2>3. QED
    BY <2>1, <2>2, Untouched
<1>3. QED
  BY <1>1, <1>2, PingTalk, ReadTalk, ConnackTalk, TailTalk, ConnectTalk
  DEF MqttLoop, ClientLoop

LEMMA CurrentIs == Current <=> session /\ conn = "up" /\ ~In("CONNECT", toBroker)
  BY DEF Current, In

\* Before its answer to CONNECT the broker delivers nothing to a connection.
LEMMA BeforeConnack ==
  ASSUME ConnInv, conn = "up", pc = "connack"
  PROVE  /\ ~brokerConnected /\ ~In("disconnect", toDevice)
         /\ \/ toBroker = <<"CONNECT">> /\ toDevice = <<>> /\ ~Current
            \/ toBroker = <<>> /\ session /\ subs = {} /\ Current
<1>1. In("CONNECT", <<"CONNECT">>) /\ ~In("CONNECT", <<>>) /\ ~In("disconnect", <<>>)
  BY InOne, FollowedEmpty
<1>2. QED
  BY <1>1, CurrentIs DEF ConnInv, SubscribedInv, LeaveInv

LEMMA AfterConnack ==
  ASSUME ConnInv, conn = "up", pc # "connack"
  PROVE  Current /\ session /\ ~In("CONNECT", toBroker)
  BY CurrentIs DEF ConnInv, SubscribedInv

\* What is delivered comes last.
LEMMA Delivered ==
  ASSUME Types, NEW topic, NEW kind \in ToDevice, Deliver(topic, kind)
  PROVE  /\ toDevice' = IF Current /\ topic \in subs THEN Append(toDevice, kind) ELSE toDevice
         /\ \A k : In(k, toDevice') <=>
                     In(k, toDevice) \/ (k = kind /\ Current /\ topic \in subs)
<1>1. toDevice' = IF Current /\ topic \in subs THEN Append(toDevice, kind) ELSE toDevice
  BY DEF Deliver
<1>2. ASSUME NEW k
      PROVE  In(k, toDevice') <=> In(k, toDevice) \/ (k = kind /\ Current /\ topic \in subs)
  <2>1. In(k, Append(toDevice, kind)) <=> In(k, toDevice) \/ k = kind
    BY InAppend DEF Types, Packets
  <2>2. QED
    BY <1>1, <2>1
<1>3. QED
  BY <1>1, <1>2

LEMMA BrokerReadsTalk == Types /\ ConnInv /\ BrokerReads => ConnInv'
<1> SUFFICES ASSUME Types, ConnInv, BrokerReads PROVE ConnInv'
  OBVIOUS
<1> USE DEF flags, broker, world
<1> DEFINE kind == Head(toBroker)
<1>0. /\ conn = "up" /\ toBroker # <<>> /\ toBroker' = Tail(toBroker) /\ session'
      /\ UNCHANGED <<pc, conn, server, known, isConnected, brokerConnected>>
      /\ toBroker \in Seq(ToBroker) /\ toDevice \in Seq(ToDevice) /\ toServer \in Seq(ToServer)
      /\ server = "down" => toServer = <<>>
      /\ kind \in ToBroker
  BY TailType DEF BrokerReads, Types, Packets, ConnInv, WillInv
<1>1. server = "down" => toServer' = <<>>
  BY <1>0 DEF BrokerReads, Forward
<1>2. CASE pc = "connack"
  <2>1. toBroker = <<"CONNECT">> /\ toDevice = <<>> /\ ~brokerConnected
    BY <1>0, <1>2, BeforeConnack
  <2>2. kind = "CONNECT" /\ toBroker' = <<>>
    BY <1>0, <2>1
  <2>3. subs' = {} /\ toDevice' = Append(toDevice, "connack")
    BY <2>2 DEF BrokerReads
  <2>4. toDevice' = <<"connack">>
    BY <2>1, <2>3
  <2>5. ~In("disconnect", toDevice')
    BY <2>4, InOne
  <2>6. QED
    BY <1>0, <1>1, <1>2, <2>1, <2>2, <2>3, <2>5
    DEF ConnInv, SubscribedInv, WillInv, LeaveInv, ExchangeInv
<1>3. CASE pc # "connack"
  <2>1. \A k : In(k, toBroker) <=> kind = k \/ In(k, toBroker')
    BY <1>0, InTail
  <2>2. session /\ kind # "CONNECT" /\ ~In("CONNECT", toBroker')
    BY <1>0, <1>3, <2>1, AfterConnack
  <2>3. /\ subs' = IF kind \in {"command", "all"} THEN subs \cup {kind} ELSE subs
        /\ toDevice' = IF kind = "ping" THEN Append(toDevice, "pingresp") ELSE toDevice
        /\ toServer' = IF kind \in {"SYN", "ACK"} /\ server # "down"
                         THEN Append(toServer, kind) ELSE toServer
    BY <1>0, <2>2 DEF BrokerReads, Forward, ToBroker
  <2>4. \A k : In(k, toDevice') <=> In(k, toDevice) \/ (k = "pingresp" /\ kind = "ping")
    <3> SUFFICES ASSUME NEW k
                 PROVE In(k, toDevice') <=> In(k, toDevice) \/ (k = "pingresp" /\ kind = "ping")
      OBVIOUS
    <3>1. toDevice \in Seq(ToDevice) /\ "pingresp" \in ToDevice
      BY <1>0 DEF ToDevice
    <3>2. In(k, Append(toDevice, "pingresp")) <=> In(k, toDevice) \/ k = "pingresp"
      BY <3>1, InAppend
    <3>3. QED
      BY <2>3, <3>2
  <2>5. \A k : In(k, toServer') <=>
               In(k, toServer) \/ (k = kind /\ kind \in {"SYN", "ACK"} /\ server # "down")
    <3> SUFFICES ASSUME NEW k
                 PROVE In(k, toServer') <=> In(k, toServer)
                          \/ (k = kind /\ kind \in {"SYN", "ACK"} /\ server # "down")
      OBVIOUS
    <3>1. CASE kind \in {"SYN", "ACK"} /\ server # "down"
      <4>1. toServer \in Seq(ToServer) /\ kind \in ToServer
        BY <1>0, <3>1 DEF ToServer
      <4>2. In(k, Append(toServer, kind)) <=> In(k, toServer) \/ k = kind
        BY <4>1, InAppend
      <4>3. QED
        BY <2>3, <3>1, <4>2
    <3>2. CASE ~(kind \in {"SYN", "ACK"} /\ server # "down")
      BY <2>3, <3>2
    <3>3. QED
      BY <3>1, <3>2
  <2>6. SubscribedInv'
    <3>1. ASSUME NEW topic \in {"command", "all"}
          PROVE  \/ topic \in subs'
                 \/ /\ In(topic, toBroker')
                    /\ brokerConnected => Followed(topic, "SYN", toBroker')
      <4>1. CASE topic \in subs \/ kind = topic
        BY <2>3, <4>1
      <4>2. CASE topic \notin subs /\ kind # topic
        <5>1. In(topic, toBroker) /\ (brokerConnected => Followed(topic, "SYN", toBroker))
          BY <1>0, <1>3, <4>2 DEF ConnInv, SubscribedInv
        <5>2. brokerConnected => Followed(topic, "SYN", toBroker')
          BY <1>0, <5>1, FollowedTail
        <5>3. QED
          BY <2>1, <4>2, <5>1, <5>2
      <4>3. QED
        BY <4>1, <4>2
    <3>2. QED
      BY <1>0, <1>3, <2>2, <3>1 DEF SubscribedInv
  <2>7. WillInv'
    <3>1. ASSUME brokerConnected
          PROVE  In("SYN", toBroker') \/ Followed("will", "SYN", toServer')
      <4>1. In("SYN", toBroker) \/ Followed("will", "SYN", toServer)
        BY <1>0, <3>1 DEF ConnInv, WillInv
      <4>2. CASE kind \in {"SYN", "ACK"} /\ server # "down"
        <5>1. kind \in ToServer /\ kind # "will" /\ toServer' = Append(toServer, kind)
          BY <2>3, <4>2 DEF ToServer
        <5>2. kind = "SYN" \/ Followed("will", "SYN", toServer) \/ In("SYN", toBroker')
          BY <2>1, <4>1
        <5>3. QED
          BY <1>0, <5>1, <5>2, FollowedAppend
      <4>3. CASE server = "down"
        BY <1>1, <4>3, FollowedEmpty
      <4>4. CASE kind \notin {"SYN", "ACK"}
        BY <2>1, <2>3, <4>1, <4>4
      <4>5. QED
        BY <4>2, <4>3, <4>4
    <3>2. QED
      BY <1>0, <1>1, <3>1 DEF WillInv
  <2>8. LeaveInv'
    <3> SUFFICES ASSUME In("disconnect", toDevice')
                 PROVE  /\ "all" \in subs'
                        /\ server = "up" => Followed("disconnect", "connect", toDevice')
      BY <1>0 DEF LeaveInv
    <3>1. /\ "all" \in subs
          /\ server = "up" => Followed("disconnect", "connect", toDevice)
      BY <1>0, <2>4 DEF ConnInv, LeaveInv
    <3>2. Followed("disconnect", "connect", toDevice) =>
            Followed("disconnect", "connect", Append(toDevice, "pingresp"))
      BY <1>0, FollowedAppend DEF ToDevice
    <3>3. QED
      BY <2>3, <3>1, <3>2
  <2>9. ExchangeInv'
    BY <1>0, <2>1, <2>4, <2>5 DEF ConnInv, ExchangeInv
  <2>10. QED
    BY <2>6, <2>7, <2>8, <2>9 DEF ConnInv
<1>4. QED
  BY <1>2, <1>3

LEMMA BrokerTalk ==
  Types /\ ConnInv /\ (BrokerReads \/ BrokerDrops \/ BrokerRestarts \/ LinkFails) => ConnInv'
<1> SUFFICES ASSUME Types, ConnInv, BrokerReads \/ BrokerDrops \/ BrokerRestarts \/ LinkFails
             PROVE  ConnInv'
  OBVIOUS
<1> USE DEF flags, broker, world
<1>0. server = "down" => toServer = <<>>
  BY DEF ConnInv, WillInv
<1>1. CASE BrokerDrops
  <2>1. server' = "down" => toServer' = <<>>
    BY <1>0, <1>1 DEF BrokerDrops, Forward
  <2>2. CASE conn # "up"
    BY <1>1, <2>1, <2>2, Over DEF BrokerDrops
  <2>3. CASE conn = "up"
    <3>1. pc = "connack" /\ ~Current
      BY <1>1, <2>3, AfterConnack DEF BrokerDrops
    <3>2. toBroker = <<"CONNECT">> /\ toDevice = <<>> /\ ~brokerConnected
          /\ ~In("disconnect", toDevice)
      BY <2>3, <3>1, BeforeConnack
    <3>3. UNCHANGED <<pc, conn, toBroker, toDevice, server, brokerConnected>>
      BY <1>1 DEF BrokerDrops
    <3>4. QED
      BY <2>1, <3>1, <3>2, <3>3 DEF ConnInv, SubscribedInv, WillInv, LeaveInv, ExchangeInv
  <2>4. QED
    BY <2>2, <2>3
<1>2. CASE BrokerRestarts \/ LinkFails
  <2>1. conn' # "up" /\ (server' = "down" => toServer' = <<>>)
    BY <1>0, <1>2 DEF BrokerRestarts, LinkFails
  <2>2. QED
    BY <2>1, Over
<1>3. QED
  BY <1>1, <1>2, BrokerReadsTalk

LEMMA ServerStartsTalk == Types /\ ConnInv /\ ServerStarts => ConnInv'
<1> SUFFICES ASSUME Types, ConnInv, ServerStarts PROVE ConnInv'
  OBVIOUS
<1>1. /\ UNCHANGED <<pc, conn, toBroker, toDevice, toServer, session, subs, brokerConnected>>
      /\ server' = "subscribed"
  BY DEF ServerStarts, flags, broker
<1>2. QED
  BY <1>1 DEF ConnInv, SubscribedInv, WillInv, LeaveInv, ExchangeInv

LEMMA ServerBroadcastsTalk == Types /\ ConnInv /\ ServerBroadcasts => ConnInv'
<1> SUFFICES ASSUME Types, ConnInv, ServerBroadcasts PROVE ConnInv'
  OBVIOUS
<1>0. /\ UNCHANGED <<pc, conn, toBroker, toServer, session, subs, known, isConnected,
                     brokerConnected>>
      /\ server = "subscribed" /\ server' = "up" /\ toDevice \in Seq(ToDevice)
  BY DEF ServerBroadcasts, flags, broker, Types, Packets
<1>1. /\ toDevice' = IF Current /\ "all" \in subs THEN Append(toDevice, "connect") ELSE toDevice
      /\ \A k : In(k, toDevice') <=>
                  In(k, toDevice) \/ (k = "connect" /\ Current /\ "all" \in subs)
  BY Delivered DEF ServerBroadcasts, ToDevice
<1>2. SubscribedInv'
  <2>1. CASE conn = "up" /\ pc = "connack"
    BY <1>0, <1>1, <2>1, BeforeConnack DEF SubscribedInv
  <2>2. CASE ~(conn = "up" /\ pc = "connack")
    BY <1>0, <2>2 DEF ConnInv, SubscribedInv
  <2>3. QED
    BY <2>1, <2>2
<1>3. WillInv'
  BY <1>0 DEF ConnInv, WillInv
<1>4. LeaveInv'
  <2> SUFFICES ASSUME conn = "up", In("disconnect", toDevice')
               PROVE  "all" \in subs /\ Followed("disconnect", "connect", toDevice')
    BY <1>0 DEF LeaveInv
  <2>1. In("disconnect", toDevice) /\ "all" \in subs
    BY <1>1 DEF ConnInv, LeaveInv
  <2>2. Current
    BY <2>1, BeforeConnack, AfterConnack
  <2>3. QED
    BY <1>0, <1>1, <2>1, <2>2, FollowedAppend DEF ToDevice
<1>5. ExchangeInv'
  <2> SUFFICES ASSUME conn = "up", brokerConnected
               PROVE  In("connect", toDevice') \/ In("SYN", toBroker')
    BY <1>0 DEF ExchangeInv
  <2>1. pc # "connack"
    BY BeforeConnack
  <2>2. Current
    BY <2>1, AfterConnack
  <2>3. "all" \in subs \/ (In("all", toBroker) /\ Followed("all", "SYN", toBroker))
    BY <2>1 DEF ConnInv, SubscribedInv
  <2>4. "all" \in subs \/ In("SYN", toBroker)
    BY <2>3, NotFollowed
  <2>5. QED
    BY <1>0, <1>1, <2>2, <2>4
<1>6. QED
  BY <1>2, <1>3, <1>4, <1>5 DEF ConnInv

LEMMA ServerReadsTalk == Types /\ ConnInv /\ ServerReads => ConnInv'
<1> SUFFICES ASSUME Types, ConnInv, ServerReads PROVE ConnInv'
  OBVIOUS
<1> DEFINE kind == Head(toServer)
<1>0. /\ UNCHANGED <<pc, conn, toBroker, server, session, subs, isConnected, brokerConnected>>
      /\ toServer # <<>> /\ toServer' = Tail(toServer)
      /\ toDevice \in Seq(ToDevice) /\ toServer \in Seq(ToServer)
      /\ server # "down" /\ kind \in {"SYN", "ACK", "will"}
      /\ known \in {"no", "syn", "yes"}
  BY TailType DEF ServerReads, flags, broker, Types, Packets, Outside, ToServer, ConnInv, WillInv
<1>1. /\ kind = "SYN"  => known' = "syn" /\ Deliver("command", "synack")
      /\ kind = "ACK"  => known' = (IF known = "syn" THEN "yes" ELSE known) /\ toDevice' = toDevice
      /\ kind = "will" => known' = "no" /\ toDevice' = toDevice
  BY <1>0 DEF ServerReads
<1>2. \A k : In(k, toServer) <=> kind = k \/ In(k, toServer')
  BY <1>0, InTail
<1>3. /\ toDevice' = IF kind = "SYN" /\ Current /\ "command" \in subs
                       THEN Append(toDevice, "synack") ELSE toDevice
      /\ \A k : In(k, toDevice') <=>
                  \/ In(k, toDevice)
                  \/ k = "synack" /\ kind = "SYN" /\ Current /\ "command" \in subs
  <2>1. CASE kind = "SYN"
    BY <1>1, <2>1, Delivered DEF ToDevice
  <2>2. CASE kind # "SYN"
    BY <1>0, <1>1, <2>2
  <2>3. QED
    BY <2>1, <2>2
<1>4. SubscribedInv'
  <2>1. CASE conn = "up" /\ pc = "connack"
    BY <1>0, <1>3, <2>1, BeforeConnack DEF SubscribedInv
  <2>2. CASE ~(conn = "up" /\ pc = "connack")
    BY <1>0, <2>2 DEF ConnInv, SubscribedInv
  <2>3. QED
    BY <2>1, <2>2
<1>5. WillInv'
  <2>1. Followed("will", "SYN", toServer) => Followed("will", "SYN", toServer')
    BY <1>0, FollowedTail
  <2>2. QED
    BY <1>0, <2>1 DEF ConnInv, WillInv
<1>6. LeaveInv'
  <2>1. Followed("disconnect", "connect", toDevice) =>
          Followed("disconnect", "connect", Append(toDevice, "synack"))
    BY <1>0, FollowedAppend DEF ToDevice
  <2>2. QED
    BY <1>0, <1>3, <2>1 DEF ConnInv, LeaveInv
<1>7. ExchangeInv'
  <2> SUFFICES ASSUME conn = "up", brokerConnected, server = "up"
               PROVE  ExchangeInv'
    BY <1>0 DEF ExchangeInv
  <2>1. pc # "connack" /\ Current
    BY BeforeConnack, AfterConnack
  <2>2. \/ In("connect", toDevice) \/ In("SYN", toServer) \/ In("SYN", toBroker)
        \/ /\ known \in {"syn", "yes"}
           /\ \/ In("synack", toDevice)
              \/ isConnected /\ (known = "yes" \/ In("ACK", toServer) \/ In("ACK", toBroker))
    BY DEF ConnInv, ExchangeInv
  <2>3. CASE kind = "SYN"
    <3>1. "command" \in subs \/ (In("command", toBroker) /\ Followed("command", "SYN", toBroker))
      BY <2>1 DEF ConnInv, SubscribedInv
    <3>2. "command" \in subs \/ In("SYN", toBroker)
      BY <3>1, NotFollowed
    <3>3. In("synack", toDevice') \/ In("SYN", toBroker)
      BY <1>3, <2>1, <2>3, <3>2
    <3>4. QED
      BY <1>0, <1>1, <2>3, <3>3 DEF ExchangeInv
  <2>4. CASE kind = "ACK"
    BY <1>0, <1>1, <1>2, <1>3, <2>2, <2>4 DEF ExchangeInv
  <2>5. CASE kind = "will"
    <3>1. In("SYN", toBroker) \/ Followed("will", "SYN", toServer)
      BY DEF ConnInv, WillInv
    <3>2. In("SYN", toBroker) \/ In("SYN", toServer')
      BY <1>0, <2>5, <3>1, FollowedTail
    <3>3. QED
      BY <1>0, <3>2 DEF ExchangeInv
  <2>6. QED
    BY <1>0, <2>3, <2>4, <2>5
<1>8. QED
  BY <1>4, <1>5, <1>6, <1>7 DEF ConnInv

LEMMA ServerStopsTalk == Types /\ ConnInv /\ ServerStops => ConnInv'
<1> SUFFICES ASSUME Types, ConnInv, ServerStops PROVE ConnInv'
  OBVIOUS
<1>0. /\ UNCHANGED <<pc, conn, toBroker, session, subs, brokerConnected>>
      /\ server' = "down" /\ toServer' = <<>>
  BY DEF ServerStops, flags, broker
<1>1. \/ toDevice' = toDevice
      \/ /\ toDevice' = IF Current /\ "all" \in subs
                          THEN Append(toDevice, "disconnect") ELSE toDevice
         /\ In("disconnect", toDevice') => In("disconnect", toDevice) \/ "all" \in subs
  BY Delivered DEF ServerStops, ToDevice
<1>2. CASE conn = "up" /\ pc = "connack"
  <2>1. toDevice' = toDevice
    BY <1>1, <1>2, BeforeConnack
  <2>2. QED
    BY <1>0, <1>2, <2>1, FollowedEmpty
    DEF ConnInv, SubscribedInv, WillInv, LeaveInv, ExchangeInv
<1>3. CASE ~(conn = "up" /\ pc = "connack")
  BY <1>0, <1>1, <1>3, FollowedEmpty
  DEF ConnInv, SubscribedInv, WillInv, LeaveInv, ExchangeInv
<1>4. QED
  BY <1>2, <1>3

LEMMA NextTalk == Types /\ SynDueInv /\ ConnInv /\ [Next]_vars => ConnInv'
<1>1. ConnInv /\ UNCHANGED vars => ConnInv'
  BY Untouched DEF vars, flags, broker, world, Talk
<1>2. QED
  BY <1>1, DeviceTalk, BrokerTalk, ServerStartsTalk, ServerBroadcastsTalk, ServerReadsTalk,
     ServerStopsTalk DEF Next, Server

\* "the device and the server are both alive": whatever fails, how often, and in whatever
\* order broker, server and connection come back, a device and a server with nothing under
\* way between them agree, as long as nothing but mqttLoop makes a new connection.
THEOREM DeviceAndServerAgree ==
  ASSUME \A budget \in Budgets : budget["button"] = 0
  PROVE  Spec => []Agreed
<1>1. Init => SynDueInv /\ ConnInv
  BY FollowedEmpty
  DEF Init, SynDueInv, ConnInv, SubscribedInv, WillInv, LeaveInv, ExchangeInv
<1>2. Types /\ SynDueInv /\ ConnInv => Agreed
  <2> SUFFICES ASSUME SynDueInv, ConnInv, Types, pc = "loop", Quiet, Current, server = "up",
                      toBroker \o toServer = <<>>
               PROVE  isConnected /\ known = "yes"
    BY DEF Agreed
  <2>1. toBroker = <<>> /\ toServer = <<>> /\ toDevice = <<>>
    BY DEF Types, Packets, Quiet, Stranded, Current
  <2>2. conn = "up" /\ brokerConnected
    BY DEF Quiet, Current, SynDueInv
  <2>3. QED
    BY <2>1, <2>2, FollowedEmpty DEF ConnInv, ExchangeInv
<1>3. QED
  BY TypesAlways, StepSynDue, NextTalk, <1>1, <1>2, PTL DEF Spec

-----------------------------------------------------------------------------
(* In time *)

\* The answer to a ping comes before the next keep-alive, and what a connection that is
\* over has left is read before it.
InTime ==
  /\ ~Stranded
  /\ conn = "up" /\ pc = "connack" =>
       /\ inAge = 0 /\ outAge = 0
       /\ toBroker = <<"CONNECT">> \/ toDevice # <<>>
  /\ conn = "up" /\ pc # "connack" /\ pingOutstanding =>
       /\ inAge = 0 /\ outAge = 0
       /\ In("ping", toBroker) \/ In("pingresp", toDevice)
  /\ conn # "up" /\ pc # "rest" /\ pingOutstanding /\ (inAge = 1 \/ outAge = 1) =>
       toDevice = <<>>

TimeInv == faults["late"] <= 1 /\ (faults["late"] = 1 => InTime)

LEMMA LateLeft ==
  ASSUME Types, [Next]_vars
  PROVE  /\ faults["late"] \in Nat /\ faults'["late"] \in Nat
         /\ faults'["late"] <= faults["late"]
<1>1. faults \in [Faults -> Nat] /\ "late" \in Faults
  BY DEF Types, Outside, Faults
<1>2. (\E k \in Faults : Fault(k)) \/ UNCHANGED faults
  BY DEF Next, MqttLoop, ClientLoop, Server, NotConnected, KeepAliveFails, Ping, StillAlive,
     NothingToRead, ReadHalf, ReadPacket, TimerRests, AlreadyConnected, Connect,
     ConnectRefused, Connack, ConnackTimeout, TailConnected, TailDisconnected, Button,
     BrokerReads, BrokerDrops, BrokerRestarts, LinkFails, ServerStarts, ServerBroadcasts,
     ServerReads, ServerStops, Tick, bounds, vars, Faults
<1>3. ASSUME NEW k \in Faults, Fault(k)
      PROVE  faults'["late"] \in Nat /\ faults'["late"] <= faults["late"]
  <2>1. faults'["late"] = IF k = "late" THEN faults["late"] - 1 ELSE faults["late"]
    BY <1>1, <1>3 DEF Fault
  <2>2. faults[k] > 0
    BY <1>3 DEF Fault
  <2>3. QED
    BY <1>1, <2>1, <2>2
<1>4. QED
  BY <1>1, <1>2, <1>3

\* What the client reads and says leaves a ping, or its answer, under way.
LEMMA PongDue ==
  ASSUME Types, conn = "up", pingOutstanding,
         In("ping", toBroker) \/ In("pingresp", toDevice)
  PROVE  /\ \A kind \in ToBroker : toBroker' = toBroker \o <<kind>> =>
              (In("ping", toBroker) => In("ping", toBroker'))
         /\ toDevice # <<>> /\ Head(toDevice) # "pingresp" /\ In("pingresp", toDevice) =>
              In("pingresp", Tail(toDevice))
<1>1. toBroker \in Seq(ToBroker) /\ toDevice \in Seq(ToDevice)
  BY DEF Types, Packets
<1>2. ASSUME NEW kind \in ToBroker, toBroker' = toBroker \o <<kind>>, In("ping", toBroker)
      PROVE  In("ping", toBroker')
  BY <1>1, <1>2, InConcat, Writes
<1>3. QED
  BY <1>1, <1>2, InTail

LEMMA StepInTime ==
  ASSUME Types, FetchedInv, StrandInv, InTime, [Next]_vars,
         faults["late"] = 1, faults'["late"] = 1
  PROVE  /\ InTime'
         /\ KeepAliveFails => conn = "silent"
<1> USE DEF ages, client
<1>0. /\ inAge \in {0, 1} /\ outAge \in {0, 1} /\ caller \in {"loop", "tail"}
      /\ conn \in {"none", "up", "silent", "closed"}
      /\ pc \in {"call", "loop", "read", "rest", "timer", "connack", "tail"}
      /\ toBroker \in Seq(ToBroker) /\ toDevice \in Seq(ToDevice)
      /\ pingOutstanding \in BOOLEAN
  BY DEF Types, Packets, Ages, Control
<1>a. KeepAliveFails => conn = "silent" /\ toDevice = <<>>
  <2> SUFFICES ASSUME KeepAliveFails PROVE conn = "silent" /\ toDevice = <<>>
    OBVIOUS
  <2>1. pc = "loop" /\ pingOutstanding /\ (inAge = 1 \/ outAge = 1) /\ Connected
    BY DEF KeepAliveFails, Expired
  <2>2. conn # "up" /\ toDevice = <<>>
    BY <2>1 DEF InTime
  <2>3. QED
    BY <1>0, <2>1, <2>2 DEF Connected, Open
<1> SUFFICES InTime'
  BY <1>a
<1>b. Stranded' => KeepAliveFails
  BY NextStrand DEF InTime
<1>c. ASSUME NEW k \in ToDevice
      PROVE  /\ Append(toDevice, k) # <<>> /\ In(k, Append(toDevice, k))
             /\ In("pingresp", toDevice) => In("pingresp", Append(toDevice, k))
  <2>1. Append(toDevice, k) # <<>>
    BY <1>0, AppendProperties
  <2>2. \A j : In(j, Append(toDevice, k)) <=> In(j, toDevice) \/ j = k
    BY <1>0, InAppend
  <2>3. QED
    BY <2>1, <2>2
<1>1. CASE conn' = "none" /\ toDevice' = <<>>
  BY <1>1 DEF InTime, Stranded
<1>2. CASE UNCHANGED <<conn, ages, client, toBroker, toDevice>>
           /\ (pc' = pc \/ (pc # "connack" /\ pc' # "connack" /\ pc # "rest"))
  BY <1>2 DEF InTime, Stranded
<1>3. CASE NotConnected \/ ConnectRefused \/ TailDisconnected
  BY <1>0, <1>1, <1>3 DEF NotConnected, ConnectRefused, TailDisconnected, Connected, Open
<1>4. CASE KeepAliveFails \/ ConnackTimeout
  <2>1. Stop /\ toDevice = <<>>
    BY <1>a, <1>4 DEF KeepAliveFails, ConnackTimeout
  <2>2. QED
    BY <1>1, <2>1, StopKeeps
<1>5. CASE Ping
  <2>1. inAge' = 0 /\ outAge' = 0 /\ pc' = "read" /\ conn' = conn /\ toDevice' = toDevice
    BY <1>5 DEF Ping, Write
  <2>2. conn = "up" => In("ping", toBroker')
    <3> SUFFICES ASSUME conn = "up" PROVE In("ping", toBroker')
      OBVIOUS
    <3>1. toBroker' = toBroker \o <<"ping">>
      BY <1>5 DEF Ping, Write
    <3>2. In("ping", toBroker \o <<"ping">>) <=> In("ping", toBroker) \/ In("ping", <<"ping">>)
      BY <1>0, InConcat, Writes DEF ToBroker
    <3>3. QED
      BY <3>1, <3>2, InOne
  <2>3. QED
    BY <2>1, <2>2 DEF InTime, Stranded
<1>6. CASE StillAlive \/ NothingToRead \/ TimerRests \/ Button
  BY <1>2, <1>6 DEF StillAlive, NothingToRead, TimerRests, Button
<1>7. CASE ReadHalf
  BY <1>7 DEF ReadHalf, InTime, Stranded
<1>8. CASE ReadPacket
  <2> DEFINE kind == Head(toDevice)
  <2>1. /\ pc # "connack" /\ pc' = "timer" /\ inAge' = 0 /\ toDevice # <<>>
        /\ toDevice' = Tail(toDevice) /\ outAge' = 0
    BY <1>8 DEF ReadPacket, DefaultMessageHandler, Write, StrandInv
  <2>2. ~Stranded'
    BY <1>8, <1>b DEF ReadPacket, KeepAliveFails
  <2>3. CASE conn = "up"
    <3>1. /\ pingOutstanding' = (pingOutstanding /\ kind # "pingresp")
          /\ conn' = "up"
      BY <1>8, <2>3 DEF ReadPacket, Checked, Open
    <3>2. toBroker' = toBroker \/ \E k \in ToBroker : toBroker' = toBroker \o <<k>>
      BY <1>8, <2>3 DEF ReadPacket, DefaultMessageHandler, Write, ToBroker
    <3>3. ASSUME pingOutstanding, kind # "pingresp"
          PROVE  In("ping", toBroker') \/ In("pingresp", toDevice')
      BY <2>1, <2>3, <3>2, <3>3, PongDue DEF InTime
    <3>4. QED
      BY <2>1, <2>2, <3>1, <3>3 DEF InTime
  <2>4. CASE conn # "up"
    <3>1. conn' # "up"
      BY <1>8, <2>4 DEF ReadPacket, Checked
    <3>2. QED
      BY <2>1, <2>2, <3>1 DEF InTime
  <2>5. QED
    BY <2>3, <2>4
<1>9. CASE AlreadyConnected
  BY <1>0, <1>2, <1>9 DEF AlreadyConnected, TimerFires, Called
<1>10. CASE Connect
  BY <1>10 DEF Connect, InTime, Stranded
<1>11. CASE Connack
  <2>1. ~Stranded'
    BY <1>11, <1>b DEF Connack, KeepAliveFails
  <2>2. pc' # "connack" /\ ~pingOutstanding'
    BY <1>0, <1>11 DEF Connack
  <2>3. QED
    BY <2>1, <2>2 DEF InTime
<1>12. CASE TailConnected
  <2>1. /\ pc # "connack" /\ pc' = "loop" /\ pc # "rest" /\ outAge' \in {0, outAge}
        /\ UNCHANGED <<conn, inAge, pingOutstanding, toDevice>>
    BY <1>12 DEF TailConnected, Write
  <2>2. toBroker' = toBroker \/ toBroker' = toBroker \o <<"SYN">>
    BY <1>12 DEF TailConnected, Write
  <2>3. conn = "up" /\ pingOutstanding => In("ping", toBroker') \/ In("pingresp", toDevice')
    BY <2>1, <2>2, PongDue DEF InTime, ToBroker
  <2>4. QED
    BY <2>1, <2>3 DEF InTime, Stranded
<1>13. CASE BrokerReads
  <2>1. /\ conn = "up" /\ toBroker # <<>> /\ toBroker' = Tail(toBroker)
        /\ UNCHANGED <<pc, conn, ages, client>>
        /\ Head(toBroker) = "CONNECT" => toDevice' = Append(toDevice, "connack")
        /\ Head(toBroker) = "ping" => toDevice' = Append(toDevice, "pingresp")
        /\ toDevice' = toDevice \/ \E k \in ToDevice : toDevice' = Append(toDevice, k)
    BY <1>13 DEF BrokerReads, ToDevice
  <2>2. \A k \in ToDevice : /\ Append(toDevice, k) # <<>>
                            /\ In(k, Append(toDevice, k))
                            /\ In("pingresp", toDevice) => In("pingresp", Append(toDevice, k))
    BY <1>c
  <2>3. In("ping", toBroker) => Head(toBroker) = "ping" \/ In("ping", toBroker')
    BY <1>0, <2>1, InTail
  <2>4. In("ping", toBroker) => In("ping", toBroker') \/ In("pingresp", toDevice')
    BY <2>1, <2>2, <2>3 DEF ToDevice
  <2>5. In("pingresp", toDevice) => In("pingresp", toDevice')
    BY <2>1, <2>2
  <2>6. toBroker = <<"CONNECT">> \/ toDevice # <<>> => toDevice' # <<>>
    <3>1. toBroker = <<"CONNECT">> => Head(toBroker) = "CONNECT"
      OBVIOUS
    <3>2. QED
      BY <2>1, <2>2, <3>1 DEF ToDevice
  <2>7. QED
    BY <2>1, <2>4, <2>5, <2>6 DEF InTime, Stranded
<1>14. CASE BrokerDrops \/ ServerStarts
  BY <1>2, <1>14 DEF BrokerDrops, ServerStarts
<1>15. CASE BrokerRestarts \/ LinkFails
  <2>1. /\ UNCHANGED <<pc, ages, client, toDevice>>
        /\ conn = conn' \/ (conn = "up" /\ conn' \in {"closed", "silent"})
        /\ conn' # "up"
    BY <1>15 DEF BrokerRestarts, LinkFails, MayLose
  <2>2. QED
    BY <2>1 DEF InTime, Stranded
<1>16. CASE ServerBroadcasts \/ ServerReads \/ ServerStops
  <2>1. UNCHANGED <<pc, conn, ages, client, toBroker>>
    BY <1>16 DEF ServerBroadcasts, ServerReads, ServerStops
  <2>2. \/ toDevice' = toDevice
        \/ conn = "up" /\ \E k \in ToDevice : toDevice' = Append(toDevice, k)
    <3>1. ASSUME NEW topic, NEW k \in ToDevice, Deliver(topic, k)
          PROVE  toDevice' = toDevice \/ (conn = "up" /\ toDevice' = Append(toDevice, k))
      BY <3>1 DEF Deliver, Current
    <3>2. CASE ServerBroadcasts \/ ServerStops
      BY <3>1, <3>2 DEF ServerBroadcasts, ServerStops, ToDevice
    <3>3. CASE ServerReads
      <4>1. Head(toServer) \in ToServer
        BY <3>3, TailType DEF ServerReads, Types, Packets
      <4>2. Deliver("command", "synack") \/ toDevice' = toDevice
        BY <3>3, <4>1 DEF ServerReads, ToServer
      <4>3. QED
        BY <3>1, <4>2 DEF ToDevice
    <3>4. QED
      BY <1>16, <3>2, <3>3
  <2>3. \A k \in ToDevice : /\ Append(toDevice, k) # <<>>
                            /\ In("pingresp", toDevice) => In("pingresp", Append(toDevice, k))
    BY <1>c
  <2>4. /\ In("pingresp", toDevice) => In("pingresp", toDevice')
        /\ toDevice # <<>> => toDevice' # <<>>
        /\ conn = "up" \/ toDevice' = toDevice
    BY <2>2, <2>3
  <2>5. QED
    BY <2>1, <2>4 DEF InTime, Stranded
<1>17. CASE Tick
  <2>1. ~Fault("late")
    <3>1. faults \in [Faults -> Nat] /\ "late" \in Faults
      BY DEF Types, Outside, Faults
    <3>2. QED
      BY <3>1 DEF Fault
  <2>2. /\ UNCHANGED <<pc, conn, client, toBroker, toDevice>>
        /\ \/ pc = "loop" /\ toDevice = <<>> /\ toBroker = <<>>
           \/ pc = "connack" /\ toDevice = <<>> /\ toBroker = <<>>
           \/ pc = "rest" /\ conn # "up"
    BY <1>17, <2>1 DEF Tick, Quiet, InTime
  <2>3. ~In("ping", <<>>) /\ ~In("pingresp", <<>>)
    BY FollowedEmpty
  <2>4. QED
    BY <2>2, <2>3 DEF InTime, Stranded
<1>18. CASE UNCHANGED vars
  BY <1>2, <1>18 DEF vars
<1>19. QED
  BY <1>a, <1>3, <1>4, <1>5, <1>6, <1>7, <1>8, <1>9, <1>10, <1>11, <1>12, <1>13, <1>14,
     <1>15, <1>16, <1>17, <1>18
  DEF Next, MqttLoop, ClientLoop, Server

\* As long as loop() has not been late, the keep-alive gives up only a connection that is
\* dead, and nothing that stop() leaves in _buffer keeps the client connected, whatever
\* else fails and however often.
THEOREM KeepAliveInTime ==
  ASSUME \A budget \in Budgets : budget["late"] <= 1
  PROVE  Spec => KeptInTime
<1>1. Init => TimeInv
  BY DEF Init, TimeInv, InTime, Stranded
<1>2. ASSUME Types, FetchedInv, StrandInv, TimeInv, [Next]_vars
      PROVE  /\ TimeInv'
             /\ [KeepAliveFails /\ faults["late"] > 0 => conn = "silent" /\ ~Stranded']_vars
  <2>1. /\ faults["late"] \in Nat /\ faults'["late"] \in Nat
        /\ faults'["late"] <= faults["late"] /\ faults["late"] <= 1
    BY <1>2, LateLeft DEF TimeInv
  <2>2. faults'["late"] = 1 => faults["late"] = 1 /\ InTime
    BY <1>2, <2>1 DEF TimeInv
  <2>3. TimeInv'
    BY <1>2, <2>1, <2>2, StepInTime DEF TimeInv
  <2>4. KeepAliveFails /\ faults["late"] > 0 => conn = "silent" /\ ~Stranded'
    <3> SUFFICES ASSUME KeepAliveFails, faults["late"] > 0
                 PROVE  conn = "silent" /\ ~Stranded'
      OBVIOUS
    <3>1. faults' = faults
      BY DEF KeepAliveFails
    <3>2. faults["late"] = 1 /\ faults'["late"] = 1
      BY <2>1, <3>1
    <3>3. InTime' /\ conn = "silent"
      BY <1>2, <2>2, <3>2, StepInTime
    <3>4. QED
      BY <3>3 DEF InTime
  <2>5. QED
    BY <2>3, <2>4
<1>3. QED
  BY TypesAlways, StrandAlways, <1>1, <1>2, PTL DEF Spec, KeptInTime
=============================================================================
