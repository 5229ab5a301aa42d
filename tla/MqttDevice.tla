----------------------------- MODULE MqttDevice -----------------------------
(***************************************************************************)
(* A mask device on its MQTT broker: mqttLoop with PubSubClient below it,  *)
(* and the exchange SYN, SYNACK, ACK by which the device server learns of  *)
(* the device.  Device, broker and server fail independently.              *)
(*                                                                         *)
(* TCPClient and the CC3000 below it are a queue each way.  Left out: what *)
(* the messages of the components say, SUBACK, setup and log topics.       *)
(* Time passes in units that are just longer than MQTT_KEEPALIVE, 5 s.      *)
(***************************************************************************)
EXTENDS Naturals, Sequences

CONSTANTS
  Budgets,     \* bound: how often each kind of fault may happen, one choice for a run
  Truncating   \* a connection may be lost in the middle of a packet

Faults == {"broker", "server", "silent", "close", "refused", "late", "half",
           "button"}

ASSUME BoundAssumption == Budgets \subseteq [Faults -> Nat] /\ Truncating \in BOOLEAN

MaxSilence == 4   \* bound: of silence, more than DeadNoticed allows

VARIABLES
  pc,       \* call: mqttSetup or a button calls mqttConnect; loop; read, rest: PubSubClient::loop; timer: myMqttTimer.run;
            \* connack: PubSubClient::connect; tail: the rest of mqttLoop
  conn,     \* the socket: none, up, silent: nothing gets through, closed by the broker
  inAge, outAge,      \* 1: lastInActivity, lastOutActivity is longer ago than MQTT_KEEPALIVE
  pingOutstanding,
  fetched,  \* how many packets of toDevice are in TCPClient's _buffer
  timerEnabled, due,  \* the timer of mqttConnect; it has to fire
  caller,   \* where mqttConnect returns to: loop, tail
  brokerConnected, isConnected,  \* BROKER_CONNECTED; IS_CONNECTED and SERVER_CONNECTED
  passed,   \* mqttLoop has come round since the last tick
  toBroker, toDevice, \* packets under way
  session, subs,      \* the broker has one for this device; its subscriptions
  server, known,      \* down, subscribed, up; what it knows of the device: no, syn, yes
  toServer,           \* messages under way
  faults, silence     \* still to come; history: units that a dead connection is taken for live

ages   == <<inAge, outAge>>
client == <<pingOutstanding, fetched>>
timer  == <<timerEnabled, due, caller>>
flags  == <<brokerConnected, isConnected>>
broker == <<session, subs>>
world  == <<server, known, toServer>>
bounds == <<faults, silence>>
vars   == <<pc, conn, ages, client, timer, flags, passed, toBroker, toDevice,
            broker, world, bounds>>

Fault(k) == faults[k] > 0 /\ faults' = [faults EXCEPT ![k] = @ - 1]

\* mqttSetup has set the timer and calls mqttConnect.
Init ==
  /\ pc = "call" /\ conn = "none" /\ inAge = 0 /\ outAge = 0
  /\ pingOutstanding = FALSE /\ fetched = 0
  /\ timerEnabled = TRUE /\ due = FALSE /\ caller = "loop"
  /\ brokerConnected = FALSE /\ isConnected = FALSE /\ passed = FALSE
  /\ toBroker = <<>> /\ toDevice = <<>> /\ session = FALSE /\ subs = {}
  /\ server \in {"down", "up"} /\ known = "no" /\ toServer = <<>>
  /\ faults \in Budgets /\ silence = 0

-----------------------------------------------------------------------------
(* TCPClient and PubSubClient *)

\* What is left in a closed connection, or in _buffer without one, may still be read.
Open(packets) == conn \in {"up", "silent"} \/ packets # <<>>

Connected == Open(toDevice)

\* connected() closes the device's side of a connection that is over.
Checked(packets) == IF Open(packets) THEN conn ELSE "none"

Write(kinds) ==
  /\ toBroker' = IF conn = "up" THEN toBroker \o kinds ELSE toBroker
  /\ outAge' = 0

\* A recv of available takes what has come, as far as there is room.
Fetch(left) == fetched' \in (IF fetched = 0 THEN 0 ELSE fetched - 1) .. Len(left)

\* The socket is closed, _buffer is not flushed; connected() has filled it from a socket
\* that the broker has closed.
Stop ==
  LET n == IF conn = "closed" /\ fetched = 0 THEN Len(toDevice) ELSE fetched
  IN  /\ conn' = "none" /\ toBroker' = <<>>
      /\ toDevice' = SubSeq(toDevice, 1, n) /\ fetched' = n
      /\ silence' = IF n = 0 THEN 0 ELSE silence

\* The connection is given up, but a packet in _buffer keeps the client connected.
Stranded == conn = "none" /\ toDevice # <<>>

Expired == 1 \in {inAge, outAge}

\* Nothing would change in another pass.
Quiet ==
  /\ passed /\ (toDevice = <<>> \/ Stranded) /\ (conn = "closed" => ~brokerConnected)

NotConnected ==
  /\ pc = "loop" /\ ~Quiet /\ ~Connected /\ pc' = "timer" /\ conn' = "none"
  /\ UNCHANGED <<ages, client, timer, flags, passed, toBroker, toDevice, broker,
                 world, bounds>>

KeepAliveFails ==
  /\ pc = "loop" /\ ~Quiet /\ Connected /\ Expired /\ pingOutstanding
  /\ pc' = "timer" /\ Stop
  /\ UNCHANGED <<ages, pingOutstanding, timer, flags, passed, broker, world, faults>>

\* Mutant: pingOutstanding is not set.
BugPing ==
  /\ pc = "loop" /\ ~Quiet /\ Connected /\ Expired /\ ~pingOutstanding
  /\ pc' = "read" /\ Write(<<"ping">>) /\ inAge' = 0
  /\ UNCHANGED <<conn, client, timer, flags, passed, toDevice, broker, world, bounds>>

Ping ==
  /\ pc = "loop" /\ ~Quiet /\ Connected /\ Expired /\ ~pingOutstanding
  /\ pc' = "read" /\ Write(<<"ping">>) /\ inAge' = 0 /\ pingOutstanding' = TRUE
  /\ UNCHANGED <<conn, fetched, timer, flags, passed, toDevice, broker, world, bounds>>

StillAlive ==
  /\ pc = "loop" /\ ~Quiet /\ Connected /\ ~Expired /\ pc' = "read"
  /\ UNCHANGED <<conn, ages, client, timer, flags, passed, toBroker, toDevice,
                 broker, world, bounds>>

NothingToRead ==
  /\ pc = "read" /\ toDevice = <<>> /\ pc' = "timer"
  /\ UNCHANGED <<conn, ages, client, timer, flags, passed, toBroker, toDevice,
                 broker, world, bounds>>

\* readByte waits for the rest of a packet.
ReadHalf ==
  /\ pc = "read" /\ toDevice # <<>> /\ conn = "up" /\ Fault("half") /\ pc' = "rest"
  /\ UNCHANGED <<conn, ages, client, timer, flags, passed, toBroker, toDevice,
                 broker, world, silence>>

\* mqttDefaultMessageHandler
DefaultMessageHandler(kind) ==
  /\ CASE kind = "connect" -> Write(<<"SYN">>)
       [] kind = "synack"  -> Write(<<"ACK">>)
       [] OTHER            -> UNCHANGED <<toBroker, outAge>>
  /\ isConnected' = (kind = "synack" \/ (isConnected /\ kind # "disconnect"))

\* Mutant: the answer to a ping is not noted.
BugPong ==
  /\ toDevice # <<>> /\ (pc = "read" \/ (pc = "rest" /\ conn = "up"))
  /\ pc' = "timer" /\ inAge' = 0 /\ toDevice' = Tail(toDevice) /\ Fetch(Tail(toDevice))
  /\ LET kind == Head(toDevice)
     IN  /\ DefaultMessageHandler(kind)
         /\ UNCHANGED pingOutstanding
         /\ conn' = IF kind \in {"connect", "synack"} THEN Checked(Tail(toDevice)) ELSE conn
  /\ UNCHANGED <<timer, brokerConnected, passed, broker, world, bounds>>

ReadPacket ==
  /\ toDevice # <<>> /\ (pc = "read" \/ (pc = "rest" /\ conn = "up"))
  /\ pc' = "timer" /\ inAge' = 0 /\ toDevice' = Tail(toDevice) /\ Fetch(Tail(toDevice))
  /\ LET kind == Head(toDevice)
     IN  /\ DefaultMessageHandler(kind)
         /\ pingOutstanding' = (pingOutstanding /\ kind # "pingresp")
         /\ conn' = IF kind \in {"connect", "synack"} THEN Checked(Tail(toDevice)) ELSE conn
  /\ UNCHANGED <<timer, brokerConnected, passed, broker, world, bounds>>

-----------------------------------------------------------------------------
(* mqttConnect and the tail of mqttLoop *)

TimerRests ==
  /\ pc = "timer" /\ ~(timerEnabled /\ due) /\ pc' = "tail"
  /\ UNCHANGED <<conn, ages, client, timer, flags, passed, toBroker, toDevice,
                 broker, world, bounds>>

\* Its 2 s are less than a unit: it fires at the latest when due.
TimerFires ==
  pc = "timer" /\ timerEnabled /\ due' = FALSE /\ caller' = "tail" /\ UNCHANGED timerEnabled

Called == pc = "call" /\ caller' = "loop" /\ UNCHANGED <<timerEnabled, due>>

\* onLedBtnPress, in loop()
Button ==
  /\ pc = "loop" /\ ~isConnected /\ Fault("button") /\ pc' = "call"
  /\ UNCHANGED <<conn, ages, client, timer, flags, passed, toBroker, toDevice, broker,
                 world, silence>>

AlreadyConnected ==
  /\ TimerFires \/ Called
  /\ Connected /\ pc' = caller'
  /\ UNCHANGED <<conn, ages, client, flags, passed, toBroker, toDevice, broker,
                 world, bounds>>

Connect ==
  /\ TimerFires \/ Called
  /\ ~Connected /\ pc' = "connack" /\ conn' = "up"
  /\ toBroker' = <<"CONNECT">> /\ toDevice' = <<>> /\ inAge' = 0 /\ outAge' = 0
  /\ fetched' = 0
  /\ UNCHANGED <<pingOutstanding, flags, passed, broker, world, bounds>>

ConnectRefused ==
  /\ TimerFires \/ Called
  /\ ~Connected /\ Fault("refused") /\ pc' = caller' /\ conn' = "none"
  /\ UNCHANGED <<ages, client, flags, passed, toBroker, toDevice, broker, world,
                 silence>>

\* Mutant: the broadcasts of the server are not subscribed to.
BugSubscriptions == <<"command">>

Subscriptions == <<"command", "all">>

Connack ==
  /\ pc = "connack" /\ toDevice # <<>>
  /\ toDevice' = Tail(toDevice) /\ Fetch(Tail(toDevice))
  /\ inAge' = 0 /\ pingOutstanding' = FALSE
  /\ Write(Subscriptions) /\ pc' = caller
  /\ UNCHANGED <<conn, timer, flags, passed, broker, world, bounds>>

ConnackTimeout ==
  /\ pc = "connack" /\ toDevice = <<>> /\ inAge = 1 /\ pc' = caller /\ Stop
  /\ UNCHANGED <<ages, pingOutstanding, timer, flags, passed, broker, world, faults>>

\* Mutant: the timer goes on.
BugTailConnected ==
  /\ pc = "tail" /\ Connected /\ brokerConnected' = TRUE
  /\ IF brokerConnected THEN UNCHANGED <<toBroker, outAge>> ELSE Write(<<"SYN">>)
  /\ pc' = "loop" /\ passed' = TRUE
  /\ UNCHANGED <<conn, inAge, client, timer, isConnected, toDevice, broker,
                 world, bounds>>

\* Mutant: a device that takes itself for connected sends no SYN.
BugSyn ==
  /\ pc = "tail" /\ Connected /\ timerEnabled' = FALSE /\ brokerConnected' = TRUE
  /\ IF brokerConnected \/ isConnected THEN UNCHANGED <<toBroker, outAge>>
                                      ELSE Write(<<"SYN">>)
  /\ pc' = "loop" /\ passed' = TRUE
  /\ UNCHANGED <<conn, inAge, client, due, caller, isConnected, toDevice, broker,
                 world, bounds>>

TailConnected ==
  /\ pc = "tail" /\ Connected /\ timerEnabled' = FALSE /\ brokerConnected' = TRUE
  /\ IF brokerConnected THEN UNCHANGED <<toBroker, outAge>> ELSE Write(<<"SYN">>)
  /\ pc' = "loop" /\ passed' = TRUE
  /\ UNCHANGED <<conn, inAge, client, due, caller, isConnected, toDevice, broker,
                 world, bounds>>

TailDisconnected ==
  /\ pc = "tail" /\ ~Connected /\ timerEnabled' = TRUE /\ brokerConnected' = FALSE
  /\ conn' = "none" /\ pc' = "loop" /\ passed' = TRUE
  /\ UNCHANGED <<ages, client, due, caller, isConnected, toBroker, toDevice, broker,
                 world, bounds>>

-----------------------------------------------------------------------------
(* The broker: forwards to the server, and to the device what it subscribes to *)

Forward(kind) == toServer' = IF server = "down" THEN toServer ELSE Append(toServer, kind)

\* Until it has read CONNECT its session is that of the connection before.
Current == session /\ conn = "up" /\ "CONNECT" \notin {toBroker[i] : i \in DOMAIN toBroker}

Deliver(topic, kind) ==
  toDevice' = IF Current /\ topic \in subs THEN Append(toDevice, kind) ELSE toDevice

BrokerReads ==
  /\ conn = "up" /\ toBroker # <<>> /\ toBroker' = Tail(toBroker)
  /\ LET kind == Head(toBroker)
     IN  /\ toDevice' = CASE kind = "CONNECT" -> Append(toDevice, "connack")
                          [] kind = "ping"    -> Append(toDevice, "pingresp")
                          [] OTHER            -> toDevice
         /\ session' = TRUE
         /\ subs' = CASE kind = "CONNECT"                -> {}
                      [] kind \in {"command", "all"} -> subs \cup {kind}
                      [] OTHER                        -> subs
         /\ IF kind \in {"SYN", "ACK"} THEN Forward(kind)
            ELSE IF kind = "CONNECT" /\ session THEN Forward("will")
            ELSE UNCHANGED toServer
  /\ UNCHANGED <<pc, conn, ages, client, timer, flags, passed, server, known, bounds>>

\* It has not heard of the device for too long.
BrokerDrops ==
  /\ session /\ ~Current /\ session' = FALSE /\ subs' = {} /\ Forward("will")
  /\ UNCHANGED <<pc, conn, ages, client, timer, flags, passed, toBroker, toDevice,
                 server, known, bounds>>

MayLose == conn = "up" /\ (pc = "rest" => Truncating)

\* The server is cut off as well, and starts again.
BrokerRestarts ==
  /\ Fault("broker") /\ (conn = "up" => MayLose)
  /\ conn' = IF conn = "up" THEN "closed" ELSE conn
  /\ session' = FALSE /\ subs' = {} /\ toBroker' = <<>>
  /\ server' = "down" /\ known' = "no" /\ toServer' = <<>>
  /\ UNCHANGED <<pc, ages, client, timer, flags, passed, toDevice, silence>>

LinkFails ==
  /\ MayLose /\ toBroker' = <<>>
  /\ \/ conn' = "closed" /\ Fault("close")
     \/ conn' = "silent" /\ Fault("silent")
  /\ UNCHANGED <<pc, ages, client, timer, flags, passed, toDevice, broker, world,
                 silence>>

-----------------------------------------------------------------------------
(* The server, as far as the device depends on it, and time *)

ServerStarts ==
  /\ server = "down" /\ server' = "subscribed"
  /\ UNCHANGED <<pc, conn, ages, client, timer, flags, passed, toBroker, toDevice,
                 broker, known, toServer, bounds>>

ServerBroadcasts ==
  /\ server = "subscribed" /\ server' = "up" /\ Deliver("all", "connect")
  /\ UNCHANGED <<pc, conn, ages, client, timer, flags, passed, toBroker, broker,
                 known, toServer, bounds>>

ServerReads ==
  /\ toServer # <<>> /\ toServer' = Tail(toServer)
  /\ CASE Head(toServer) = "SYN"  -> known' = "syn" /\ Deliver("command", "synack")
       [] Head(toServer) = "ACK"  -> known' = (IF known = "syn" THEN "yes" ELSE known)
                                     /\ UNCHANGED toDevice
       [] Head(toServer) = "will" -> known' = "no" /\ UNCHANGED toDevice
  /\ UNCHANGED <<pc, conn, ages, client, timer, flags, passed, toBroker, broker,
                 server, bounds>>

\* It says so, or crashes.
ServerStops ==
  /\ server = "up" /\ Fault("server")
  /\ server' = "down" /\ known' = "no" /\ toServer' = <<>>
  /\ Deliver("all", "disconnect") \/ UNCHANGED toDevice
  /\ UNCHANGED <<pc, conn, ages, client, timer, flags, passed, toBroker, broker,
                 silence>>

\* MQTT_KEEPALIVE goes by: between passes with nothing to do or, once, although there is
\* something to read, because loop() is late; in PubSubClient::connect; or in readByte.
Tick ==
  /\ \/ pc = "loop" /\ Quiet /\ toBroker = <<>> /\ UNCHANGED faults
     \/ pc = "loop" /\ ~Quiet /\ Fault("late")
     \/ pc = "connack" /\ inAge = 0 /\ toDevice = <<>> /\ toBroker = <<>>
        /\ UNCHANGED faults
     \/ pc = "rest" /\ conn # "up" /\ UNCHANGED faults
  /\ inAge' = 1 /\ outAge' = 1
  /\ silence' = (IF (conn = "silent" \/ Stranded) /\ silence < MaxSilence THEN silence + 1 ELSE silence)
  /\ due' = TRUE /\ passed' = FALSE
  /\ UNCHANGED <<pc, conn, client, timerEnabled, caller, flags, toBroker, toDevice, broker,
                 world>>

-----------------------------------------------------------------------------
ClientLoop ==
  \/ NotConnected \/ KeepAliveFails \/ Ping \/ StillAlive
  \/ NothingToRead \/ ReadHalf \/ ReadPacket

MqttLoop ==
  \/ ClientLoop \/ TimerRests \/ AlreadyConnected \/ Connect \/ ConnectRefused
  \/ Connack \/ ConnackTimeout \/ TailConnected \/ TailDisconnected

Server == ServerStarts \/ ServerBroadcasts \/ ServerReads

Next ==
  \/ MqttLoop \/ Button \/ BrokerReads \/ BrokerDrops \/ BrokerRestarts \/ LinkFails
  \/ Server \/ ServerStops \/ Tick

Spec == Init /\ [][Next]_vars

\* loop() calls mqttLoop for ever, broker and server answer, and time goes on.
FairSpec ==
  Spec /\ WF_vars(MqttLoop) /\ WF_vars(BrokerReads) /\ WF_vars(Server) /\ WF_vars(Tick)

-----------------------------------------------------------------------------
(* Properties *)

\* Types; and a device on its broker does not try to connect: each connection begins with a pass
\* of mqttLoop that finds BROKER_CONNECTED clear, and so with a SYN.
TypeOK ==
  /\ caller \in {"loop", "tail"} /\ pc \in {"call", "loop", "read", "rest", "timer", "connack", "tail"}
  /\ conn \in {"none", "up", "silent", "closed"}
  /\ {inAge, outAge} \subseteq {0, 1} /\ fetched \in 0 .. Len(toDevice)
  /\ <<pingOutstanding, timerEnabled, due, brokerConnected, isConnected, passed, session>>
       \in [1 .. 7 -> BOOLEAN]
  /\ toBroker \in Seq({"CONNECT", "command", "all", "SYN", "ACK", "ping"})
  /\ toDevice \in Seq({"connack", "pingresp", "connect", "disconnect", "synack"})
  /\ subs \subseteq {"command", "all"}
  /\ server \in {"down", "subscribed", "up"} /\ known \in {"no", "syn", "yes"}
  /\ toServer \in Seq({"SYN", "ACK", "will"})
  /\ faults \in [Faults -> Nat] /\ silence \in 0 .. MaxSilence
  /\ brokerConnected => ~timerEnabled

\* MQTT_KEEPALIVE: a connection that has died without a word is given up after two units,
\* and that by which loop() is late, whatever was under way, or leaves the device stranded.
DeadNoticed == Stranded \/ silence <= 3

\* As long as no loop() has been late, the keep-alive gives up none but a dead connection,
\* and gives it up for good: stop() leaves nothing in _buffer.
KeptInTime ==
  [][KeepAliveFails /\ faults["late"] > 0 => conn = "silent" /\ ~Stranded']_vars

\* "the device and the server are both alive": when nothing is under way between a
\* device and a server on the same broker, they agree on whether the device is there.
Agreed ==
  pc = "loop" /\ Quiet /\ Current /\ server = "up" /\ toBroker \o toServer = <<>> =>
    (isConnected <=> known = "yes")

\* However often broker, server and connection fail and in whatever order they come
\* back, in the end the server knows the device and the device knows that it does, unless
\* it is stranded.
EndsKnown == <>[](isConnected /\ known = "yes") \/ <>Stranded

\* A late loop() does strand it, once stop() meets a packet that one recv took with another,
\* and for ever.
NeverStranded == ~Stranded
StaysStranded == [][Stranded => Stranded']_vars

\* "we still don't know if the device server is ready": a device without a broker does
\* not take itself for connected.
NotShownWithoutBroker == pc = "loop" /\ ~brokerConnected => ~isConnected

\* mqttLoop returns.
LoopReturns == []<>(pc = "loop")

\* A connection that works is kept, however late loop() is.
LiveKept == [][KeepAliveFails => conn = "silent"]_vars
=============================================================================
