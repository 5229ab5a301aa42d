---------------------------- MODULE SparkSession ----------------------------
(***************************************************************************)
(* A Core's sessions with the cloud, one after the other in the same       *)
(* SparkProtocol object: the handshake, event_loop with its ping, the      *)
(* messages the cloud sends, and what Spark_Handshake and user code send.  *)
(*                                                                         *)
(* The socket and the decision to connect belong to WlanSupervisor, which  *)
(* knows of a session only that it begins and may end; UPDATE_BEGIN, CHUNK *)
(* and UPDATE_DONE to OtaUpdate; EVENT and the limit on published events   *)
(* to EventDispatch.  Time passes in units of 5 s.                         *)
(***************************************************************************)
EXTENDS Naturals, Sequences

CONSTANTS
  MaxFault,    \* bound: how often each kind of fault happens
  MaxRequest,  \* bound: requests of the cloud
  MaxPublish   \* bound: events user code publishes

Faults == {"break", "silent", "slow", "send", "key", "split"}

ASSUME BoundAssumption ==
  /\ MaxFault \in [Faults -> Nat]
  /\ MaxRequest \in Nat /\ MaxPublish \in Nat

PingAfter  == 3   \* 15 s
AckWithin  == 2   \* 10 s
BlockUpTo  == 4   \* 20 s
MaxSilence == 8   \* bound: of silence, more than DeadNoticed allows

VARIABLES
  main,       \* down; nonce, key: the handshake; announce, refused: its end in
              \* Spark_Handshake; loop; half: of a length has come; body: the rest of
              \* a message; call
  chained,    \* key and iv_send are what the cloud decrypts the next message with;
              \* every message is chained to the one before it
  expecting,  \* expecting_ping_ack
  since,      \* units since last_message_millis
  waited,     \* units spent in blocking_receive
  polled,     \* event_loop has been called in this unit
  misframed,  \* what event_loop takes for the length of a message is not
  link,       \* up, silent: nothing gets through, closed
  toCloud, toCore,  \* messages under way
  greeted,    \* the cloud has got a hello
  faults, requests, published,  \* so far
  unanswered, \* history: a ping of this session has been followed by nothing
  silence     \* history: units since a message began to come

ping    == <<expecting, since>>
network == <<link, toCloud, toCore>>
history == <<unanswered, silence>>
bounds  == <<faults, requests, published>>
vars    == <<main, chained, ping, waited, polled, misframed, network, greeted, bounds,
             history>>

Fault(k) == faults[k] < MaxFault[k] /\ faults' = [faults EXCEPT ![k] = @ + 1]

Plain(k) == [kind |-> k, clear |-> TRUE]

Init ==
  /\ main = "down" /\ chained = FALSE
  /\ expecting = FALSE /\ since = 0 /\ waited = 0
  /\ polled = FALSE /\ misframed = FALSE
  /\ link = "closed" /\ toCloud = <<>> /\ toCore = <<>>
  /\ greeted = FALSE /\ faults = [k \in Faults |-> 0] /\ requests = 0 /\ published = 0
  /\ unanswered = FALSE /\ silence = 0

-----------------------------------------------------------------------------
(* encrypt, blocking_send and Spark_Send *)

Encrypted(kinds, clear) == [i \in DOMAIN kinds |-> [kind |-> kinds[i], clear |-> clear]]

\* What is encrypted on a dead connection is missing in the chain.
Send(kinds, inChain) ==
  /\ toCloud' = IF link = "up" THEN toCloud \o Encrypted(kinds, inChain) ELSE toCloud
  /\ chained' = (inChain /\ link = "up")

\* The CC3000 reports that it could not transmit.
SendLost(kinds) ==
  /\ link = "up" /\ Fault("send")
  /\ toCloud' = toCloud \o Encrypted(Tail(kinds), FALSE) /\ chained' = FALSE

\* The result of blocking_send is ignored.
SendAnyway(kinds, inChain) == (Send(kinds, inChain) /\ UNCHANGED faults) \/ SendLost(kinds)

\* What an interrupted session leaves behind.
Ends == main' = "down" /\ unanswered' = FALSE

\* A failed blocking_send ends the session.
SendOrEnd(kinds, next) ==
  \/ /\ Send(kinds, chained) /\ UNCHANGED faults
     /\ IF link = "closed" THEN Ends
                           ELSE main' = next /\ UNCHANGED unanswered
  \/ SendLost(kinds) /\ Ends

-----------------------------------------------------------------------------
(* The handshake: SparkProtocol::handshake in Spark_Handshake *)

\* WlanSupervisor has a socket again; the cloud begins with a nonce.
Connect ==
  /\ main = "down" /\ main' = "nonce"
  /\ link' = "up" /\ toCloud' = <<>> /\ toCore' = <<Plain("nonce")>>
  /\ waited' = 0 /\ silence' = 0 /\ misframed' = FALSE
  /\ greeted' = FALSE
  /\ UNCHANGED <<chained, ping, polled, bounds, unanswered>>

ReceiveNonce ==
  /\ main = "nonce" /\ toCore # <<>> /\ main' = "key"
  /\ toCore' = Tail(toCore)
  /\ toCloud' = IF link = "up" THEN Append(toCloud, Plain("id")) ELSE toCloud
  /\ waited' = 0 /\ silence' = 0
  /\ UNCHANGED <<chained, ping, polled, misframed, link, greeted, bounds, unanswered>>

\* Mutant: set_key leaves iv_send as it was.
BugSetKey == SendAnyway(<<"hello">>, chained)

\* set_key begins a new chain, with the hello that follows it.
SetKey == SendAnyway(<<"hello">>, TRUE)

ReceiveKey ==
  /\ main = "key" /\ toCore # <<>>
  /\ toCore' = Tail(toCore) /\ silence' = 0
  /\ \/ main' = "announce" /\ SetKey
     \/ main' = "refused" /\ Fault("key") /\ UNCHANGED <<chained, toCloud>>
  /\ UNCHANGED <<ping, waited, polled, misframed, link, greeted, requests, published,
                 unanswered>>

HandshakeBroken ==
  /\ main \in {"nonce", "key"} /\ main' = "refused"
  /\ link = "closed" \/ waited > BlockUpTo
  /\ UNCHANGED <<chained, ping, waited, polled, misframed, network, greeted, bounds, history>>

\* Spark_Handshake goes on to ask for the time and to publish the version of the
\* CC3000's patches, whether the handshake has succeeded or not.
Announce ==
  /\ main \in {"announce", "refused"}
  /\ SendAnyway(<<"time", "event">>, chained)
  /\ IF main = "announce"
       THEN main' = "loop" /\ UNCHANGED unanswered
       ELSE Ends
  /\ UNCHANGED <<ping, waited, polled, misframed, link, toCore, greeted,
                 requests, published, silence>>

-----------------------------------------------------------------------------
(* event_loop *)

\* Two bytes have come: whatever they begin, the cloud is alive.
Received ==
  /\ since' = 0 /\ expecting' = FALSE /\ unanswered' = FALSE /\ silence' = 0

ReceiveLength ==
  /\ main = "loop" /\ link # "closed" /\ toCore # <<>> /\ ~misframed
  /\ main' = "body" /\ waited' = 0 /\ Received
  /\ UNCHANGED <<chained, polled, misframed, network, greeted, bounds>>

\* Only one of the two bytes has come.  It is dropped, and event_loop goes on as if
\* nothing had come.
ReceiveHalfLength ==
  /\ main = "loop" /\ link # "closed" /\ toCore # <<>> /\ ~misframed
  /\ main' = "half" /\ Fault("split") /\ misframed' = TRUE
  /\ UNCHANGED <<chained, ping, waited, polled, network, greeted, requests, published,
                 history>>

\* Some two bytes are taken for a length: it is too large, or so many bytes are read
\* that mean nothing.
ReceiveGarbage ==
  /\ main = "loop" /\ link # "closed" /\ toCore # <<>> /\ misframed
  /\ since' = 0 /\ expecting' = FALSE /\ silence' = 0 /\ unanswered' = FALSE
  /\ \/ main' = "down" /\ UNCHANGED toCore
     \/ \E n \in 1 .. Len(toCore) : toCore' = SubSeq(toCore, n + 1, Len(toCore))
        /\ UNCHANGED main
  /\ UNCHANGED <<chained, waited, polled, misframed, link, toCloud, greeted, bounds>>

\* Spark_Receive looks at the state of the socket first.
ReceiveFails ==
  /\ main = "loop" /\ link = "closed" /\ Ends
  /\ UNCHANGED <<chained, ping, waited, polled, misframed, network, greeted, bounds, silence>>

Idle == main = "loop" /\ link # "closed" /\ toCore = <<>>

LengthMissing == main = "half" \/ Idle

Poll ==
  /\ main = "half" \/ (Idle /\ ~polled)
  /\ since <= (IF expecting THEN AckWithin ELSE PingAfter)
  /\ main' = "loop" /\ polled' = TRUE
  /\ UNCHANGED <<chained, ping, waited, misframed, network, greeted, bounds, history>>

\* Mutant: expecting_ping_ack is not set.
BugPing ==
  /\ LengthMissing /\ ~expecting /\ since > PingAfter /\ main' = "loop"
  /\ SendAnyway(<<"ping">>, chained)
  /\ since' = 0 /\ unanswered' = TRUE
  /\ UNCHANGED <<expecting, waited, polled, misframed, link, toCore, greeted,
                 requests, published, silence>>

Ping ==
  /\ LengthMissing /\ ~expecting /\ since > PingAfter /\ main' = "loop"
  /\ SendAnyway(<<"ping">>, chained)
  /\ expecting' = TRUE /\ since' = 0 /\ unanswered' = TRUE
  /\ UNCHANGED <<waited, polled, misframed, link, toCore, greeted,
                 requests, published, silence>>

\* Mutant: the Core forgets the ping and goes on.
BugPingTimeout ==
  /\ LengthMissing /\ expecting /\ since > AckWithin /\ main' = "loop"
  /\ expecting' = FALSE /\ since' = 0
  /\ UNCHANGED <<chained, waited, polled, misframed, network, greeted, bounds, history>>

PingTimeout ==
  /\ LengthMissing /\ expecting /\ since > AckWithin
  /\ expecting' = FALSE /\ since' = 0 /\ Ends
  /\ UNCHANGED <<chained, waited, polled, misframed, network, greeted, bounds, silence>>

-----------------------------------------------------------------------------
(* handle_received_message, from blocking_receive on *)

BodyFails ==
  /\ main = "body" /\ Ends
  /\ link = "closed" \/ waited > BlockUpTo
  /\ UNCHANGED <<chained, ping, waited, polled, misframed, network, greeted, bounds, silence>>

Decrypt(kinds) ==
  /\ main = "body" /\ link # "closed" /\ toCore # <<>>
  /\ Head(toCore).kind \in kinds
  /\ toCore' = Tail(toCore)

\* HELLO, TIME and acknowledgements.
ReceiveNotice ==
  /\ Decrypt({"hello", "time", "ack"}) /\ main' = "loop"
  /\ UNCHANGED <<chained, ping, waited, polled, misframed, link, toCloud, greeted,
                 bounds, history>>

\* PING, DESCRIBE, VARIABLE_REQUEST, SIGNAL_START and SIGNAL_STOP: one answer.
ReceiveRequest ==
  /\ Decrypt({"ping"}) /\ SendOrEnd(<<"ack">>, "loop")
  /\ UNCHANGED <<ping, waited, polled, misframed, link, greeted, requests, published,
                 silence>>

ReceiveCall ==
  /\ Decrypt({"call"}) /\ SendOrEnd(<<"ack">>, "call")
  /\ UNCHANGED <<ping, waited, polled, misframed, link, greeted, requests, published,
                 silence>>

\* descriptor.call_function has run.
CallReturns ==
  /\ main = "call" /\ SendOrEnd(<<"return">>, "loop")
  /\ UNCHANGED <<ping, waited, polled, misframed, link, toCore, greeted,
                 requests, published, silence>>

\* Spark.publish in user code, in or out of a session, or in the function called.
Publish ==
  /\ main \in {"down", "loop", "call"} /\ published < MaxPublish
  /\ published' = published + 1
  /\ SendAnyway(<<"event">>, chained)
  /\ UNCHANGED <<main, ping, waited, polled, misframed, link, toCore,
                 greeted, requests, history>>

-----------------------------------------------------------------------------
(* The cloud, the network and time *)

CloudSends(kind) == toCore' = Append(toCore, Plain(kind))

\* The cloud makes a key.
CloudGetsId ==
  /\ link = "up" /\ toCloud # <<>> /\ Head(toCloud).kind = "id"
  /\ toCloud' = Tail(toCloud) /\ CloudSends("key") /\ chained' = FALSE
  /\ UNCHANGED <<main, ping, waited, polled, misframed, link, greeted, bounds, history>>

\* The cloud answers, or closes a connection on which it does not understand.
CloudReads ==
  /\ link = "up" /\ toCloud # <<>> /\ Head(toCloud).kind # "id"
  /\ toCloud' = Tail(toCloud)
  /\ LET kind == Head(toCloud).kind
         answer == [hello |-> "hello", time |-> "time", ping |-> "ack"]
     IN  IF ~Head(toCloud).clear THEN link' = "closed" /\ UNCHANGED <<toCore, greeted>>
         ELSE /\ IF kind \in DOMAIN answer THEN CloudSends(answer[kind])
                                           ELSE UNCHANGED toCore
              /\ greeted' = (greeted \/ kind = "hello") /\ UNCHANGED link
  /\ UNCHANGED <<main, chained, ping, waited, polled, misframed, bounds, history>>

CloudAsks ==
  /\ link = "up" /\ greeted /\ requests < MaxRequest
  /\ requests' = requests + 1
  /\ \E kind \in {"ping", "call"} : CloudSends(kind)
  /\ UNCHANGED <<main, chained, ping, waited, polled, misframed, link, toCloud, greeted,
                 faults, published, history>>

\* The connection is closed, or dies without anyone saying so.
LinkFails ==
  /\ link = "up" /\ toCloud' = <<>> /\ toCore' = <<>>
  /\ \/ link' = "closed" /\ Fault("break")
     \/ link' = "silent" /\ Fault("silent")
  /\ UNCHANGED <<main, chained, ping, waited, polled, misframed, greeted, requests, published,
                 history>>

Blocked == main \in {"nonce", "key", "body"} /\ waited <= BlockUpTo

TimePasses ==
  \/ main = "down"
  \/ Idle /\ polled
  \/ Blocked /\ link # "closed" /\ toCore = <<>>

\* Mutant: blocking_receive goes by the time at which the session began.
BugTick ==
  /\ TimePasses
  /\ IF main # "down" /\ link = "up" /\ toCloud # <<>> THEN Fault("slow") ELSE UNCHANGED faults
  /\ since' = IF since > PingAfter THEN since ELSE since + 1
  /\ waited' = waited + 1
  /\ silence' = IF silence < MaxSilence THEN silence + 1 ELSE silence
  /\ polled' = FALSE
  /\ UNCHANGED <<main, chained, expecting, misframed, network, greeted, requests, published,
                 unanswered>>

\* main gets to event_loop, and an answer to its place, in less than a unit.
Tick ==
  /\ TimePasses
  /\ IF main # "down" /\ link = "up" /\ toCloud # <<>> THEN Fault("slow") ELSE UNCHANGED faults
  /\ since' = IF since > PingAfter THEN since ELSE since + 1
  /\ waited' = IF Blocked THEN waited + 1 ELSE waited
  /\ silence' = IF silence < MaxSilence THEN silence + 1 ELSE silence
  /\ polled' = FALSE
  /\ UNCHANGED <<main, chained, expecting, misframed, network, greeted, requests, published,
                 unanswered>>

-----------------------------------------------------------------------------
Handshake == ReceiveNonce \/ ReceiveKey \/ HandshakeBroken \/ Announce

EventLoop ==
  \/ ReceiveLength \/ ReceiveHalfLength \/ ReceiveGarbage \/ ReceiveFails
  \/ Poll \/ Ping \/ PingTimeout

Handler == BodyFails \/ ReceiveNotice \/ ReceiveRequest \/ ReceiveCall \/ CallReturns

Main == Connect \/ Handshake \/ EventLoop \/ Handler

Cloud == CloudGetsId \/ CloudReads

Next == Main \/ Publish \/ Cloud \/ CloudAsks \/ LinkFails \/ Tick

Spec == Init /\ [][Next]_vars

\* The main loop runs, the cloud answers, and time goes on.
FairSpec == Spec /\ WF_vars(Main) /\ WF_vars(Cloud) /\ WF_vars(Tick)

-----------------------------------------------------------------------------
(* Properties *)

Message == [kind : {"nonce", "id", "key", "hello", "time", "event", "ping", "ack",
                    "call", "return"}, clear : BOOLEAN]

TypeOK ==
  /\ main \in {"down", "nonce", "key", "announce", "refused", "loop", "half", "body", "call"}
  /\ <<chained, expecting, polled, misframed, greeted>> \in [1 .. 5 -> BOOLEAN]
  /\ since \in 0 .. PingAfter + 1 /\ waited \in 0 .. BlockUpTo + 1
  /\ link \in {"up", "silent", "closed"}
  /\ toCloud \in Seq(Message) /\ toCore \in Seq(Message)
  /\ faults \in [Faults -> Nat]
  /\ requests \in 0 .. MaxRequest /\ published \in 0 .. MaxPublish
  /\ unanswered \in BOOLEAN /\ silence \in 0 .. MaxSilence

\* As long as no send fails, the cloud can decrypt what a session sends: through
\* failed handshakes, events published without a connection, and one session after
\* another.
InStep ==
  main \in {"announce", "loop", "half", "body", "call"} /\ link = "up" /\ faults["send"] = 0 =>
    chained /\ \A i \in DOMAIN toCloud : toCloud[i].clear

\* "Returns false if there was an error, and we are probably disconnected": a
\* connection that has died without a word is noticed after at most 35 s, or 25 s in
\* the middle of a message.
DeadNoticed ==
  /\ main \in {"loop", "half"} => silence <= PingAfter + AckWithin + 2
  /\ main \in {"nonce", "key", "body"} => silence <= BlockUpTo + 1

\* "still connected": a ping is answered or the session ends, and no session is ever
\* given up without a ping of its own.
LiveKept == [][PingTimeout => unanswered]_vars

\* Whatever fails, and whatever one session leaves to the next, in the end there is a
\* session that lasts, if only by its pings: it may be one that has lost its place in
\* what the cloud sends (AllRead).
EndsInSession == <>[](main \in {"loop", "half", "body", "call"} /\ link = "up")

\* "bail if and only if there was an error": what arrives in a session is read.
AllRead == main = "loop" /\ link = "up" => ~misframed
=============================================================================
