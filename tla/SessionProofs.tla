---------------------------- MODULE SessionProofs ----------------------------
(***************************************************************************)
(* Theorems about SparkSession, for any number of faults, requests and     *)
(* events.                                                                 *)
(***************************************************************************)
EXTENDS SparkSession, SequenceTheorems, TLAPS

-----------------------------------------------------------------------------
(* Messages under way *)

Kinds == {"nonce", "id", "key", "hello", "time", "event", "ping", "ack", "call", "return"}

NoId(s)     == \A i \in DOMAIN s : s[i].kind # "id"
AllClear(s) == \A i \in DOMAIN s : s[i].clear

\* Taking the first message away.
LEMMA TailMessages ==
  ASSUME NEW s \in Seq(Message), s # <<>>
  PROVE  /\ Head(s) \in Message /\ Head(s) = s[1] /\ Tail(s) \in Seq(Message)
         /\ NoId(s) => NoId(Tail(s)) /\ Head(s).kind # "id"
         /\ AllClear(s) => AllClear(Tail(s))
<1>1. /\ Head(s) \in Message /\ Tail(s) \in Seq(Message) /\ Len(Tail(s)) = Len(s) - 1
      /\ \A i \in 1 .. Len(Tail(s)) : Tail(s)[i] = s[i + 1]
  BY HeadTailProperties
<1>2. DOMAIN s = 1 .. Len(s) /\ DOMAIN Tail(s) = 1 .. Len(Tail(s)) /\ Len(s) \in Nat
  BY <1>1, LenProperties
<1>3. 1 \in 1 .. Len(s) /\ Head(s) = s[1]
  BY <1>2, EmptySeq
<1>4. \A i \in 1 .. Len(Tail(s)) : i + 1 \in 1 .. Len(s)
  BY <1>1, <1>2
<1>5. QED
  BY <1>1, <1>2, <1>3, <1>4 DEF NoId, AllClear

\* Sending one more.
LEMMA AppendMessage ==
  ASSUME NEW s \in Seq(Message), NEW kind \in Kinds
  PROVE  /\ Plain(kind) \in Message
         /\ Append(s, Plain(kind)) \in Seq(Message)
  BY AppendProperties DEF Plain, Message, Kinds

LEMMA EncryptedMessages ==
  ASSUME NEW kinds \in Seq(Kinds), NEW clear \in BOOLEAN
  PROVE  /\ Encrypted(kinds, clear) \in Seq(Message)
         /\ (\A i \in DOMAIN kinds : kinds[i] # "id") => NoId(Encrypted(kinds, clear))
         /\ clear => AllClear(Encrypted(kinds, clear))
<1>1. kinds \in [1 .. Len(kinds) -> Kinds] /\ Len(kinds) \in Nat
      /\ DOMAIN kinds = 1 .. Len(kinds)
  BY LenProperties
<1>2. Encrypted(kinds, clear) \in [1 .. Len(kinds) -> Message]
  BY <1>1 DEF Encrypted, Message, Kinds
<1>3. Encrypted(kinds, clear) \in Seq(Message)
  BY <1>1, <1>2, SeqDef
<1>4. QED
  BY <1>1, <1>3 DEF Encrypted, NoId, AllClear

LEMMA ConcatMessages ==
  ASSUME NEW s \in Seq(Message), NEW t \in Seq(Message)
  PROVE  /\ s \o t \in Seq(Message)
         /\ NoId(s) /\ NoId(t) => NoId(s \o t)
         /\ AllClear(s) /\ AllClear(t) => AllClear(s \o t)
<1>1. /\ s \o t \in Seq(Message) /\ Len(s \o t) = Len(s) + Len(t)
      /\ \A i \in 1 .. Len(s) + Len(t) :
           (s \o t)[i] = IF i <= Len(s) THEN s[i] ELSE t[i - Len(s)]
  BY ConcatProperties
<1>2. DOMAIN s = 1 .. Len(s) /\ DOMAIN t = 1 .. Len(t) /\ DOMAIN (s \o t) = 1 .. Len(s \o t)
      /\ Len(s) \in Nat /\ Len(t) \in Nat
  BY <1>1, LenProperties
<1>3. ASSUME NEW i \in DOMAIN (s \o t)
      PROVE  \/ i \in DOMAIN s /\ (s \o t)[i] = s[i]
             \/ i - Len(s) \in DOMAIN t /\ (s \o t)[i] = t[i - Len(s)]
  BY <1>1, <1>2
<1>4. QED
  BY <1>1, <1>3 DEF NoId, AllClear

-----------------------------------------------------------------------------
(* Types *)

\* What every way to send leaves: messages, and a chain that is unbroken if it was
\* and nothing was lost.
Sent(inChain) ==
  /\ toCloud' \in Seq(Message) /\ chained' \in BOOLEAN /\ faults' \in [Faults -> Nat]
  /\ faults'["send"] = 0 => faults["send"] = 0
  /\ NoId(toCloud) => NoId(toCloud')
  /\ inChain /\ link = "up" /\ faults'["send"] = 0 =>
       chained' /\ (AllClear(toCloud) => AllClear(toCloud'))

LEMMA FaultType ==
  ASSUME faults \in [Faults -> Nat], NEW k \in Faults, Fault(k)
  PROVE  /\ faults' \in [Faults -> Nat] /\ faults'[k] # 0
         /\ \A j \in Faults : faults'[j] = 0 => faults[j] = 0
  BY DEF Fault, Faults

LEMMA SendKeeps ==
  ASSUME toCloud \in Seq(Message), faults \in [Faults -> Nat],
         NEW kinds \in Seq(Kinds \ {"id"}), kinds # <<>>, NEW inChain \in BOOLEAN
  PROVE  /\ Send(kinds, inChain) /\ UNCHANGED faults => Sent(inChain)
         /\ SendLost(kinds) => Sent(inChain)
<1>1. /\ kinds \in Seq(Kinds) /\ Tail(kinds) \in Seq(Kinds \ {"id"})
      /\ Tail(kinds) \in Seq(Kinds)
  BY HeadTailProperties, SeqMonotonic, Kinds \ {"id"} \subseteq Kinds
<1>2. /\ \A i \in DOMAIN kinds : kinds[i] # "id"
      /\ \A i \in DOMAIN Tail(kinds) : Tail(kinds)[i] # "id"
  BY <1>1, ElementOfSeq, LenProperties
<1>3. CASE Send(kinds, inChain) /\ UNCHANGED faults
  BY <1>1, <1>2, <1>3, EncryptedMessages, ConcatMessages DEF Send, Sent
<1>4. CASE SendLost(kinds)
  <2>1. Encrypted(Tail(kinds), FALSE) \in Seq(Message) /\ NoId(Encrypted(Tail(kinds), FALSE))
    BY <1>1, <1>2, EncryptedMessages
  <2>2. "send" \in Faults
    BY DEF Faults
  <2>3. QED
    BY <1>4, <2>1, <2>2, FaultType, ConcatMessages DEF SendLost, Sent
<1>5. QED
  BY <1>3, <1>4

\* TypeOK without the sequences.
PlainTypes ==
  /\ main \in {"down", "nonce", "key", "announce", "refused", "loop", "half", "body", "call"}
  /\ expecting \in BOOLEAN /\ polled \in BOOLEAN
  /\ misframed \in BOOLEAN /\ greeted \in BOOLEAN
  /\ since \in 0 .. PingAfter + 1 /\ waited \in 0 .. BlockUpTo + 1
  /\ link \in {"up", "silent", "closed"}
  /\ requests \in 0 .. MaxRequest /\ published \in 0 .. MaxPublish
  /\ unanswered \in BOOLEAN /\ silence \in 0 .. MaxSilence

SentTypes ==
  toCloud \in Seq(Message) /\ chained \in BOOLEAN /\ faults \in [Faults -> Nat]

LEMMA TypeParts == TypeOK <=> PlainTypes /\ SentTypes /\ toCore \in Seq(Message)
  BY DEF TypeOK, PlainTypes, SentTypes

LEMMA TypePartsNext ==
  TypeOK' <=> PlainTypes' /\ SentTypes' /\ toCore' \in Seq(Message)
  BY DEF TypeOK, PlainTypes, SentTypes

Types == PlainTypes /\ SentTypes /\ toCore \in Seq(Message)

\* The kinds that are sent, as sequences.
LEMMA Requests ==
  /\ \A kind \in Kinds \ {"id"} : <<kind>> \in Seq(Kinds \ {"id"}) /\ <<kind>> # <<>>
  /\ <<"time", "event">> \in Seq(Kinds \ {"id"}) /\ <<"time", "event">> # <<>>
  BY DEF Kinds

LEMMA SentIsTyped ==
  ASSUME Types, NEW kinds \in Seq(Kinds \ {"id"}), kinds # <<>>, NEW inChain \in BOOLEAN
  PROVE  /\ SendAnyway(kinds, inChain) => SentTypes' /\ Sent(inChain)
         /\ Send(kinds, inChain) /\ UNCHANGED faults => SentTypes' /\ Sent(inChain)
         /\ SendLost(kinds) => SentTypes' /\ Sent(inChain)
<1>1. toCloud \in Seq(Message) /\ faults \in [Faults -> Nat]
  BY DEF Types, SentTypes
<1>2. QED
  BY <1>1, SendKeeps DEF SendAnyway, SentTypes, Sent

\* What blocking_send does to the session, whatever becomes of the message.
LEMMA SendOrEndIsTyped ==
  ASSUME Types, NEW kind \in Kinds \ {"id"}, NEW next,
         SendOrEnd(<<kind>>, next)
  PROVE  /\ SentTypes' /\ Sent(chained)
         /\ Ends \/ (main' = next /\ UNCHANGED unanswered)
<1>1. chained \in BOOLEAN
  BY DEF Types, SentTypes
<1>2. QED
  BY <1>1, Requests, SentIsTyped DEF SendOrEnd

LEMMA FaultIsTyped ==
  ASSUME Types, NEW k \in Faults, Fault(k), UNCHANGED <<toCloud, chained>>
  PROVE  SentTypes'
  BY FaultType DEF Types, SentTypes

LEMMA InitTypes == Init => Types
<1> SUFFICES ASSUME Init PROVE Types
  OBVIOUS
<1>1. /\ chained \in BOOLEAN /\ expecting \in BOOLEAN /\ polled \in BOOLEAN
      /\ misframed \in BOOLEAN /\ greeted \in BOOLEAN
      /\ unanswered \in BOOLEAN
  BY Zenon DEF Init
<1>2. toCloud \in Seq(Message) /\ toCore \in Seq(Message) /\ faults \in [Faults -> Nat]
  BY EmptySeq DEF Init
<1>3. /\ requests \in 0 .. MaxRequest /\ published \in 0 .. MaxPublish
      /\ since \in 0 .. PingAfter + 1 /\ waited \in 0 .. BlockUpTo + 1
      /\ silence \in 0 .. MaxSilence
  BY BoundAssumption DEF Init, PingAfter, BlockUpTo, MaxSilence
<1>4. QED
  BY <1>1, <1>2, <1>3 DEF Init, Types, PlainTypes, SentTypes

LEMMA HandshakeTypes == Types /\ (Connect \/ Handshake) => Types'
<1> SUFFICES ASSUME Types, Connect \/ Handshake PROVE Types'
  OBVIOUS
<1> USE DEF PlainTypes, ping, bounds, history, network
<1>0. Plain("nonce") \in Message /\ Plain("id") \in Message
  BY DEF Plain, Message
<1>1. CASE Connect
  <2>1. <<>> \in Seq(Message) /\ <<Plain("nonce")>> \in Seq(Message)
    BY <1>0
  <2>2. misframed' \in BOOLEAN /\ greeted' \in BOOLEAN
    BY <1>1, Zenon DEF Connect
  <2>3. QED
    BY <1>1, <2>1, <2>2 DEF Connect, Types, SentTypes, BlockUpTo, MaxSilence
<1>2. CASE ReceiveNonce
  <2>1. Tail(toCore) \in Seq(Message)
    BY <1>2, TailMessages DEF ReceiveNonce, Types
  <2>2. toCloud' \in Seq(Message)
    BY <1>0, <1>2, AppendProperties DEF ReceiveNonce, Types, SentTypes
  <2>3. QED
    BY <1>2, <2>1, <2>2 DEF ReceiveNonce, Types, SentTypes, BlockUpTo, MaxSilence
<1>3. CASE ReceiveKey
  <2>1. Tail(toCore) \in Seq(Message)
    BY <1>3, TailMessages DEF ReceiveKey, Types
  <2>2. SentTypes'
    <3>1. CASE SetKey
      BY <3>1, SentIsTyped, Requests DEF SetKey, Kinds
    <3>2. CASE Fault("key") /\ UNCHANGED <<chained, toCloud>>
      BY <3>2, FaultIsTyped DEF Faults
    <3>3. QED
      BY <1>3, <3>1, <3>2 DEF ReceiveKey
  <2>3. QED
    BY <1>3, <2>1, <2>2 DEF ReceiveKey, Types, MaxSilence
<1>4. CASE HandshakeBroken
  BY <1>4 DEF HandshakeBroken, Types, SentTypes
<1>5. CASE Announce
  <2>1. SentTypes'
    BY <1>5, SentIsTyped, Requests DEF Announce, Types, SentTypes
  <2>2. QED
    BY <1>5, <2>1 DEF Announce, Ends, Types
<1>6. QED
  BY <1>1, <1>2, <1>3, <1>4, <1>5 DEF Handshake

LEMMA EventLoopTypes == Types /\ EventLoop => Types'
<1> SUFFICES ASSUME Types, EventLoop PROVE Types'
  OBVIOUS
<1> USE DEF PlainTypes, Types, ping, bounds, history, network, PingAfter, MaxSilence
<1>1. CASE ReceiveLength
  <2>1. expecting' \in BOOLEAN /\ unanswered' \in BOOLEAN
    BY <1>1, Zenon DEF ReceiveLength, Received
  <2>2. QED
    BY <1>1, <2>1 DEF ReceiveLength, Received, SentTypes, BlockUpTo
<1>2. CASE ReceiveHalfLength
  <2>1. SentTypes'
    BY <1>2, FaultIsTyped DEF ReceiveHalfLength, Faults
  <2>2. QED
    BY <1>2, <2>1 DEF ReceiveHalfLength
<1>3. CASE ReceiveGarbage
  <2>1. ASSUME NEW n \in 1 .. Len(toCore)
        PROVE  SubSeq(toCore, n + 1, Len(toCore)) \in Seq(Message)
    <3>1. Len(toCore) \in Nat /\ \A i \in n + 1 .. Len(toCore) : i \in 1 .. Len(toCore)
      BY LenProperties
    <3>2. \A i \in n + 1 .. Len(toCore) : toCore[i] \in Message
      BY <3>1, ElementOfSeq
    <3>3. QED
      BY <3>1, <3>2, SubSeqProperties
  <2>2. toCore' \in Seq(Message)
    BY <1>3, <2>1 DEF ReceiveGarbage
  <2>3. expecting' \in BOOLEAN /\ unanswered' \in BOOLEAN
    BY <1>3, Zenon DEF ReceiveGarbage
  <2>4. QED
    BY <1>3, <2>2, <2>3 DEF ReceiveGarbage, SentTypes
<1>4. CASE ReceiveFails
  BY <1>4 DEF ReceiveFails, Ends, SentTypes
<1>5. CASE Poll
  BY <1>5 DEF Poll, SentTypes
<1>6. CASE Ping
  <2>1. SentTypes'
    BY <1>6, SentIsTyped, Requests DEF Ping, Kinds, SentTypes
  <2>2. QED
    BY <1>6, <2>1 DEF Ping
<1>7. CASE PingTimeout
  <2>1. expecting' \in BOOLEAN /\ unanswered' \in BOOLEAN
    BY <1>7, Zenon DEF PingTimeout, Ends
  <2>2. QED
    BY <1>7, <2>1 DEF PingTimeout, Ends, SentTypes
<1>8. QED
  BY <1>1, <1>2, <1>3, <1>4, <1>5, <1>6, <1>7 DEF EventLoop

LEMMA HandlerTypes == Types /\ (Handler \/ Publish) => Types'
<1> SUFFICES ASSUME Types, Handler \/ Publish PROVE Types'
  OBVIOUS
<1> USE DEF PlainTypes, Types, ping, bounds, history, network
<1>1. ASSUME NEW kinds, Decrypt(kinds) PROVE toCore' \in Seq(Message)
  BY <1>1, TailMessages DEF Decrypt
<1>2. "ack" \in Kinds \ {"id"} /\ "return" \in Kinds \ {"id"} /\ "event" \in Kinds \ {"id"}
  BY DEF Kinds
<1>3. CASE BodyFails
  BY <1>3 DEF BodyFails, Ends, SentTypes
<1>4. CASE ReceiveNotice
  BY <1>1, <1>4 DEF ReceiveNotice, SentTypes
<1>5. CASE ReceiveRequest
  BY <1>1, <1>2, <1>5, SendOrEndIsTyped DEF ReceiveRequest, Ends
<1>6. CASE ReceiveCall
  BY <1>1, <1>2, <1>6, SendOrEndIsTyped DEF ReceiveCall, Ends
<1>7. CASE CallReturns
  BY <1>2, <1>7, SendOrEndIsTyped DEF CallReturns, Ends
<1>8. CASE Publish
  <2>1. SentTypes'
    BY <1>2, <1>8, SentIsTyped, Requests DEF Publish, SentTypes
  <2>2. published' \in 0 .. MaxPublish
    BY <1>8, BoundAssumption DEF Publish
  <2>3. QED
    BY <1>8, <2>1, <2>2 DEF Publish
<1>9. QED
  BY <1>3, <1>4, <1>5, <1>6, <1>7, <1>8 DEF Handler

LEMMA OutsideTypes == Types /\ (Cloud \/ CloudAsks \/ LinkFails \/ Tick) => Types'
<1> SUFFICES ASSUME Types, Cloud \/ CloudAsks \/ LinkFails \/ Tick PROVE Types'
  OBVIOUS
<1> USE DEF PlainTypes, Types, ping, bounds, history, network
<1>1. ASSUME NEW kind \in Kinds, CloudSends(kind) PROVE toCore' \in Seq(Message)
  BY <1>1, AppendMessage DEF CloudSends
<1>2. CASE CloudGetsId
  BY <1>1, <1>2, TailMessages DEF CloudGetsId, SentTypes, Kinds
<1>3. CASE CloudReads
  <2>1. toCloud' \in Seq(Message) /\ Head(toCloud) \in Message
    BY <1>3, TailMessages DEF CloudReads, SentTypes
  <2>2. toCore' \in Seq(Message) /\ link' \in {"up", "closed"}
    BY <1>1, <1>3 DEF CloudReads, Kinds
  <2>3. greeted' \in BOOLEAN
    BY <1>3, Zenon DEF CloudReads
  <2>4. QED
    BY <1>3, <2>1, <2>2, <2>3 DEF CloudReads, SentTypes
<1>4. CASE CloudAsks
  <2>1. toCore' \in Seq(Message)
    BY <1>1, <1>4 DEF CloudAsks, Kinds
  <2>2. requests' \in 0 .. MaxRequest
    BY <1>4, BoundAssumption DEF CloudAsks
  <2>3. QED
    BY <1>4, <2>1, <2>2 DEF CloudAsks, SentTypes
<1>5. CASE LinkFails
  <2>1. faults' \in [Faults -> Nat]
    BY <1>5, FaultType DEF LinkFails, SentTypes, Faults
  <2>2. QED
    BY <1>5, <2>1, EmptySeq DEF LinkFails, SentTypes
<1>6. CASE Tick
  <2>1. faults' \in [Faults -> Nat]
    BY <1>6, FaultType DEF Tick, SentTypes, Faults
  <2>2. since' \in 0 .. PingAfter + 1 /\ waited' \in 0 .. BlockUpTo + 1
    BY <1>6 DEF Tick, Blocked, PingAfter, BlockUpTo
  <2>3. silence' \in 0 .. MaxSilence
    BY <1>6 DEF Tick, MaxSilence
  <2>4. QED
    BY <1>6, <2>1, <2>2, <2>3 DEF Tick, SentTypes
<1>7. QED
  BY <1>2, <1>3, <1>4, <1>5, <1>6 DEF Cloud

LEMMA NextTypes == Types /\ [Next]_vars => Types'
<1>1. Types /\ UNCHANGED vars => Types'
  BY DEF vars, Types, PlainTypes, SentTypes, ping, network, bounds, history
<1>2. QED
  BY <1>1, HandshakeTypes, EventLoopTypes, HandlerTypes, OutsideTypes DEF Next, Main

\* What a session is made of stays what it is, and the counters stay in their bounds.
THEOREM TypeCorrect == Spec => []TypeOK
<1>1. Types <=> TypeOK
  BY TypeParts DEF Types
<1>2. QED
  BY InitTypes, NextTypes, <1>1, PTL DEF Spec

-----------------------------------------------------------------------------
(* Silence *)

\* event_loop has been called only where no ping was due and no answer overdue.
PolledInv == polled => since <= (IF expecting THEN AckWithin ELSE PingAfter)

\* Silence, measured by what the Core knows of it.
SilenceInv ==
  /\ main \in {"nonce", "key"} => silence <= waited
  /\ main \in {"announce", "call"} => silence = 0
  /\ main \in {"loop", "half"} => silence <= since + (IF expecting THEN PingAfter + 1 ELSE 0)
  /\ main = "body" => silence <= waited /\ (link = "up" => toCore # <<>> /\ silence = 0)
  /\ link = "silent" => toCore = <<>>

QuietInv == PolledInv /\ SilenceInv /\ DeadNoticed

LEMMA NextQuiet == Types /\ QuietInv /\ [Next]_vars => QuietInv'
<1> SUFFICES ASSUME Types, QuietInv, [Next]_vars PROVE QuietInv'
  OBVIOUS
<1> USE DEF ping, history, network, bounds
<1>0. /\ since \in Nat /\ waited \in 0 .. BlockUpTo + 1 /\ silence \in Nat
      /\ since <= PingAfter + 1 /\ link \in {"up", "silent", "closed"}
  BY DEF Types, PlainTypes, PingAfter, BlockUpTo, MaxSilence
<1> USE DEF QuietInv, PolledInv, SilenceInv, DeadNoticed, PingAfter, AckWithin, BlockUpTo
<1>1. CASE UNCHANGED vars
  BY <1>1 DEF vars
<1>2. CASE Connect \/ Handshake
  BY <1>0, <1>2
  DEF Handshake, Connect, ReceiveNonce, ReceiveKey, HandshakeBroken, Announce, Ends
<1>3. CASE EventLoop
  <2>1. CASE ReceiveLength
    BY <1>0, <2>1 DEF ReceiveLength, Received
  <2>2. CASE ReceiveGarbage
    BY <1>0, <2>2 DEF ReceiveGarbage
  <2>3. CASE PingTimeout
    BY <1>0, <2>3 DEF PingTimeout, LengthMissing, Idle, Ends
  <2>4. CASE Ping
    BY <1>0, <2>4 DEF Ping, LengthMissing, Idle
  <2>5. CASE ReceiveHalfLength \/ ReceiveFails
    BY <1>0, <2>5 DEF ReceiveHalfLength, ReceiveFails, Ends
  <2>6. CASE Poll
    BY <1>0, <2>6 DEF Poll, Idle
  <2>7. QED
    BY <1>3, <2>1, <2>2, <2>3, <2>4, <2>5, <2>6 DEF EventLoop
<1>4. CASE Handler
  <2>1. CASE BodyFails
    BY <1>0, <2>1 DEF BodyFails, Ends
  <2>2. CASE ReceiveNotice
    BY <1>0, <2>2 DEF ReceiveNotice, Decrypt
  <2>3. CASE ReceiveRequest \/ ReceiveCall \/ CallReturns
    <3>1. /\ main' \in {"down", "loop", "call"} /\ silence = 0
          /\ UNCHANGED <<ping, polled, waited, silence, link>>
          /\ link # "silent" \/ toCore' = toCore
      BY <1>0, <2>3
      DEF ReceiveRequest, ReceiveCall, CallReturns, Decrypt, SendOrEnd, Ends
    <3>2. QED
      BY <1>0, <3>1
  <2>4. QED
    BY <1>4, <2>1, <2>2, <2>3 DEF Handler
<1>5. CASE Publish
  BY <1>0, <1>5 DEF Publish
<1>6. CASE Cloud \/ CloudAsks \/ LinkFails
  <2>1. UNCHANGED <<main, ping, polled, waited, silence>>
    BY <1>6 DEF Cloud, CloudGetsId, CloudReads, CloudAsks, LinkFails
  <2>3. CASE LinkFails
    BY <1>0, <2>1, <2>3 DEF LinkFails
  <2>4. CASE Cloud \/ CloudAsks
    <3>1. link = "up" /\ link' \in {"up", "closed"}
      BY <2>4 DEF Cloud, CloudGetsId, CloudReads, CloudAsks
    <3>2. ASSUME NEW kind \in Kinds, CloudSends(kind) PROVE toCore' # <<>>
      BY <3>2, AppendMessage, AppendProperties DEF CloudSends, Types
    <3>3. toCore # <<>> => toCore' # <<>>
      BY <2>4, <3>2 DEF Cloud, CloudGetsId, CloudReads, CloudAsks, Kinds
    <3>4. QED
      BY <1>0, <2>1, <3>1, <3>3
  <2>5. QED
    BY <1>6, <2>3, <2>4
<1>7. CASE Tick
  <2>1. CASE main = "down"
    BY <1>0, <1>7, <2>1 DEF Tick
  <2>2. CASE Idle /\ polled
    BY <1>0, <1>7, <2>2 DEF Tick, Idle
  <2>3. CASE Blocked /\ link # "closed" /\ toCore = <<>>
    BY <1>0, <1>7, <2>3 DEF Tick, Blocked
  <2>4. QED
    BY <1>7, <2>1, <2>2, <2>3 DEF Tick, TimePasses
<1>8. QED
  BY <1>1, <1>2, <1>3, <1>4, <1>5, <1>6, <1>7 DEF Next, Main

\* A connection that has died without a word is noticed after at most 35 s, or 25 s
\* in the middle of a message: event_loop pings in time, and blocking_receive and the
\* wait for the answer end, whatever the session before has left behind.
THEOREM DeathIsNoticed == Spec => []DeadNoticed
<1>1. Init => QuietInv
  BY DEF Init, QuietInv, PolledInv, SilenceInv, DeadNoticed
<1>2. QuietInv => DeadNoticed
  BY DEF QuietInv
<1>3. QED
  BY InitTypes, NextTypes, NextQuiet, <1>1, <1>2, PTL DEF Spec

-----------------------------------------------------------------------------
(* The chain *)

\* In the handshake one message is under way, first to the Core, then to the cloud,
\* then to the Core again, and the cloud asks nothing.
HandshakeInv ==
  /\ main = "nonce" => toCloud = <<>> /\ toCore = <<Plain("nonce")>> /\ ~greeted
  /\ main = "key" =>
       /\ ~greeted
       /\ \/ toCloud = <<Plain("id")>> /\ toCore = <<>>
          \/ toCloud = <<>> /\ toCore = <<Plain("key")>>

\* From then on the cloud makes no other key.
ChainInv ==
  main \in {"announce", "loop", "half", "body", "call"} =>
    /\ NoId(toCloud)
    /\ faults["send"] = 0 => chained /\ AllClear(toCloud)

LinkedInv == link = "up" => HandshakeInv /\ ChainInv

\* A step in a session that says something or nothing.
LEMMA SentLinked ==
  ASSUME Types, LinkedInv, Sent(chained), UNCHANGED link,
         main \in {"announce", "loop", "half", "body", "call"} \/ main' = "down",
         main' \in {"down", "loop", "half", "body", "call"}
  PROVE  LinkedInv'
  BY DEF LinkedInv, HandshakeInv, ChainInv, Sent

LEMMA StillSent ==
  ASSUME Types, UNCHANGED <<toCloud, chained>>,
         UNCHANGED faults \/ \E k \in Faults : Fault(k)
  PROVE  Sent(chained)
<1>1. "send" \in Faults
  BY DEF Faults
<1>2. faults' \in [Faults -> Nat] /\ (faults'["send"] = 0 => faults["send"] = 0)
  BY <1>1, FaultType DEF Types, SentTypes
<1>3. QED
  BY <1>2 DEF Sent, Types, SentTypes

LEMMA HandshakeLinked == Types /\ LinkedInv /\ (Connect \/ Handshake) => LinkedInv'
<1> SUFFICES ASSUME Types, LinkedInv, Connect \/ Handshake PROVE LinkedInv'
  OBVIOUS
<1>1. CASE Connect
  BY <1>1 DEF Connect, LinkedInv, HandshakeInv, ChainInv
<1>2. CASE ReceiveNonce
  <2>1. ASSUME link = "up"
        PROVE  toCloud' = <<Plain("id")>> /\ toCore' = <<>> /\ ~greeted'
    BY <1>2, <2>1 DEF ReceiveNonce, LinkedInv, HandshakeInv
  <2>2. QED
    BY <1>2, <2>1 DEF ReceiveNonce, LinkedInv, HandshakeInv, ChainInv
<1>3. CASE ReceiveKey
  <2>1. CASE main' = "refused"
    BY <1>3, <2>1 DEF ReceiveKey, LinkedInv, HandshakeInv, ChainInv
  <2>2. CASE main' = "announce" /\ SetKey
    <3>1. Sent(TRUE)
      BY <2>2, SentIsTyped, Requests DEF SetKey, Kinds
    <3>2. link = "up" => NoId(toCloud) /\ AllClear(toCloud)
      BY <1>3 DEF ReceiveKey, LinkedInv, HandshakeInv, NoId, AllClear
    <3>3. QED
      BY <1>3, <2>2, <3>1, <3>2
      DEF ReceiveKey, Sent, LinkedInv, HandshakeInv, ChainInv
  <2>3. QED
    BY <1>3, <2>1, <2>2 DEF ReceiveKey
<1>4. CASE HandshakeBroken
  BY <1>4 DEF HandshakeBroken, network, LinkedInv, HandshakeInv, ChainInv
<1>5. CASE Announce
  <2>1. Sent(chained)
    BY <1>5, SentIsTyped, Requests DEF Announce, Types, SentTypes
  <2>2. QED
    BY <1>5, <2>1, SentLinked DEF Announce, Ends
<1>6. QED
  BY <1>1, <1>2, <1>3, <1>4, <1>5 DEF Handshake

LEMMA SessionLinked ==
  Types /\ LinkedInv /\ (EventLoop \/ Handler \/ Publish) => LinkedInv'
<1> SUFFICES ASSUME Types, LinkedInv, EventLoop \/ Handler \/ Publish PROVE LinkedInv'
  OBVIOUS
<1>1. "ack" \in Kinds \ {"id"} /\ "return" \in Kinds \ {"id"} /\ "ping" \in Kinds \ {"id"}
      /\ "event" \in Kinds \ {"id"}
  BY DEF Kinds
<1>2. chained \in BOOLEAN
  BY DEF Types, SentTypes
<1>3. CASE EventLoop
  <2>1. CASE Ping
    <3>1. Sent(chained)
      BY <1>1, <1>2, <2>1, SentIsTyped, Requests DEF Ping
    <3>2. QED
      BY <2>1, <3>1, SentLinked DEF Ping, LengthMissing, Idle
  <2>2. CASE ReceiveLength \/ ReceiveHalfLength \/ ReceiveGarbage \/ ReceiveFails
             \/ Poll \/ PingTimeout
    <3>1. /\ UNCHANGED <<toCloud, chained>>
          /\ UNCHANGED faults \/ Fault("split")
      BY <2>2 DEF ReceiveLength, ReceiveHalfLength, ReceiveGarbage, ReceiveFails, Poll,
                  PingTimeout, network, bounds
    <3>2. Sent(chained)
      BY <3>1, StillSent DEF Faults
    <3>3. /\ main \in {"loop", "half"} /\ main' \in {"loop", "half", "body", "down"}
          /\ UNCHANGED link
      BY <2>2 DEF ReceiveLength, ReceiveHalfLength, ReceiveGarbage, ReceiveFails, Poll,
                  PingTimeout, LengthMissing, Idle, Ends, network
    <3>4. QED
      BY <3>2, <3>3, SentLinked
  <2>3. QED
    BY <1>3, <2>1, <2>2 DEF EventLoop
<1>4. CASE Handler
  <2>1. CASE ReceiveRequest \/ ReceiveCall \/ CallReturns
    <3>1. Sent(chained)
      BY <1>1, <2>1, SendOrEndIsTyped DEF ReceiveRequest, ReceiveCall, CallReturns
    <3>2. main \in {"body", "call"} /\ main' \in {"loop", "call", "down"} /\ UNCHANGED link
      BY <2>1
      DEF ReceiveRequest, ReceiveCall, CallReturns, Decrypt, SendOrEnd, Ends
    <3>3. QED
      BY <3>1, <3>2, SentLinked
  <2>2. CASE BodyFails \/ ReceiveNotice
    <3>1. /\ UNCHANGED <<toCloud, chained, faults, link>>
          /\ main = "body" /\ main' \in {"loop", "down"}
      BY <2>2 DEF BodyFails, ReceiveNotice, Decrypt, Ends, network, bounds
    <3>2. QED
      BY <3>1, StillSent, SentLinked
  <2>3. QED
    BY <1>4, <2>1, <2>2 DEF Handler
<1>5. CASE Publish
  <2>1. Sent(chained)
    BY <1>1, <1>2, <1>5, SentIsTyped, Requests DEF Publish
  <2>2. QED
    BY <1>5, <2>1, SentLinked DEF Publish
<1>6. QED
  BY <1>3, <1>4, <1>5

LEMMA OutsideLinked ==
  Types /\ LinkedInv /\ (Cloud \/ CloudAsks \/ LinkFails \/ Tick) => LinkedInv'
<1> SUFFICES ASSUME Types, LinkedInv, Cloud \/ CloudAsks \/ LinkFails \/ Tick
             PROVE  LinkedInv'
  OBVIOUS
<1> USE DEF LinkedInv, HandshakeInv, ChainInv
<1>1. toCloud # <<>> =>
        /\ NoId(toCloud) => NoId(Tail(toCloud)) /\ Head(toCloud).kind # "id"
        /\ AllClear(toCloud) => AllClear(Tail(toCloud))
  BY TailMessages DEF Types, SentTypes
<1>2. CASE CloudGetsId
  <2>1. CASE main = "key"
    <3>1. toCloud = <<Plain("id")>> /\ toCore = <<>>
      BY <1>2, <2>1 DEF CloudGetsId
    <3>2. toCloud' = <<>> /\ toCore' = <<Plain("key")>>
      BY <1>2, <3>1 DEF CloudGetsId, CloudSends
    <3>3. QED
      BY <1>2, <2>1, <3>2 DEF CloudGetsId
  <2>2. CASE main # "key"
    BY <1>1, <1>2, <2>2 DEF CloudGetsId
  <2>3. QED
    BY <2>1, <2>2
<1>3. CASE CloudReads
  <2>1. main \notin {"nonce", "key"}
    BY <1>3 DEF CloudReads, Plain
  <2>2. QED
    BY <1>1, <1>3, <2>1 DEF CloudReads, bounds
<1>4. CASE CloudAsks
  BY <1>4 DEF CloudAsks
<1>5. CASE LinkFails
  BY <1>5 DEF LinkFails
<1>6. CASE Tick
  <2>1. Sent(chained) /\ UNCHANGED <<main, link, toCloud, toCore, greeted>>
    <3>1. UNCHANGED faults \/ Fault("slow")
      BY <1>6 DEF Tick
    <3>2. UNCHANGED <<main, link, toCloud, toCore, greeted, chained>>
      BY <1>6 DEF Tick, network
    <3>3. QED
      BY <3>1, <3>2, StillSent DEF Faults
  <2>2. QED
    BY <2>1 DEF Sent
<1>7. QED
  BY <1>2, <1>3, <1>4, <1>5, <1>6 DEF Cloud

LEMMA NextLinked == Types /\ LinkedInv /\ [Next]_vars => LinkedInv'
<1>1. LinkedInv /\ UNCHANGED vars => LinkedInv'
  BY DEF vars, network, bounds, LinkedInv, HandshakeInv, ChainInv
<1>2. QED
  BY <1>1, HandshakeLinked, SessionLinked, OutsideLinked DEF Next, Main

\* As long as no send fails, the cloud can decrypt what a session sends: set_key
\* begins a chain that nothing breaks, failed handshakes and events published without
\* a connection included.
THEOREM KeysInStep == Spec => []InStep
<1>1. Init => LinkedInv
  BY DEF Init, LinkedInv
<1>2. LinkedInv => InStep
  BY DEF LinkedInv, ChainInv, InStep, AllClear
<1>3. QED
  BY InitTypes, NextTypes, NextLinked, <1>1, <1>2, PTL DEF Spec
=============================================================================
