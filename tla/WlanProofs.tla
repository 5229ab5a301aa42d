----------------------------- MODULE WlanProofs -----------------------------
(***************************************************************************)
(* Theorems about WlanSupervisor, for any modes, calls and faults, except  *)
(* where a theorem says otherwise.                                         *)
(***************************************************************************)
EXTENDS WlanSupervisor, TLAPS

-----------------------------------------------------------------------------
(* Types *)

Flags ==
  /\ started \in BOOLEAN /\ sleep \in BOOLEAN /\ reset \in BOOLEAN
  /\ disconnect \in BOOLEAN /\ connected \in BOOLEAN /\ dhcp \in BOOLEAN
  /\ listen \in BOOLEAN /\ deleteProfiles \in BOOLEAN /\ cloudConnect \in BOOLEAN
  /\ socketed \in BOOLEAN /\ cloudConnected \in BOOLEAN
  /\ setUp \in BOOLEAN /\ alarm \in BOOLEAN /\ profiles \in BOOLEAN
  /\ auto \in BOOLEAN /\ wanted \in BOOLEAN

States ==
  /\ pc \in {"start", "config", "listening", "cloud", "connecting", "connectDone",
             "session", "handshaking", "announcing", "process", "user"}
  /\ mode \in Modes
  /\ configured \in [smart : BOOLEAN, serial : BOOLEAN]
  /\ watchdog \in {"off", "armed", "expired"}
  /\ chip \in {"off", "idle", "assoc", "ip", "dropped"}
  /\ socket \in {"none", "open", "session"}

\* A reset is asked for as soon as enough connections have failed.
Counts ==
  /\ cfod \in 0 .. MaxFailedConnects + 1 /\ (~reset => cfod < MaxFailedConnects)
  /\ faults \in [Faults -> Nat] /\ calls \in 0 .. MaxCall

Types == Flags /\ States /\ Counts

LEMMA TypeParts == Types => TypeOK
  BY DEF TypeOK, Types, Flags, States, Counts

LEMMA FaultType ==
  ASSUME faults \in [Faults -> Nat], NEW k \in Faults, Fault(k)
  PROVE  faults' \in [Faults -> Nat]
  BY DEF Fault

RadioTypes ==
  /\ started \in BOOLEAN /\ sleep \in BOOLEAN /\ disconnect \in BOOLEAN
  /\ auto \in BOOLEAN
  /\ chip \in {"off", "idle", "assoc", "ip", "dropped"}
  /\ socket \in {"none", "open", "session"}

\* The calls of WiFiClass.
LEMMA WiFiStartsTypes ==
  ASSUME Types, NEW p, WiFiConnect(p) \/ WiFiOn
  PROVE  RadioTypes'
<1>1. UNCHANGED radio => RadioTypes'
  BY DEF Types, Flags, States, radio, RadioTypes
<1>2. CASE WiFiConnect(p)
  <2>1. CASE ~Ready
    <3>1. /\ started' \in BOOLEAN /\ sleep' \in BOOLEAN /\ disconnect' \in BOOLEAN
          /\ auto' \in BOOLEAN
      BY <1>2, <2>1, Zenon DEF WiFiConnect
    <3>2. QED
      BY <1>2, <2>1, <3>1 DEF WiFiConnect, RadioTypes
  <2>2. QED
    BY <1>1, <1>2, <2>1 DEF WiFiConnect
<1>3. CASE WiFiOn
  <2>1. CASE ~started
    <3>1. started' \in BOOLEAN /\ sleep' \in BOOLEAN /\ auto' \in BOOLEAN
      BY <1>3, <2>1, Zenon DEF WiFiOn
    <3>2. QED
      BY <1>3, <2>1, <3>1 DEF WiFiOn, RadioTypes, Types, Flags
  <2>2. QED
    BY <1>1, <1>3, <2>1 DEF WiFiOn
<1>4. QED
  BY <1>2, <1>3

LEMMA WiFiGivesUpTypes ==
  ASSUME Types, WiFiOff \/ WiFiDisconnect
  PROVE  RadioTypes' /\ cloudConnect' \in BOOLEAN
<1>1. UNCHANGED <<radio, cloudConnect>> => RadioTypes' /\ cloudConnect' \in BOOLEAN
  BY DEF Types, Flags, States, radio, RadioTypes
<1>2. CASE WiFiOff
  <2>1. CASE started
    <3>1. sleep' \in BOOLEAN /\ cloudConnect' \in BOOLEAN
      BY <1>2, <2>1, Zenon DEF WiFiOff
    <3>2. QED
      BY <1>2, <2>1, <3>1 DEF WiFiOff, RadioTypes, Types, Flags
  <2>2. QED
    BY <1>1, <1>2, <2>1 DEF WiFiOff
<1>3. CASE WiFiDisconnect
  <2>1. CASE Ready
    <3>1. disconnect' \in BOOLEAN /\ auto' \in BOOLEAN /\ cloudConnect' \in BOOLEAN
      BY <1>3, <2>1, Zenon DEF WiFiDisconnect
    <3>2. QED
      BY <1>3, <2>1, <3>1 DEF WiFiDisconnect, RadioTypes, Types, Flags, States
  <2>2. QED
    BY <1>1, <1>3, <2>1 DEF WiFiDisconnect
<1>4. QED
  BY <1>2, <1>3

LEMMA InitTypes == Init => Types
<1> SUFFICES ASSUME Init PROVE Types
  OBVIOUS
<1>1. Flags
  <2>1. /\ reset \in BOOLEAN /\ disconnect \in BOOLEAN /\ connected \in BOOLEAN
        /\ dhcp \in BOOLEAN /\ deleteProfiles \in BOOLEAN /\ socketed \in BOOLEAN
        /\ cloudConnected \in BOOLEAN /\ setUp \in BOOLEAN /\ alarm \in BOOLEAN
    BY Zenon DEF Init
  <2>2. /\ started \in BOOLEAN /\ sleep \in BOOLEAN /\ listen \in BOOLEAN
        /\ auto \in BOOLEAN /\ cloudConnect \in BOOLEAN /\ wanted \in BOOLEAN
    BY Zenon DEF Init, Automatic
  <2>3. QED
    BY <2>1, <2>2 DEF Init, Flags
<1>2. States
  <2>1. [smart |-> TRUE, serial |-> TRUE] \in [smart : BOOLEAN, serial : BOOLEAN]
    OBVIOUS
  <2>2. QED
    BY <2>1 DEF Init, States
<1>3. Counts
  BY FaultAssumption DEF Init, Counts, MaxFailedConnects
<1>4. QED
  BY <1>1, <1>2, <1>3 DEF Types

\* SPARK_WLAN_Loop up to the cloud.
LEMMA ResetTypes == Types /\ Reset => Flags'
<1> SUFFICES ASSUME Types, Reset PROVE Flags'
  OBVIOUS
<1> USE DEF Types, Flags, radio, config, link, cloud, user
<1>1. CASE started
  <2>1. /\ connected' \in BOOLEAN /\ dhcp' \in BOOLEAN /\ reset' \in BOOLEAN
        /\ started' \in BOOLEAN /\ socketed' \in BOOLEAN /\ cloudConnected' \in BOOLEAN
    BY <1>1, Zenon DEF Reset
  <2>2. QED
    BY <2>1 DEF Reset
<1>2. CASE ~started
  BY <1>2 DEF Reset
<1>3. QED
  BY <1>1, <1>2

LEMMA ConfigTypes == Types /\ (Reset \/ Start \/ StartSmartConfig \/ SkipConfig \/ ClearCredentials
    \/ SerialConfig \/ EndSmartConfig) => Types'
<1> SUFFICES ASSUME Types, Reset \/ Start \/ StartSmartConfig \/ SkipConfig \/ ClearCredentials
    \/ SerialConfig \/ EndSmartConfig PROVE Types'
  OBVIOUS
<1> USE DEF Types, Flags, States, Counts, radio, config, link, cloud, user
<1>1. CASE Reset
  <2>1. Flags'
    BY <1>1, ResetTypes
  <2>2. QED
    BY <1>1, <2>1 DEF Reset, MaxFailedConnects
<1>2. CASE Start
  <2>1. started => UNCHANGED <<radio, listen, watchdog>>
    BY <1>2 DEF Start
  <2>2. ~started => RadioTypes'
    BY <1>2, WiFiStartsTypes DEF Start
  <2>3. listen' \in BOOLEAN
    BY <1>2 DEF Start
  <2>4. QED
    BY <1>2, <2>1, <2>2, <2>3 DEF Start, RadioTypes
<1>3. CASE StartSmartConfig
  <2>1. RadioTypes'
    BY <1>3, WiFiStartsTypes DEF StartSmartConfig
  <2>2. configured' \in [smart : BOOLEAN, serial : BOOLEAN]
    BY <1>3 DEF StartSmartConfig
  <2>3. /\ connected' \in BOOLEAN /\ dhcp' \in BOOLEAN
        /\ socketed' \in BOOLEAN /\ cloudConnected' \in BOOLEAN
    BY <1>3, Zenon DEF StartSmartConfig
  <2>4. QED
    BY <1>3, <2>1, <2>2, <2>3 DEF StartSmartConfig, RadioTypes
<1>4. CASE SkipConfig
  BY <1>4 DEF SkipConfig
<1>5. CASE ClearCredentials
  <2>1. profiles' \in BOOLEAN /\ deleteProfiles' \in BOOLEAN
    BY <1>5, Zenon DEF ClearCredentials
  <2>2. QED
    BY <1>5, <2>1 DEF ClearCredentials
<1>6. CASE SerialConfig
  <2>1. configured' \in [smart : BOOLEAN, serial : BOOLEAN]
    BY <1>6 DEF SerialConfig
  <2>2. profiles' \in BOOLEAN
    BY <1>6, Zenon DEF SerialConfig
  <2>3. QED
    BY <1>6, <2>1, <2>2 DEF SerialConfig
<1>7. CASE EndSmartConfig
  <2>1. profiles' \in BOOLEAN
    BY <1>7 DEF EndSmartConfig
  <2>2. faults' \in [Faults -> Nat]
    BY <1>7, FaultType DEF EndSmartConfig, Faults
  <2>3. RadioTypes'
    BY <1>7, WiFiStartsTypes DEF EndSmartConfig
  <2>4. listen' \in BOOLEAN
    BY <1>7, Zenon DEF EndSmartConfig
  <2>5. QED
    BY <1>7, <2>1, <2>2, <2>3, <2>4 DEF EndSmartConfig, RadioTypes
<1>8. QED
  BY <1>1, <1>2, <1>3, <1>4, <1>5, <1>6, <1>7

\* The cloud.
LEMMA CloudOffTypes ==
  Types /\ CloudOff =>
    socketed' \in BOOLEAN /\ cloudConnected' \in BOOLEAN /\ socket' \in {"none", socket}
<1> SUFFICES ASSUME Types, CloudOff
             PROVE  socketed' \in BOOLEAN /\ cloudConnected' \in BOOLEAN
                    /\ socket' \in {"none", socket}
  OBVIOUS
<1>1. CASE socketed \/ cloudConnected
  <2>1. socketed' \in BOOLEAN /\ cloudConnected' \in BOOLEAN
    BY <1>1, Zenon DEF CloudOff
  <2>2. QED
    BY <1>1, <2>1 DEF CloudOff
<1>2. CASE ~(socketed \/ cloudConnected)
  BY <1>2 DEF CloudOff, cloud, Types, Flags
<1>3. QED
  BY <1>1, <1>2

LEMMA ConnectFailsTypes ==
  Types /\ ConnectFails => Counts' /\ reset' \in BOOLEAN /\ socketed' \in BOOLEAN
<1> SUFFICES ASSUME Types, ConnectFails
             PROVE  Counts' /\ reset' \in BOOLEAN /\ socketed' \in BOOLEAN
  OBVIOUS
<1> USE DEF Types, Flags, Counts, MaxFailedConnects
<1>1. faults' \in [Faults -> Nat] /\ UNCHANGED calls
  BY FaultType DEF ConnectFails, Faults, user
<1>2. CASE reset
  BY <1>1, <1>2 DEF ConnectFails
<1>3. CASE ~reset
  <2>1. socketed' = FALSE /\ cfod' \in {cfod + 1, cfod + 2}
        /\ reset' = (2 \in cfod + 1 .. cfod')
    BY <1>3 DEF ConnectFails
  <2>2. socketed' \in BOOLEAN
    BY <1>3, Zenon DEF ConnectFails
  <2>3. cfod = 0 \/ cfod = 1
    <3>1. cfod \in 0 .. 3 /\ cfod < 2
      BY <1>3
    <3>2. QED
      BY <3>1
  <2>4. reset' \in BOOLEAN
    <3>1. (2 \in cfod + 1 .. cfod') \in BOOLEAN
      OBVIOUS
    <3>2. QED
      BY <2>1, <3>1, Zenon
  <2>5. cfod' < 2 \/ 2 \in cfod + 1 .. cfod'
    BY <2>1, <2>3
  <2>6. cfod' \in 0 .. 3 /\ (~reset' => cfod' < 2)
    <3>1. 2 \in cfod + 1 .. cfod' => reset'
      BY <2>1, Zenon
    <3>2. cfod' \in 0 .. 3
      BY <2>1, <2>3
    <3>3. QED
      BY <2>5, <3>1, <3>2
  <2>7. Counts'
    BY <1>1, <2>6
  <2>8. QED
    BY <2>2, <2>4, <2>7
<1>4. QED
  BY <1>2, <1>3

LEMMA ProcessTypes ==
  ASSUME Types, Process \/ UNCHANGED cloud
  PROVE  socketed' \in BOOLEAN /\ cloudConnected' \in BOOLEAN
<1>1. CASE socketed /\ socket # "session" /\ Process
  BY <1>1, Zenon DEF Process
<1>2. CASE UNCHANGED cloud
  BY <1>2 DEF cloud, Types, Flags
<1>3. QED
  BY <1>1, <1>2 DEF Process

LEMMA ConnectTypes == Types /\ (CloudOff \/ CloudHasSocket \/ SparkConnect \/ ConnectSucceeds
    \/ ConnectDone \/ ConnectFails) => Types'
<1> SUFFICES ASSUME Types, CloudOff \/ CloudHasSocket \/ SparkConnect \/ ConnectSucceeds
    \/ ConnectDone \/ ConnectFails PROVE Types'
  OBVIOUS
<1> USE DEF Types, Flags, States, Counts, radio, config, link, cloud, user
<1>1. CASE CloudOff
  <2>1. socketed' \in BOOLEAN /\ cloudConnected' \in BOOLEAN /\ socket' \in {"none", socket}
    BY <1>1, CloudOffTypes
  <2>2. QED
    BY <1>1, <2>1 DEF CloudOff
<1>2. CASE CloudHasSocket
  BY <1>2 DEF CloudHasSocket
<1>3. CASE SparkConnect
  BY <1>3 DEF SparkConnect
<1>4. CASE ConnectSucceeds
  BY <1>4 DEF ConnectSucceeds
<1>5. CASE ConnectDone
  <2>1. socketed' \in BOOLEAN
    BY <1>5, Zenon DEF ConnectDone
  <2>2. QED
    BY <1>5, <2>1 DEF ConnectDone, MaxFailedConnects
<1>6. CASE ConnectFails
  <2>1. Counts' /\ reset' \in BOOLEAN /\ socketed' \in BOOLEAN
    BY <1>6, ConnectFailsTypes
  <2>2. QED
    BY <1>6, <2>1 DEF ConnectFails
<1>7. QED
  BY <1>1, <1>2, <1>3, <1>4, <1>5, <1>6

LEMMA SessionTypes == Types /\ (NoSession \/ NeedsHandshake \/ HandshakeSucceeds \/ HandshakeFails
    \/ HandshakeDone \/ LoopProcess \/ UserDone) => Types'
<1> SUFFICES ASSUME Types, NoSession \/ NeedsHandshake \/ HandshakeSucceeds \/ HandshakeFails
    \/ HandshakeDone \/ LoopProcess \/ UserDone PROVE Types'
  OBVIOUS
<1> USE DEF Types, Flags, States, Counts, radio, config, link, cloud, user
<1>1. CASE NoSession
  BY <1>1 DEF NoSession
<1>2. CASE NeedsHandshake
  BY <1>2 DEF NeedsHandshake
<1>3. CASE HandshakeSucceeds
  BY <1>3 DEF HandshakeSucceeds
<1>4. CASE HandshakeFails
  <2>1. faults' \in [Faults -> Nat]
    BY <1>4, FaultType DEF HandshakeFails, Faults
  <2>2. QED
    BY <1>4, <2>1 DEF HandshakeFails
<1>5. CASE HandshakeDone
  <2>1. cloudConnected' \in BOOLEAN
    BY <1>5, Zenon DEF HandshakeDone
  <2>2. QED
    BY <1>5, <2>1 DEF HandshakeDone
<1>6. CASE LoopProcess
  <2>1. socketed' \in BOOLEAN /\ cloudConnected' \in BOOLEAN
    BY <1>6, ProcessTypes DEF LoopProcess
  <2>2. QED
    BY <1>6, <2>1 DEF LoopProcess
<1>7. CASE UserDone
  <2>1. socketed' \in BOOLEAN /\ cloudConnected' \in BOOLEAN
    BY <1>7, ProcessTypes DEF UserDone
  <2>2. setUp' \in BOOLEAN
    BY <1>7 DEF UserDone
  <2>3. QED
    BY <1>7, <2>1, <2>2 DEF UserDone
<1>8. QED
  BY <1>1, <1>2, <1>3, <1>4, <1>5, <1>6, <1>7

\* User code.
CallOK == calls' \in 0 .. MaxCall /\ setUp' \in BOOLEAN /\ mode' = mode

LEMMA CountsCall ==
  ASSUME Types, NEW name, Call(name)
  PROVE  CallOK
<1>1. setUp' \in BOOLEAN
  BY Zenon DEF Call
<1>2. QED
  BY <1>1, FaultAssumption DEF Call, CallOK, Types, Counts

LEMMA DisconnectTypes ==
  Types /\ Call_Disconnect => RadioTypes' /\ cloudConnect' \in BOOLEAN
<1> SUFFICES ASSUME Types, Call_Disconnect
             PROVE  RadioTypes' /\ cloudConnect' \in BOOLEAN
  OBVIOUS
<1>1. CASE WiFiDisconnect
  BY <1>1, WiFiGivesUpTypes
<1>2. CASE cloudConnect' = FALSE /\ UNCHANGED radio
  <2>1. cloudConnect' \in BOOLEAN
    BY <1>2, Zenon
  <2>2. QED
    BY <1>2, <2>1 DEF radio, RadioTypes, Types, Flags, States
<1>3. QED
  BY <1>1, <1>2 DEF Call_Disconnect

LEMMA CallTypes == Types /\ (UserCall) => Types'
<1> SUFFICES ASSUME Types, UserCall PROVE Types'
  OBVIOUS
<1> USE DEF Types, Flags, States, Counts, radio, config, link, cloud, user
<1>1. CASE Call_Connect
  <2>1. RadioTypes'
    BY <1>1, WiFiStartsTypes DEF Call_Connect
  <2>2. listen' \in BOOLEAN
    BY <1>1 DEF Call_Connect
  <2>3. cloudConnect' \in BOOLEAN /\ wanted' \in BOOLEAN
    BY <1>1 DEF Call_Connect
  <2>4. CallOK
    BY <1>1, CountsCall DEF Call_Connect
  <2>5. QED
    BY <1>1, <2>1, <2>2, <2>3, <2>4 DEF Call_Connect, RadioTypes, CallOK
<1>2. CASE Call_Disconnect
  <2>1. RadioTypes' /\ cloudConnect' \in BOOLEAN
    BY <1>2, DisconnectTypes
  <2>2. CallOK
    BY <1>2, CountsCall DEF Call_Disconnect
  <2>3. wanted' \in BOOLEAN
    BY <1>2, Zenon DEF Call_Disconnect
  <2>4. QED
    BY <1>2, <2>1, <2>2, <2>3 DEF Call_Disconnect, RadioTypes, CallOK
<1>3. CASE Call_Off
  <2>1. RadioTypes' /\ cloudConnect' \in BOOLEAN
    BY <1>3, WiFiGivesUpTypes DEF Call_Off
  <2>2. alarm' \in BOOLEAN
    BY <1>3 DEF Call_Off
  <2>3. CallOK
    BY <1>3, CountsCall DEF Call_Off
  <2>4. wanted' \in BOOLEAN
    BY <1>3, Zenon DEF Call_Off
  <2>5. QED
    BY <1>3, <2>1, <2>2, <2>3, <2>4 DEF Call_Off, RadioTypes, CallOK
<1>4. CASE Call_On
  <2>1. RadioTypes'
    BY <1>4, WiFiStartsTypes DEF Call_On
  <2>2. CallOK
    BY <1>4, CountsCall DEF Call_On
  <2>3. QED
    BY <1>4, <2>1, <2>2 DEF Call_On, RadioTypes, CallOK
<1>5. CASE Call_Listen
  <2>1. CallOK
    BY <1>5, CountsCall DEF Call_Listen
  <2>2. listen' \in BOOLEAN
    BY <1>5, Zenon DEF Call_Listen
  <2>3. QED
    BY <1>5, <2>1, <2>2 DEF Call_Listen, CallOK
<1>6. QED
  BY <1>1, <1>2, <1>3, <1>4, <1>5 DEF UserCall

\* Interrupts.
LEMMA EventTypes == Types /\ (ChipEvent \/ EventClose \/ Button \/ Alarm \/ WatchdogExpires) => Types'
<1> SUFFICES ASSUME Types, ChipEvent \/ EventClose \/ Button \/ Alarm \/ WatchdogExpires PROVE Types'
  OBVIOUS
<1> USE DEF Types, Flags, States, Counts, radio, config, link, cloud, user
<1>1. CASE EventConnect
  <2>1. faults' \in [Faults -> Nat]
    BY <1>1, FaultType DEF EventConnect, InTime, Faults
  <2>2. connected' \in BOOLEAN
    BY <1>1, Zenon DEF EventConnect
  <2>3. QED
    BY <1>1, <2>1, <2>2 DEF EventConnect
<1>2. CASE EventDhcp
  <2>1. faults' \in [Faults -> Nat]
    BY <1>2, FaultType DEF EventDhcp, InTime, Faults
  <2>2. dhcp' \in BOOLEAN
    BY <1>2, Zenon DEF EventDhcp
  <2>3. QED
    BY <1>2, <2>1, <2>2 DEF EventDhcp
<1>3. CASE EventDisconnect
  <2>1. faults' \in [Faults -> Nat]
    BY <1>3, FaultType DEF EventDisconnect, InTime, Faults
  <2>2. /\ connected' \in BOOLEAN /\ dhcp' \in BOOLEAN
        /\ socketed' \in BOOLEAN /\ cloudConnected' \in BOOLEAN
    BY <1>3, Zenon DEF EventDisconnect
  <2>3. QED
    BY <1>3, <2>1, <2>2 DEF EventDisconnect
<1>4. CASE EventSmartConfig
  <2>1. configured' \in [smart : BOOLEAN, serial : BOOLEAN]
    BY <1>4 DEF EventSmartConfig
  <2>2. QED
    BY <1>4, <2>1 DEF EventSmartConfig
<1>5. CASE EventClose
  <2>1. faults' \in [Faults -> Nat]
    BY <1>5, FaultType DEF EventClose, InTime, Faults
  <2>2. socketed' \in BOOLEAN /\ cloudConnected' \in BOOLEAN
    BY <1>5, Zenon DEF EventClose
  <2>3. QED
    BY <1>5, <2>1, <2>2 DEF EventClose
<1>6. CASE Button
  <2>1. faults' \in [Faults -> Nat]
    BY <1>6, FaultType DEF Button, InTime, Faults
  <2>2. listen' \in BOOLEAN /\ deleteProfiles' \in BOOLEAN
    BY <1>6 DEF Button
  <2>3. QED
    BY <1>6, <2>1, <2>2 DEF Button
<1>7. CASE Alarm
  <2>1. faults' \in [Faults -> Nat]
    BY <1>7, FaultType DEF Alarm, InTime, Faults
  <2>2. alarm' \in BOOLEAN /\ sleep' \in BOOLEAN
    BY <1>7, Zenon DEF Alarm
  <2>3. QED
    BY <1>7, <2>1, <2>2 DEF Alarm
<1>8. CASE WatchdogExpires
  <2>1. faults' \in [Faults -> Nat]
    BY <1>8, FaultType DEF WatchdogExpires, InTime, Faults
  <2>2. QED
    BY <1>8, <2>1 DEF WatchdogExpires
<1>9. QED
  BY <1>1, <1>2, <1>3, <1>4, <1>5, <1>6, <1>7, <1>8 DEF ChipEvent

LEMMA NextTypes == Types /\ [Next]_vars => Types'
<1>1. Types /\ UNCHANGED vars => Types'
  BY DEF vars, radio, config, link, cloud, user, Types, Flags, States, Counts
<1>2. QED
  BY <1>1, ConfigTypes, ConnectTypes, SessionTypes, CallTypes, EventTypes DEF Next, Main

\* Flags stay flags, and the count of failed connections stays within what one more
\* failure can make of it.
THEOREM TypeCorrect == Spec => []TypeOK
  BY InitTypes, NextTypes, TypeParts, PTL DEF Spec

-----------------------------------------------------------------------------
(* Wi-Fi *)

\* WLAN_DHCP is set only while the chip is started, has reported its connection, is not
\* watched, and has its address, is about to report that it lost it, or was put to sleep.
DhcpInv ==
  dhcp => /\ started /\ connected /\ watchdog = "off" /\ pc # "listening"
          /\ chip \in {"ip", "dropped"} \/ (chip = "off" /\ sleep)

\* After WiFi.disconnect() the chip does not connect by itself, and nothing watches it.
GivenUpInv == disconnect => watchdog = "off" /\ ~auto /\ chip \notin {"assoc", "ip"}

\* WLAN_CONNECTED, by the state of the chip.
ReportedInv == started /\ pc # "listening" /\ chip \in {"assoc", "dropped"} => connected

WiFiInv == DhcpInv /\ GivenUpInv /\ ReportedInv

\* No event of the chip comes while it is being restarted or listens, and the alarm does
\* not go off between WiFi.off() and the next turn of main.
Orderly == ~(\E k \in {"late", "early"} : Fault(k))

LEMMA NoCoincidence ==
  ASSUME MaxFault["late"] = 0, MaxFault["early"] = 0, Types
  PROVE  Orderly
  BY DEF Orderly, Fault, Types, Counts, Faults

LEMMA InitWiFi == Init => WiFiInv
  BY Zenon DEF Init, WiFiInv, DhcpInv, GivenUpInv, ReportedInv

\* What no call, restart or event has touched stays as it was.
LEMMA WiFiUntouched ==
  ASSUME WiFiInv, pc' = "listening" => pc = "listening", pc = "listening" => pc' = pc,
         UNCHANGED <<dhcp, started, connected, watchdog, chip, sleep, disconnect, auto>>
  PROVE  WiFiInv'
  BY DEF WiFiInv, DhcpInv, GivenUpInv, ReportedInv

\* A chip that has just been started has nothing to report.
LEMMA WiFiConnectInv ==
  ASSUME Types, WiFiInv, NEW p, WiFiConnect(p), UNCHANGED <<dhcp, connected>>,
         pc' # "listening" \/ UNCHANGED pc, pc = "listening" => ~Ready,
         disconnect' => UNCHANGED watchdog, dhcp => UNCHANGED watchdog,
         dhcp => pc' # "listening"
  PROVE  WiFiInv'
<1> USE DEF WiFiInv, DhcpInv, GivenUpInv, ReportedInv, Ready, WiFiConnect, radio
<1>1. CASE Ready
  BY <1>1 DEF Types, Flags
<1>2. CASE ~Ready
  <2>1. ~dhcp /\ disconnect' = FALSE /\ chip' = "idle"
    BY <1>2
  <2>2. QED
    BY <2>1
<1>3. QED
  BY <1>1, <1>2

LEMMA MainWiFi ==
  ASSUME Types, WiFiInv, Orderly, Main \/ SerialConfig
  PROVE  WiFiInv'
<1> USE DEF radio, config, link, cloud, user
<1>1. CASE Reset
  <2>1. CASE started
    BY <1>1, <2>1 DEF Reset, WiFiInv, DhcpInv, GivenUpInv, ReportedInv
  <2>2. CASE ~started
    BY <1>1, <2>2, WiFiUntouched DEF Reset
  <2>3. QED
    BY <2>1, <2>2
<1>2. CASE Start
  <2>1. CASE started
    BY <1>2, <2>1, WiFiUntouched DEF Start
  <2>2. CASE ~started
    BY <1>2, <2>2 DEF Start, WiFiConnect, Ready, WiFiInv, DhcpInv, GivenUpInv, ReportedInv
  <2>3. QED
    BY <2>1, <2>2
<1>3. CASE StartSmartConfig
  <2>1. /\ ~dhcp' /\ pc' = "listening" /\ UNCHANGED <<watchdog, disconnect>>
        /\ chip' \in {chip, "idle"} /\ (~auto => ~auto')
    BY <1>3 DEF StartSmartConfig, WiFiOn
  <2>2. QED
    BY <2>1 DEF WiFiInv, DhcpInv, GivenUpInv, ReportedInv
<1>4. CASE EndSmartConfig
  BY <1>4, WiFiConnectInv DEF EndSmartConfig, WiFiInv, DhcpInv, Ready
<1>5. CASE
        SkipConfig \/ ClearCredentials \/ SerialConfig \/ CloudOff \/ CloudHasSocket
        \/ SparkConnect \/ ConnectSucceeds \/ ConnectDone \/ ConnectFails
  BY <1>5, WiFiUntouched
     DEF SkipConfig, ClearCredentials, SerialConfig, CloudOff, CloudHasSocket,
         SparkConnect, ConnectSucceeds, ConnectDone, ConnectFails
<1>6. CASE
        NoSession \/ NeedsHandshake \/ HandshakeSucceeds \/ HandshakeFails
        \/ HandshakeDone \/ LoopProcess \/ UserDone
  BY <1>6, WiFiUntouched
     DEF NoSession, NeedsHandshake, HandshakeSucceeds, HandshakeFails, HandshakeDone,
         LoopProcess, UserDone
<1>7. QED
  BY <1>1, <1>2, <1>3, <1>4, <1>5, <1>6 DEF Main

LEMMA CallWiFi ==
  ASSUME Types, WiFiInv, UserCall
  PROVE  WiFiInv'
<1> USE DEF radio, config, link, cloud, user
<1>1. pc = "user" /\ pc' = "user"
  BY DEF UserCall, Call_Connect, Call_Disconnect, Call_Off, Call_On, Call_Listen, Call
<1>2. CASE Call_Connect
  BY <1>1, <1>2, WiFiConnectInv DEF Call_Connect
<1>3. CASE Call_Disconnect
  <2>1. CASE UNCHANGED radio
    BY <1>1, <1>3, <2>1, WiFiUntouched DEF Call_Disconnect
  <2>2. CASE Ready /\ WiFiDisconnect
    <3>1. /\ dhcp /\ started /\ UNCHANGED <<dhcp, started, connected, watchdog, sleep>>
          /\ ~auto' /\ chip' = IF chip \in {"assoc", "ip"} THEN "dropped" ELSE chip
      BY <1>3, <2>2 DEF Call_Disconnect, WiFiDisconnect, Ready
    <3>2. QED
      BY <1>1, <3>1 DEF WiFiInv, DhcpInv, GivenUpInv, ReportedInv
  <2>3. QED
    BY <1>3, <2>1, <2>2 DEF Call_Disconnect, WiFiDisconnect
<1>4. CASE Call_Off
  BY <1>1, <1>4 DEF Call_Off, WiFiOff, WiFiInv, DhcpInv, GivenUpInv, ReportedInv
<1>5. CASE Call_On
  BY <1>1, <1>5 DEF Call_On, WiFiOn, WiFiInv, DhcpInv, GivenUpInv, ReportedInv
<1>6. CASE Call_Listen
  BY <1>1, <1>6, WiFiUntouched DEF Call_Listen
<1>7. QED
  BY <1>2, <1>3, <1>4, <1>5, <1>6 DEF UserCall

LEMMA EventWiFi ==
  ASSUME Types, WiFiInv, Orderly,
         ChipEvent \/ EventClose \/ Button \/ Alarm \/ WatchdogExpires
  PROVE  WiFiInv'
<1> USE DEF radio, config, link, cloud, user
<1>1. InTime => started /\ pc # "listening"
  BY DEF InTime, Orderly
<1>2. CASE EventConnect
  <2>1. /\ ~dhcp /\ ~disconnect /\ pc # "listening" /\ connected' = TRUE
        /\ UNCHANGED <<dhcp, disconnect, pc>>
    BY <1>2 DEF EventConnect, Connects, WiFiInv, DhcpInv, GivenUpInv
  <2>2. QED
    BY <2>1 DEF WiFiInv, DhcpInv, GivenUpInv, ReportedInv
<1>3. CASE EventDhcp
  <2>1. CASE chip' = "ip" /\ dhcp' = TRUE /\ watchdog' = "off" /\ InTime
    BY <1>1, <1>3, <2>1 DEF EventDhcp, WiFiInv, DhcpInv, GivenUpInv, ReportedInv
  <2>2. CASE dhcp' = FALSE /\ UNCHANGED <<chip, watchdog>>
    BY <1>3, <2>2 DEF EventDhcp, WiFiInv, DhcpInv, GivenUpInv, ReportedInv
  <2>3. QED
    BY <1>3, <2>1, <2>2 DEF EventDhcp
<1>4. CASE EventDisconnect
  <2>1. ~dhcp' /\ chip' = "idle" /\ UNCHANGED <<started, auto, disconnect>>
    BY <1>4 DEF EventDisconnect
  <2>2. ASSUME disconnect PROVE watchdog' = "off" /\ ~auto
    <3>1. watchdog = "off" /\ ~auto /\ chip \notin {"assoc", "ip"}
      BY <2>2 DEF WiFiInv, GivenUpInv
    <3>2. InTime /\ chip = "dropped"
      BY <1>4, <3>1 DEF EventDisconnect, Connects
    <3>3. connected
      BY <1>1, <3>2 DEF WiFiInv, ReportedInv
    <3>4. QED
      BY <1>4, <2>2, <3>1, <3>3 DEF EventDisconnect
  <2>3. QED
    BY <2>1, <2>2 DEF WiFiInv, DhcpInv, GivenUpInv, ReportedInv
<1>5. CASE EventSmartConfig \/ EventClose \/ Button
  BY <1>5, WiFiUntouched DEF EventSmartConfig, EventClose, Button
<1>6. CASE Alarm
  <2>1. ~started
    BY <1>6 DEF Alarm, Orderly
  <2>2. QED
    BY <1>6, <2>1 DEF Alarm, WiFiInv, DhcpInv, GivenUpInv, ReportedInv
<1>7. CASE WatchdogExpires
  BY <1>7 DEF WatchdogExpires, WiFiInv, DhcpInv, GivenUpInv, ReportedInv
<1>8. QED
  BY <1>2, <1>3, <1>4, <1>5, <1>6, <1>7 DEF ChipEvent

LEMMA NextWiFi ==
  ASSUME Types, WiFiInv, Orderly, [Next]_vars
  PROVE  WiFiInv'
<1>1. CASE UNCHANGED vars
  BY <1>1, WiFiUntouched DEF vars, radio, link
<1>2. QED
  BY <1>1, MainWiFi, CallWiFi, EventWiFi DEF Next

LEMMA WiFiProperties == WiFiInv => ReadyIsReal /\ StaysDisconnected
  BY DEF WiFiInv, DhcpInv, GivenUpInv, ReadyIsReal, StaysDisconnected, Ready

LEMMA WiFiAlways ==
  ASSUME MaxFault["late"] = 0, MaxFault["early"] = 0
  PROVE  Spec => []WiFiInv
<1>1. Init => Types /\ WiFiInv
  BY InitTypes, InitWiFi
<1>2. Types /\ WiFiInv /\ [Next]_vars => (Types /\ WiFiInv)'
  BY NextTypes, NoCoincidence, NextWiFi
<1>3. QED
  BY <1>1, <1>2, PTL DEF Spec

\* WLAN_DHCP is never left behind by a reset, a restart or a call: while it is set and
\* the Core is awake, the chip has its address or is about to report that it lost it.
\* In every mode, with any calls, and with links, addresses, resets, the button and the
\* watchdog failing or coming at any moment, unless an event of the chip or the alarm
\* falls into the short time in which main restarts the chip.
THEOREM DhcpIsReal ==
  ASSUME MaxFault["late"] = 0, MaxFault["early"] = 0
  PROVE  Spec => []ReadyIsReal
  BY WiFiAlways, WiFiProperties, PTL

\* Nothing that happens after WiFi.disconnect() arms the WLAN watchdog, under the same
\* assumption.
THEOREM GivenUpForGood ==
  ASSUME MaxFault["late"] = 0, MaxFault["early"] = 0
  PROVE  Spec => []StaysDisconnected
  BY WiFiAlways, WiFiProperties, PTL
=============================================================================
