--------------------------- MODULE WlanSupervisor ---------------------------
(***************************************************************************)
(* Keeping the Core on Wi-Fi and on the cloud: the main loop with          *)
(* SPARK_WLAN_Loop and Start_Smart_Config, the calls of WiFiClass and      *)
(* SparkClass that user code makes, and the interrupts that change the     *)
(* same flags at any moment: the callback for events of the CC3000, the    *)
(* button, the RTC alarm and the WLAN watchdog running out.                *)
(*                                                                         *)
(* SPARK_FLASH_UPDATE is left to OtaUpdate, the inside of a cloud session  *)
(* to SparkSession, and the LED, mDNS and NVMEM_Spark_File_Data (except    *)
(* the number of profiles) are left out.  WLAN_MANUAL_CONNECT is 0.        *)
(***************************************************************************)
EXTENDS Integers

CONSTANTS
  Modes,       \* the modes System.mode() may return
  MaxFault,    \* bound: how often each kind of fault happens
  MaxCall,     \* bound: calls of user code
  Calls        \* the calls user code makes

MaxFailedConnects == 2

ASSUME ModeAssumption == Modes \subseteq {"AUTOMATIC", "SEMI_AUTOMATIC", "MANUAL"}

Faults == {"link", "dhcp", "slow", "refused", "handshake", "close", "button",
           "smartConfig", "late", "early"}
CallNames == {"WiFi.connect", "WiFi.disconnect", "WiFi.on", "WiFi.off",
              "WiFi.listen", "Spark.connect", "Spark.disconnect", "Spark.sleep"}

ASSUME FaultAssumption == MaxFault \in [Faults -> Nat] /\ MaxCall \in Nat
ASSUME CallAssumption == Calls \subseteq CallNames

VARIABLES
  pc,             \* where main is
  mode,           \* System.mode()
  started,        \* SPARK_WLAN_STARTED
  sleep,          \* SPARK_WLAN_SLEEP
  reset,          \* SPARK_WLAN_RESET
  disconnect,     \* WLAN_DISCONNECT
  connected,      \* WLAN_CONNECTED
  dhcp,           \* WLAN_DHCP
  listen,         \* WLAN_SMART_CONFIG_START
  configured,     \* WLAN_SMART_CONFIG_FINISHED, WLAN_SERIAL_CONFIG_DONE
  deleteProfiles, \* WLAN_DELETE_PROFILES
  watchdog,       \* wlan_watchdog
  cloudConnect,   \* SPARK_CLOUD_CONNECT
  socketed,       \* SPARK_CLOUD_SOCKETED
  cloudConnected, \* SPARK_CLOUD_CONNECTED
  cfod,           \* cfod_count
  setUp,          \* SPARK_WIRING_APPLICATION: setup() has run
  alarm,          \* the RTC alarm is set
  profiles,       \* the CC3000 has a profile
  auto,           \* its connection policy: connect to a profile
  chip,           \* off, idle, assoc, ip; dropped: DISCONNECT event to come
  socket,         \* none, open, session: a handshake was made on it
  faults, calls,  \* so far
  wanted          \* history: user code asked for the cloud last

radio  == <<started, sleep, disconnect, chip, auto, socket>>
config == <<configured, deleteProfiles, profiles>>
link   == <<connected, dhcp, watchdog>>
cloud  == <<socketed, cloudConnected>>
user   == <<mode, setUp, alarm, calls, wanted>>
vars   == <<pc, radio, config, link, cloud, user, reset, listen, cloudConnect,
            cfod, faults>>

Fault(k) == faults[k] < MaxFault[k] /\ faults' = [faults EXCEPT ![k] = @ + 1]

-----------------------------------------------------------------------------
(* WiFiClass *)

Ready == started /\ dhcp

\* The listen() in connect() when there is no profile.
ConnectListens(p) == ~Ready /\ ~p

\* wlan_start switches the chip off and on.
WiFiConnect(p) ==
  IF Ready THEN UNCHANGED radio
  ELSE /\ disconnect' = FALSE /\ started' = TRUE /\ sleep' = FALSE
       /\ chip' = "idle" /\ socket' = "none"
       /\ auto' = (p \/ auto)

WiFiDisconnect ==
  IF Ready
    THEN /\ disconnect' = TRUE /\ cloudConnect' = FALSE /\ auto' = FALSE
         /\ chip' = IF chip \in {"assoc", "ip"} THEN "dropped" ELSE chip
         /\ socket' = "none"
         /\ UNCHANGED <<started, sleep>>
    ELSE UNCHANGED <<radio, cloudConnect>>

WiFiOn ==
  IF started THEN UNCHANGED radio
  ELSE /\ started' = TRUE /\ sleep' = FALSE /\ auto' = FALSE
       /\ chip' = "idle" /\ socket' = "none"
       /\ UNCHANGED disconnect

WiFiOff ==
  IF started
    THEN /\ chip' = "off" /\ socket' = "none" /\ sleep' = TRUE
         /\ cloudConnect' = FALSE
         /\ UNCHANGED <<started, disconnect, auto>>
    ELSE UNCHANGED <<radio, cloudConnect>>

Automatic == mode = "AUTOMATIC"

\* SPARK_WLAN_Setup connects in AUTOMATIC mode.
Init ==
  /\ mode \in Modes
  /\ pc = "start" /\ profiles \in BOOLEAN
  /\ started = Automatic /\ sleep = ~Automatic
  /\ chip = (IF Automatic THEN "idle" ELSE "off")
  /\ auto = (Automatic /\ profiles) /\ listen = (Automatic /\ ~profiles)
  /\ cloudConnect = Automatic /\ wanted = Automatic
  /\ reset = FALSE /\ disconnect = FALSE
  /\ connected = FALSE /\ dhcp = FALSE /\ watchdog = "off"
  /\ configured = [smart |-> TRUE, serial |-> TRUE] /\ deleteProfiles = FALSE
  /\ socketed = FALSE /\ cloudConnected = FALSE /\ cfod = 0
  /\ setUp = FALSE /\ alarm = FALSE /\ socket = "none"
  /\ faults = [k \in Faults |-> 0] /\ calls = 0

-----------------------------------------------------------------------------
(* SPARK_WLAN_Loop *)

NeedsReset == reset \/ sleep \/ watchdog = "expired"

\* Mutant: the count of failed connections survives.
BugResetKeepsCount ==
  /\ pc = "start" /\ NeedsReset /\ pc' = "config"
  /\ IF started
       THEN /\ watchdog' = "off" /\ connected' = FALSE /\ dhcp' = FALSE
            /\ reset' = FALSE /\ started' = FALSE
            /\ socketed' = FALSE /\ cloudConnected' = FALSE
       ELSE UNCHANGED <<link, reset, started, cloud>>
  /\ UNCHANGED <<sleep, disconnect, chip, auto, socket, config, user, listen,
                 cloudConnect, cfod, faults>>

\* Mutant: WLAN_DHCP survives.
BugResetKeepsDhcp ==
  /\ pc = "start" /\ NeedsReset /\ pc' = "config"
  /\ IF started
       THEN /\ watchdog' = "off" /\ connected' = FALSE
            /\ reset' = FALSE /\ started' = FALSE
            /\ socketed' = FALSE /\ cloudConnected' = FALSE /\ cfod' = 0
       ELSE UNCHANGED <<connected, watchdog, reset, started, cloud, cfod>>
  /\ UNCHANGED <<dhcp, sleep, disconnect, chip, auto, socket, config, user, listen,
                 cloudConnect, faults>>

\* WiFi.off() at the end of this branch finds SPARK_WLAN_STARTED already cleared.
Reset ==
  /\ pc = "start" /\ NeedsReset /\ pc' = "config"
  /\ IF started
       THEN /\ watchdog' = "off" /\ connected' = FALSE /\ dhcp' = FALSE
            /\ reset' = FALSE /\ started' = FALSE
            /\ socketed' = FALSE /\ cloudConnected' = FALSE /\ cfod' = 0
       ELSE UNCHANGED <<link, reset, started, cloud, cfod>>
  /\ UNCHANGED <<sleep, disconnect, chip, auto, socket, config, user, listen,
                 cloudConnect, faults>>

Start ==
  /\ pc = "start" /\ ~NeedsReset /\ pc' = "config"
  /\ IF started
       THEN UNCHANGED <<radio, listen, watchdog>>
       ELSE /\ watchdog' = IF disconnect THEN watchdog ELSE "armed"
            /\ WiFiConnect(profiles) /\ listen' = (listen \/ ConnectListens(profiles))
  /\ UNCHANGED <<config, connected, dhcp, cloud, user, reset, cloudConnect, cfod, faults>>

\* Start_Smart_Config up to its loop.  WLAN_DHCP is cleared first, so that
\* WiFi.disconnect() finds nothing to do.
StartSmartConfig ==
  /\ pc = "config" /\ listen /\ pc' = "listening"
  /\ configured' = [smart |-> FALSE, serial |-> FALSE]
  /\ connected' = FALSE /\ dhcp' = FALSE
  /\ socketed' = FALSE /\ cloudConnected' = FALSE
  /\ WiFiOn
  /\ UNCHANGED <<deleteProfiles, profiles, watchdog, user, reset, listen,
                 cloudConnect, cfod, faults>>

SkipConfig ==
  /\ pc = "config" /\ ~listen /\ pc' = "cloud"
  /\ UNCHANGED <<radio, config, link, cloud, user, reset, listen, cloudConnect,
                 cfod, faults>>

Listening == listen /\ ~configured.smart /\ ~configured.serial

ClearCredentials ==
  /\ pc = "listening" /\ Listening /\ deleteProfiles
  /\ profiles' = FALSE /\ deleteProfiles' = FALSE
  /\ UNCHANGED <<pc, radio, configured, link, cloud, user, reset, listen,
                 cloudConnect, cfod, faults>>

\* Credentials typed over the serial line: wifi_add_profile_callback.
SerialConfig ==
  /\ pc = "listening" /\ Listening /\ ~deleteProfiles
  /\ configured' = [configured EXCEPT !.serial = TRUE]
  /\ profiles' = (profiles \/ started)
  /\ UNCHANGED <<pc, radio, deleteProfiles, link, cloud, user, reset, listen,
                 cloudConnect, cfod, faults>>

\* The end of Start_Smart_Config; reading the smart configuration may fail.
EndSmartConfig ==
  /\ pc = "listening" /\ ~Listening /\ pc' = "cloud"
  /\ \/ profiles' = (profiles \/ configured.smart) /\ UNCHANGED faults
     \/ configured.smart /\ Fault("smartConfig") /\ UNCHANGED profiles
  /\ WiFiConnect(profiles') /\ listen' = FALSE
  /\ UNCHANGED <<configured, deleteProfiles, link, cloud, user, reset,
                 cloudConnect, cfod>>

CloudOff ==
  /\ pc = "cloud" /\ ~cloudConnect /\ pc' = "user"
  /\ IF socketed \/ cloudConnected
       THEN socket' = "none" /\ socketed' = FALSE /\ cloudConnected' = FALSE
       ELSE UNCHANGED <<socket, cloud>>
  /\ UNCHANGED <<started, sleep, disconnect, chip, auto, config, link, user,
                 reset, listen, cloudConnect, cfod, faults>>

NeedsSocket == dhcp /\ ~sleep /\ ~socketed

CloudHasSocket ==
  /\ pc = "cloud" /\ cloudConnect /\ ~NeedsSocket /\ pc' = "session"
  /\ UNCHANGED <<radio, config, link, cloud, user, reset, listen, cloudConnect,
                 cfod, faults>>

\* Spark_Connect closes what is left of the last socket first.
SparkConnect ==
  /\ pc = "cloud" /\ cloudConnect /\ NeedsSocket /\ pc' = "connecting"
  /\ socket' = "none"
  /\ UNCHANGED <<started, sleep, disconnect, chip, auto, config, link, cloud,
                 user, reset, listen, cloudConnect, cfod, faults>>

ConnectSucceeds ==
  /\ pc = "connecting" /\ chip = "ip" /\ pc' = "connectDone"
  /\ socket' = "open"
  /\ UNCHANGED <<started, sleep, disconnect, chip, auto, config, link, cloud,
                 user, reset, listen, cloudConnect, cfod, faults>>

ConnectDone ==
  /\ pc = "connectDone" /\ pc' = "session"
  /\ cfod' = 0 /\ socketed' = TRUE
  /\ UNCHANGED <<radio, config, link, cloudConnected, user, reset, listen,
                 cloudConnect, faults>>

\* Failed connections, and failed tests of the Internet after them, are counted.
ConnectFails ==
  /\ pc = "connecting"
  /\ (chip # "ip" /\ UNCHANGED faults) \/ Fault("refused")
  /\ IF reset
       THEN pc' = "user" /\ UNCHANGED <<reset, cfod, socketed>>
       ELSE \E internet \in {FALSE, chip = "ip"} :
              /\ pc' = "session" /\ socketed' = FALSE
              /\ cfod' = IF internet THEN cfod + 1 ELSE cfod + 2
              /\ reset' = (MaxFailedConnects \in cfod + 1 .. cfod')
  /\ UNCHANGED <<radio, config, link, cloudConnected, user, listen, cloudConnect>>

NoSession ==
  /\ pc = "session" /\ ~socketed /\ pc' = "user"
  /\ UNCHANGED <<radio, config, link, cloud, user, reset, listen, cloudConnect,
                 cfod, faults>>

NeedsHandshake ==
  /\ pc = "session" /\ socketed
  /\ pc' = IF cloudConnected THEN "process" ELSE "handshaking"
  /\ UNCHANGED <<radio, config, link, cloud, user, reset, listen, cloudConnect,
                 cfod, faults>>

\* SparkProtocol::handshake returns; Spark_Handshake goes on to announce itself.
HandshakeSucceeds ==
  /\ pc = "handshaking" /\ socket = "open" /\ pc' = "announcing"
  /\ socket' = "session"
  /\ UNCHANGED <<started, sleep, disconnect, chip, auto, config, link, cloud,
                 user, reset, listen, cloudConnect, cfod, faults>>

HandshakeFails ==
  /\ pc = "handshaking" /\ pc' = "process"
  /\ (socket # "open" /\ UNCHANGED faults) \/ Fault("handshake")
  /\ socket' = "none"
  /\ UNCHANGED <<started, sleep, disconnect, chip, auto, config, link, cloud,
                 user, reset, listen, cloudConnect, cfod>>

HandshakeDone ==
  /\ pc = "announcing" /\ pc' = "process"
  /\ cloudConnected' = TRUE
  /\ UNCHANGED <<radio, config, link, socketed, user, reset, listen,
                 cloudConnect, cfod, faults>>

\* Mutant: a connection without a session is not looked after.
BugProcessConnected ==
  IF socketed /\ cloudConnected /\ socket # "session"
    THEN socketed' = FALSE /\ cloudConnected' = FALSE
    ELSE UNCHANGED cloud

\* SparkClass::process; event_loop gives up a connection without a session.
Process ==
  IF socketed /\ socket # "session"
    THEN socketed' = FALSE /\ cloudConnected' = FALSE
    ELSE UNCHANGED cloud

LoopProcess ==
  /\ pc = "process" /\ pc' = "user"
  /\ IF mode = "MANUAL" THEN UNCHANGED cloud ELSE Process
  /\ UNCHANGED <<radio, config, link, user, reset, listen, cloudConnect, cfod,
                 faults>>

-----------------------------------------------------------------------------
(* User code, when main lets it run *)

UserRuns == sleep \/ ~cloudConnect \/ cloudConnected \/ setUp

Call(name) ==
  /\ pc = "user" /\ UserRuns /\ name \in Calls /\ calls < MaxCall
  /\ calls' = calls + 1 /\ setUp' = TRUE /\ UNCHANGED mode

Call_Connect ==
  /\ WiFiConnect(profiles) /\ listen' = (listen \/ ConnectListens(profiles))
  /\ UNCHANGED alarm
  /\ \/ Call("WiFi.connect") /\ UNCHANGED <<cloudConnect, wanted>>
     \/ Call("Spark.connect") /\ cloudConnect' = TRUE /\ wanted' = TRUE
  /\ UNCHANGED <<pc, config, link, cloud, reset, cfod, faults>>

Call_Disconnect ==
  /\ \/ Call("WiFi.disconnect") /\ WiFiDisconnect
     \/ Call("Spark.disconnect") /\ cloudConnect' = FALSE /\ UNCHANGED radio
  /\ wanted' = FALSE
  /\ UNCHANGED <<pc, config, link, cloud, alarm, reset, listen, cfod, faults>>

Call_Off ==
  /\ \/ Call("WiFi.off") /\ UNCHANGED alarm
     \/ Call("Spark.sleep") /\ alarm' = TRUE
  /\ WiFiOff /\ wanted' = FALSE
  /\ UNCHANGED <<pc, config, link, cloud, reset, listen, cfod, faults>>

Call_On ==
  /\ Call("WiFi.on") /\ WiFiOn
  /\ UNCHANGED <<pc, config, link, cloud, alarm, wanted, reset, listen,
                 cloudConnect, cfod, faults>>

Call_Listen ==
  /\ Call("WiFi.listen") /\ listen' = TRUE
  /\ UNCHANGED <<pc, radio, config, link, cloud, alarm, wanted, reset,
                 cloudConnect, cfod, faults>>

\* loop() returns.  In MANUAL mode it has called Spark.process().
UserDone ==
  /\ pc = "user" /\ pc' = "start"
  /\ IF UserRuns THEN /\ setUp' = TRUE
                      /\ IF mode = "MANUAL" THEN Process ELSE UNCHANGED cloud
     ELSE UNCHANGED <<setUp, cloud>>
  /\ UNCHANGED <<radio, config, link, mode, alarm, calls, wanted, reset, listen,
                 cloudConnect, cfod, faults>>

UserCall == Call_Connect \/ Call_Disconnect \/ Call_Off \/ Call_On \/ Call_Listen

-----------------------------------------------------------------------------
(* Interrupts: WLAN_Async_Callback *)

\* An event of the chip that is about to be restarted, or to listen, comes as a
\* coincidence.
InTime == IF started /\ pc # "listening" THEN UNCHANGED faults ELSE Fault("late")

Connects == chip = "idle" /\ auto /\ profiles /\ pc # "listening"

EventConnect ==
  /\ Connects /\ InTime
  /\ chip' = "assoc" /\ connected' = TRUE
  /\ watchdog' = IF disconnect THEN watchdog ELSE "armed"
  /\ UNCHANGED <<pc, started, sleep, disconnect, auto, socket, config, dhcp, cloud,
                 user, reset, listen, cloudConnect, cfod>>

EventDhcp ==
  /\ chip = "assoc"
  /\ \/ chip' = "ip" /\ dhcp' = TRUE /\ watchdog' = "off" /\ InTime
     \/ dhcp' = FALSE /\ Fault("dhcp") /\ UNCHANGED <<chip, watchdog>>
  /\ UNCHANGED <<pc, started, sleep, disconnect, auto, socket, config, connected,
                 cloud, user, reset, listen, cloudConnect, cfod>>

\* Mutant: a disconnection that user code asked for starts the watchdog too.
BugDisconnectArms ==
  /\ \/ chip = "dropped" /\ InTime
     \/ /\ chip \in {"assoc", "ip"} \/ Connects
        /\ Fault(IF started THEN "link" ELSE "late")
  /\ chip' = "idle" /\ socket' = "none" /\ watchdog' = "armed"
  /\ connected' = FALSE /\ dhcp' = FALSE
  /\ socketed' = FALSE /\ cloudConnected' = FALSE
  /\ UNCHANGED <<pc, started, sleep, disconnect, auto, config, user, reset,
                 listen, cloudConnect, cfod>>

EventDisconnect ==
  /\ \/ chip = "dropped" /\ InTime
     \/ /\ chip \in {"assoc", "ip"} \/ Connects
        /\ Fault(IF started THEN "link" ELSE "late")
  /\ chip' = "idle" /\ socket' = "none"
  /\ watchdog' = IF (connected /\ ~disconnect) \/ (~connected /\ ~listen)
                   THEN "armed" ELSE watchdog
  /\ connected' = FALSE /\ dhcp' = FALSE
  /\ socketed' = FALSE /\ cloudConnected' = FALSE
  /\ UNCHANGED <<pc, started, sleep, disconnect, auto, config, user, reset,
                 listen, cloudConnect, cfod>>

EventSmartConfig ==
  /\ pc = "listening" /\ Listening /\ chip # "off"
  /\ configured' = [configured EXCEPT !.smart = TRUE]
  /\ UNCHANGED <<pc, radio, deleteProfiles, profiles, link, cloud, user, reset,
                 listen, cloudConnect, cfod, faults>>

\* TCP_CLOSE_WAIT: the cloud has closed sparkSocket.
EventClose ==
  /\ socket \in {"open", "session"} /\ Fault("close")
  /\ socket' = "none" /\ socketed' = FALSE /\ cloudConnected' = FALSE
  /\ UNCHANGED <<pc, started, sleep, disconnect, chip, auto, config, link, user,
                 reset, listen, cloudConnect, cfod>>

(* Timing_Decrement: the button is held for 3 or 7 seconds *)

Button ==
  /\ ~sleep /\ Fault("button")
  /\ IF listen THEN deleteProfiles' = TRUE /\ UNCHANGED listen
               ELSE listen' = TRUE /\ UNCHANGED deleteProfiles
  /\ UNCHANGED <<pc, radio, configured, profiles, link, cloud, user, reset,
                 cloudConnect, cfod>>

(* RTCAlarm_IRQHandler *)

\* Mutant: the Core goes on sleeping.
BugAlarmIgnored ==
  /\ alarm /\ alarm' = FALSE
  /\ IF started THEN Fault("early") ELSE UNCHANGED faults
  /\ UNCHANGED <<pc, started, sleep, disconnect, chip, auto, socket, config, link,
                 cloud, mode, setUp, calls, wanted, reset, listen, cloudConnect,
                 cfod>>

\* Early: main has not been through SPARK_WLAN_Loop since WiFi.off().
Alarm ==
  /\ alarm /\ alarm' = FALSE /\ sleep' = FALSE
  /\ IF started THEN Fault("early") ELSE UNCHANGED faults
  /\ UNCHANGED <<pc, started, disconnect, chip, auto, socket, config, link, cloud,
                 mode, setUp, calls, wanted, reset, listen, cloudConnect, cfod>>

\* 30 seconds are up.  They are enough for the next event of the chip unless that
\* is slow.
WatchdogExpires ==
  /\ watchdog = "armed" /\ watchdog' = "expired"
  /\ IF Connects \/ chip \in {"assoc", "dropped"}
       THEN Fault("slow") ELSE UNCHANGED faults
  /\ UNCHANGED <<pc, radio, config, connected, dhcp, cloud, user, reset, listen,
                 cloudConnect, cfod>>

-----------------------------------------------------------------------------
Main ==
  \/ Reset \/ Start \/ StartSmartConfig \/ SkipConfig \/ ClearCredentials
  \/ EndSmartConfig \/ CloudOff \/ CloudHasSocket \/ SparkConnect
  \/ ConnectSucceeds \/ ConnectDone \/ ConnectFails \/ NoSession \/ NeedsHandshake
  \/ HandshakeSucceeds \/ HandshakeFails \/ HandshakeDone \/ LoopProcess \/ UserDone

ChipEvent == EventConnect \/ EventDhcp \/ EventDisconnect \/ EventSmartConfig

Next == Main \/ SerialConfig \/ UserCall \/ ChipEvent \/ EventClose \/ Button
        \/ Alarm \/ WatchdogExpires

Spec == Init /\ [][Next]_vars

\* Main and the timers run, the chip reports what it does, and somebody answers
\* when the Core listens for credentials.
FairSpec ==
  /\ Spec /\ WF_vars(Main) /\ WF_vars(ChipEvent) /\ WF_vars(Alarm)
  /\ WF_vars(WatchdogExpires)

-----------------------------------------------------------------------------
(* Properties *)

TypeOK ==
  /\ pc \in {"start", "config", "listening", "cloud", "connecting", "connectDone",
             "session", "handshaking", "announcing", "process", "user"}
  /\ mode \in Modes
  /\ <<started, sleep, reset, disconnect, connected, dhcp, listen>> \in [1 .. 7 -> BOOLEAN]
  /\ configured \in [smart : BOOLEAN, serial : BOOLEAN]
  /\ <<deleteProfiles, cloudConnect, socketed, cloudConnected>> \in [1 .. 4 -> BOOLEAN]
  /\ <<setUp, alarm, profiles, auto, wanted>> \in [1 .. 5 -> BOOLEAN]
  /\ watchdog \in {"off", "armed", "expired"}
  /\ cfod \in 0 .. MaxFailedConnects + 1
  /\ chip \in {"off", "idle", "assoc", "ip", "dropped"}
  /\ socket \in {"none", "open", "session"}
  /\ faults \in [Faults -> Nat] /\ calls \in 0 .. MaxCall

Connected == socketed /\ cloudConnected

\* What main takes for a working Wi-Fi connection is one, or its loss has yet to be
\* reported: no reset, restart or call leaves WLAN_DHCP behind.
ReadyIsReal == Ready /\ ~sleep => chip \in {"ip", "dropped"}

\* "if WiFi.disconnect called, do not enable wlan watchdog": a connection that user
\* code gave up is never restored by the watchdog.
StaysDisconnected == disconnect => watchdog = "off"

\* However the network, the cloud and the button disturb it, in the end the Core is
\* on Wi-Fi and in a session with the cloud, and stays there.
EndsConnected == <>[](wanted => Connected /\ chip = "ip" /\ socket = "session")

\* "Schedule Spark's cloud connection and handshake": user code that asked for the
\* cloud last gets it.
ConnectScheduled == wanted ~> (Connected \/ ~wanted)

\* "Wake up from Spark.sleep mode(SLEEP_MODE_WLAN)": Wi-Fi is back some time after
\* the alarm was set.
WakesUp == alarm ~> (started /\ chip = "ip")

\* "Schedule Spark's cloud connection and handshake": Spark.connected() answers for
\* a connection on which a handshake was made.
SessionHandshaked == Connected => socket # "open"

\* "If WiFi module is connected, disconnect it": the Core is not on Wi-Fi while it
\* listens for credentials.
ListensDisconnected == pc = "listening" => chip # "ip"

\* RESET_ON_CFOD, "1 Will do reset": a reset after failed connections is carried out.
ResetHappens == reset ~> ~reset
=============================================================================
