-------------------------- MODULE MCWlanSupervisor --------------------------
(***************************************************************************)
(* Instances of WlanSupervisor: which faults happen, how often, and which  *)
(* calls user code makes.                                                  *)
(***************************************************************************)
EXTENDS WlanSupervisor

Times(names, n) == [k \in Faults |-> IF k \in names THEN n ELSE 0]

BothModes   == {"AUTOMATIC", "MANUAL"}

NoFaults    == Times({}, 0)
Disturbed   == Times(Faults \ {"smartConfig", "late", "early"}, 1)
LinkAndSlow == Times({"link", "slow", "dhcp", "button"}, 1)
Disordered  == Times({"link", "slow", "dhcp", "button", "smartConfig"}, 1)
LateEvent   == Times({"slow", "late", "refused"}, 1)
EarlyAlarm  == Times({"early"}, 1)
ClosedOnce  == Times({"close"}, 1)
ButtonOnce  == Times({"button"}, 1)

NoCalls     == {}
CloudCalls  == {"Spark.connect", "Spark.disconnect", "Spark.sleep"}
WiFiCalls   == CallNames \ {"Spark.sleep"}
OffAndCloud == {"WiFi.off", "Spark.connect"}
SleepCall   == {"Spark.sleep"}
=============================================================================
