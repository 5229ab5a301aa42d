---------------------------- MODULE MCMqttDevice ----------------------------
(***************************************************************************)
(* Instances of MqttDevice.                                                *)
(***************************************************************************)
EXTENDS MqttDevice, FiniteSetsExt

Times(n, kinds) == [k \in Faults |-> IF k \in kinds THEN n ELSE 0]

AnyThree == {Times(1, kinds) : kinds \in kSubset(3, Faults \ {"button", "late"})}

LateAndOne == {Times(1, {"late", k}) : k \in Faults \ {"button"}}

\* The connection stays as it is, but for what a button does.
ButtonKept == {Times(1, {"button", k}) : k \in {"server", "refused", "half"}}

Failures == AnyThree \cup LateAndOne \cup ButtonKept

ButtonLost == {Times(1, {"button", "close"})}

Late == {Times(1, {"late"})}
=============================================================================
