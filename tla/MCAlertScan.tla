---------------------------- MODULE MCAlertScan ----------------------------
(***************************************************************************)
(* Instances of AlertScan for TLC: an alert that takes two audit lines and *)
(* the gateway's deny counter, which came with an upgrade and takes one.   *)
(***************************************************************************)
EXTENDS AlertScan

TwoAlerts == <<"auth", "gateway_egress">>
OneCounter == <<"gateway_egress">>
Thresholds == [a \in Alert |-> IF a = "auth" THEN 2 ELSE 1]
=============================================================================
