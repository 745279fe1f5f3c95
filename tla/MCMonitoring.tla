---------------------------- MODULE MCMonitoring ----------------------------
(* A master that is always heard and a slave that may fall silent; times   *)
(* keep the order of the code's, scaled down.                              *)
EXTENDS Monitoring

CONSTANTS master, slave

MCRobots  == {master, slave}
MCFragile == {slave}
MCCodes   == {"COMMUNICATION_LOSS", "BATTERY_CRITICAL"}
MCClear   == [c \in MCCodes |-> 1]
MCHold    == [c \in MCCodes |-> IF c = "BATTERY_CRITICAL" THEN 1 ELSE 0]
=============================================================================
