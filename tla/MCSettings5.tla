----------------------------- MODULE MCSettings5 ------------------------------
(***************************************************************************)
(* Model-checking instances of Settings5, and what comments of the code    *)
(* say of it that the code does not keep in every case.                    *)
(***************************************************************************)
EXTENDS Settings5

(* A sensor with address 1 or 2 and speed 0 or 1 that the user wants to    *)
(* have address 2 and speed 1.                                             *)
MCChosen == [type |-> {0, 1}, addr |-> {2}, speed |-> {1}]

(* ModBus.cpp:505-506, where a write follows a scan: the bus has the speed *)
(* the sensor works at, and its address is in SensPortNumber.              *)
ScanIsOver == pc \in {"scan", "setFlag"} /\ pc' = "test"

BusIsReadyToWrite ==
    [][ScanIsOver /\ Flag_WR = 1 =>
         speed' = sensor.baud /\ Sens'.addr = sensor.addr]_vars
=============================================================================
