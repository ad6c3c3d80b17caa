------------------------------ MODULE MCReadData ------------------------------
(***************************************************************************)
(* Model-checking instances of ReadData: a sensor of type 1 and one of a   *)
(* type that is not read.                                                  *)
(***************************************************************************)
EXTENDS ReadData

MCTypeOfSensor == [s \in SensorIndices |-> IF s = 0 THEN 1 ELSE 0]
MCReadings == {[T |-> 1, H |-> 1], [T |-> 1, H |-> 2]}
=============================================================================
