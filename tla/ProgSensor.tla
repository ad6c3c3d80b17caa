------------------------------ MODULE ProgSensor ------------------------------
(***************************************************************************)
(* The task ProgrammingSens (ProgrammingSensor, ScanSensor and Master_RW   *)
(* of ModBus.cpp) and the one sensor on its bus: it scans the bus at every *)
(* speed and, when the Model's flag asks for it, writes a new address and  *)
(* a new speed into the sensor.  Settings5 adds the screen that starts,    *)
(* kills and commands the task.                                            *)
(*                                                                         *)
(* A request on the bus is one step with the outcome of Transaction.  The  *)
(* task shares the Model with the screen, so each access of it is a step.  *)
(***************************************************************************)
EXTENDS Integers

CONSTANTS
    Addresses,        \* the Modbus addresses a sensor may have
    BAUD_RATE_NUMBER, \* the number of speeds; a speed is its index
    Chosen,           \* what the user chooses: types, addresses and speeds
    RetryRange        \* range of the retry counter i, a uint8_t

Speeds == 0 .. BAUD_RATE_NUMBER - 1
SensNullValue == 255
AddressReg == "0x7D0"
SpeedReg == "0x7D1"

ASSUME ConstantsAssumption ==
    /\ Addresses \subseteq 1 .. 247
    /\ BAUD_RATE_NUMBER \in 1 .. 254
    /\ Chosen \in [type : SUBSET (0 .. 2), addr : SUBSET Addresses,
                   speed : SUBSET Speeds]
    /\ RetryRange \in Nat
    /\ RetryRange > 4

VARIABLES
    pc,             \* where the task is; "off" when there is none
    scan,           \* ScanSensor's i
    setting, after, \* setCurrentVal_PR: its arguments, and where it returns
    i,              \* retries of a write
    WR,             \* WR_Address and WR_BaudRate
    speed,          \* huart4.Init.BaudRate
    Sens,           \* SensPortNumber and SensBaudRateIndex
    sensor,         \* the sensor's own registers
    Type_of_sensor, \* and the rest of the Model:
    PR_sensor,      \* Address_PR_sensor and BaudRate_PR_sensor
    FlagPR,         \* FlagCurrentValue_PR_sensor
    WR_to_sensor,   \* Address_WR_to_sensor and BaudRate_WR_to_sensor
    Flag_WR         \* Flag_WR_to_sensor

local == <<pc, scan, setting, after, i, WR>>
bus == <<speed, Sens, sensor>>
request == <<Type_of_sensor, WR_to_sensor, Flag_WR>>
display == <<PR_sensor, FlagPR>>
taskVars == <<local, bus, request, display>>

Points == {"off", "switch", "set", "setBaud", "setFlag", "while", "scan",
           "test", "readAddress", "writeAddress", "writeSpeed"}

Pair(a, b) == [addr |-> a, baud |-> b]
NoSensor == Pair(SensNullValue, SensNullValue)
Nothing == Pair(0, 0)

TaskInit ==
    /\ pc = "off"
    /\ scan = 0
    /\ setting = NoSensor
    /\ after = "switch"
    /\ i = 0
    /\ WR = Nothing
    /\ speed = 0
    /\ Sens = Nothing
    /\ sensor \in [addr : Addresses, baud : Speeds]
    /\ Type_of_sensor = 0
    /\ PR_sensor = Nothing
    /\ FlagPR = 0
    /\ WR_to_sensor = Nothing
    /\ Flag_WR = 0

(* Out of their scope the task's locals have their initial values.         *)
LocalsGone ==
    /\ scan' = 0
    /\ setting' = NoSensor
    /\ after' = "switch"
    /\ i' = 0
    /\ WR' = Nothing

-----------------------------------------------------------------------------
(* Model::setCurrentVal_PR: the address, the speed, then the flag.         *)
CallSet(p, return) ==
    /\ setting' = p
    /\ after' = return
    /\ pc' = "set"

SetAddressPR ==
    /\ pc = "set"
    /\ PR_sensor' = [PR_sensor EXCEPT !.addr = setting.addr]
    /\ pc' = "setBaud"
    /\ UNCHANGED <<scan, setting, after, i, WR, bus, request, FlagPR>>

SetBaudRatePR ==
    /\ pc = "setBaud"
    /\ PR_sensor' = [PR_sensor EXCEPT !.baud = setting.baud]
    /\ pc' = "setFlag"
    /\ UNCHANGED <<scan, setting, after, i, WR, bus, request, FlagPR>>

RaisedWhenFound == IF setting = NoSensor THEN FlagPR ELSE 1
Raised == 1

SetFlagPR ==
    /\ pc = "setFlag"
    /\ FlagPR' = Raised
    /\ pc' = after
    /\ setting' = NoSensor
    /\ after' = "switch"
    /\ UNCHANGED <<scan, i, WR, bus, request, PR_sensor>>

-----------------------------------------------------------------------------
(* ProgrammingSensor: case 0 and the entry of case 1 show that no sensor   *)
(* is known.  Case 2 does nothing.                                         *)
Switch ==
    /\ pc = "switch"
    /\ \/ Type_of_sensor = 0 /\ CallSet(NoSensor, "switch")
       \/ Type_of_sensor = 1 /\ CallSet(NoSensor, "while")
    /\ UNCHANGED <<scan, i, WR, bus, request, display>>

While ==
    /\ pc = "while"
    /\ \/ Type_of_sensor = 1 /\ pc' = "scan"
       \/ Type_of_sensor # 1 /\ pc' = "switch"
    /\ UNCHANGED <<scan, setting, after, i, WR, bus, request, display>>

(* The sensor hears a request at its speed, to its address or to all.      *)
Hears(s, a) == s = sensor.baud /\ a \in {sensor.addr, 255}

(* Master_RW for a write.  The sensor writes the register, or keeps it if  *)
(* it does not accept the value, and answers with what the register then   *)
(* holds.  The request may be lost, and so may the answer to a request the *)
(* sensor has carried out.                                                 *)
Served(reg, v) ==
    \/ UNCHANGED sensor
    \/ sensor' = IF reg = AddressReg THEN [sensor EXCEPT !.addr = v]
                                     ELSE [sensor EXCEPT !.baud = v]

Answer(reg) == IF reg = AddressReg THEN sensor'.addr ELSE sensor'.baud

Answered(a, reg, v) == Hears(speed, a) /\ Served(reg, v)
Unanswered(a, reg, v) == UNCHANGED sensor \/ Answered(a, reg, v)

(* ScanSensor: one speed after the other until the sensor answers.  The    *)
(* sensor is then shown if it is not the one the Model has, which only     *)
(* this task changes.                                                      *)
OnePastLast == BAUD_RATE_NUMBER
LastSpeed == BAUD_RATE_NUMBER - 1

Scan ==
    /\ pc = "scan"
    /\ speed' = scan
    /\ \/ /\ Hears(scan, 255)
          /\ Sens' = sensor
          /\ scan' = 0
          /\ \/ PR_sensor # sensor /\ CallSet(sensor, "test")
             \/ PR_sensor = sensor /\ pc' = "test" /\ UNCHANGED <<setting, after>>
       \/ /\ scan < LastSpeed
          /\ scan' = scan + 1
          /\ UNCHANGED <<Sens, pc, setting, after>>
       \/ /\ scan = LastSpeed
          /\ CallSet(NoSensor, "test")
          /\ scan' = 0
          /\ UNCHANGED Sens
    /\ UNCHANGED <<i, WR, sensor, request, display>>

(* The head of the loop that writes, and its two reads of the Model.       *)
Test ==
    /\ pc = "test"
    /\ \/ Flag_WR = 1 /\ pc' = "readAddress"
                      /\ WR' = [WR EXCEPT !.baud = WR_to_sensor.baud]
                      /\ UNCHANGED i
       \/ Flag_WR # 1 /\ pc' = "while" /\ WR' = Nothing /\ i' = 0
    /\ UNCHANGED <<scan, setting, after, bus, request, display>>

ReadAddress ==
    /\ pc = "readAddress"
    /\ WR' = [WR EXCEPT !.addr = WR_to_sensor.addr]
    /\ pc' = "writeAddress"
    /\ UNCHANGED <<scan, setting, after, i, bus, request, display>>

(* Only an answer with the address that was written leads to the speed;    *)
(* everything else gives up.                                               *)
AnyAddressTaken == TRUE
AddressTaken == Answer(AddressReg) = WR.addr

WriteAddress ==
    /\ pc = "writeAddress"
    /\ \/ /\ Answered(Sens.addr, AddressReg, WR.addr)
          /\ AddressTaken
          /\ Sens' = [Sens EXCEPT !.addr = WR.addr]
          /\ pc' = "writeSpeed"
          /\ UNCHANGED Flag_WR
       \/ /\ \/ /\ Answered(Sens.addr, AddressReg, WR.addr)
                /\ ~AddressTaken
             \/ Unanswered(Sens.addr, AddressReg, WR.addr)
          /\ Flag_WR' = 0
          /\ pc' = "test"
          /\ UNCHANGED Sens
    /\ UNCHANGED <<scan, setting, after, i, WR, speed, Type_of_sensor,
                   WR_to_sensor, display>>

(* The speed the sensor answers with is taken whatever it is.  A failure   *)
(* starts over with the address, and the fourth gives up.                  *)
SpeedWrittenToAddressReg == AddressReg
SpeedWrittenTo == SpeedReg
ResetRetry == 0
NextRetry == (i + 1) % RetryRange

WriteSpeed ==
    /\ pc = "writeSpeed"
    /\ pc' = "test"
    /\ \/ /\ Answered(Sens.addr, SpeedWrittenTo, WR.baud)
          /\ Flag_WR' = 0
          /\ Sens' = [Sens EXCEPT !.baud = Answer(SpeedWrittenTo)]
          /\ UNCHANGED i
       \/ /\ Unanswered(Sens.addr, SpeedWrittenTo, WR.baud)
          /\ i' = NextRetry
          /\ Flag_WR' = IF i = 3 THEN 0 ELSE Flag_WR
          /\ UNCHANGED Sens
    /\ UNCHANGED <<scan, setting, after, WR, speed, Type_of_sensor,
                   WR_to_sensor, display>>

(* The task is killed wherever it is.  A write it has just sent may still  *)
(* reach the sensor.                                                       *)
Killed ==
    /\ pc # "off"
    /\ pc' = "off"
    /\ \/ UNCHANGED sensor
       \/ pc = "writeAddress" /\ Answered(Sens.addr, AddressReg, WR.addr)
       \/ pc = "writeSpeed" /\ Answered(Sens.addr, SpeedWrittenTo, WR.baud)
    /\ LocalsGone
    /\ UNCHANGED <<speed, Sens, request, display>>

Task ==
    \/ SetAddressPR \/ SetBaudRatePR \/ SetFlagPR \/ Switch \/ While \/ Scan
    \/ Test \/ ReadAddress \/ WriteAddress \/ WriteSpeed
-----------------------------------------------------------------------------
Known(addresses, speeds) == [addr : addresses, baud : speeds]

TaskTypeOK ==
    /\ pc \in Points
    /\ scan \in Speeds
    /\ setting \in Known(Addresses, Speeds) \cup {NoSensor}
    /\ after \in {"switch", "while", "test"}
    /\ i \in 0 .. RetryRange - 1
    /\ WR \in Known(Chosen.addr \cup {0}, Speeds)
    /\ speed \in Speeds
    /\ Sens \in Known(Addresses \cup {0}, Speeds)
    /\ sensor \in Known(Addresses, Speeds)
    /\ Type_of_sensor \in 0 .. 2
    /\ PR_sensor \in Known(Addresses \cup {0, SensNullValue},
                           Speeds \cup {SensNullValue})
    /\ FlagPR \in {0, 1}
    /\ WR_to_sensor \in Known(Chosen.addr \cup {0}, Speeds)
    /\ Flag_WR \in {0, 1}
=============================================================================
