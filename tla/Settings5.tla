------------------------------ MODULE Settings5 -------------------------------
(***************************************************************************)
(* The screen Settings5 (Settings5View, Settings5Presenter) together with  *)
(* the task ProgSensor that it creates when it opens and kills when it     *)
(* closes.  The screen shows the sensor the task has found and lets the    *)
(* user choose its type, a new speed and a new address, and write them.    *)
(*                                                                         *)
(* A handler of the screen is one step.  The tick that updates the screen  *)
(* is two, for the task may set the Model between its reads.               *)
(***************************************************************************)
EXTENDS ProgSensor

VARIABLES
    screen,           \* "closed", "open", or where the tick is in the Model
    Set,              \* SetSensor, SetSpeed and SetAddress
    old,              \* the value an open wheel can restore
    wheel,            \* Selected, or "none" while no wheel is shown
    FlagWrite_visible,
    BTNWrite,         \* is the button "write" visible?
    shown             \* SensorCurrentAddress and SensorCurrentSpeed

view == <<Set, old, wheel, FlagWrite_visible, BTNWrite, shown>>
screenVars == <<screen, view>>
vars == <<taskVars, screenVars>>

Wheels == {"type", "speed", "addr"}
NothingSet == [type |-> 0, speed |-> 0, addr |-> 0]

(* The new values of the screen and the Model's request, before any.       *)
Init ==
    /\ TaskInit
    /\ screen = "closed"
    /\ Set = NothingSet
    /\ old = 0
    /\ wheel = "none"
    /\ FlagWrite_visible = 0
    /\ BTNWrite = FALSE
    /\ shown = Nothing

-----------------------------------------------------------------------------
NewView ==
    /\ Set' = NothingSet
    /\ old' = 0
    /\ wheel' = "none"
    /\ FlagWrite_visible' = 0
    /\ BTNWrite' = FALSE
    /\ shown' = Nothing

(* A new view, a new task, and sensor type 0.                              *)
setupScreen ==
    /\ screen = "closed"
    /\ screen' = "open"
    /\ pc' = "switch"
    /\ NewView
    /\ Type_of_sensor' = 0
    /\ UNCHANGED <<scan, setting, after, i, WR, bus, display, WR_to_sensor,
                   Flag_WR>>

(* osThreadTerminate.  The Model keeps its values, also the request to     *)
(* write.  The view is gone, and its globals are set before they are read. *)
tearDownScreen ==
    /\ screen = "open"
    /\ screen' = "closed"
    /\ Killed
    /\ NewView

(* A value that is known allows writing, one that is not forbids it.       *)
Allowed(flag) == flag = 1 /\ Set.speed # 0 /\ Set.addr # 0

ShowWrite(v) ==
    /\ FlagWrite_visible' = IF v # SensNullValue THEN 1 ELSE 0
    /\ BTNWrite' = Allowed(FlagWrite_visible')

(* ValUpdatePresenter clears the flag before it reads the values.          *)
Val_Addr_UpdateView ==
    /\ screen = "open"
    /\ FlagPR = 1
    /\ FlagPR' = 0
    /\ screen' = "baud"
    /\ shown' = [shown EXCEPT !.addr = PR_sensor.addr]
    /\ ShowWrite(PR_sensor.addr)
    /\ UNCHANGED <<Set, old, wheel, local, bus, request, PR_sensor>>

Val_BaudRate_UpdateView ==
    /\ screen = "baud"
    /\ screen' = "open"
    /\ shown' = [shown EXCEPT !.baud = PR_sensor.baud]
    /\ ShowWrite(PR_sensor.baud)
    /\ UNCHANGED <<Set, old, wheel, taskVars>>

-----------------------------------------------------------------------------
(* BTNSensorTypeClicked, BTNSetSpeedClicked, BTNSetAddressClicked.         *)
OpenWheel(w) ==
    /\ screen = "open"
    /\ wheel = "none"
    /\ wheel' = w
    /\ old' = Set[w]
    /\ BTNWrite' = FALSE
    /\ UNCHANGED <<screen, Set, FlagWrite_visible, shown, taskVars>>

(* The ItemSelectedHandlers: what is in the middle of the wheel.           *)
Select(v) ==
    /\ screen = "open"
    /\ wheel # "none"
    /\ v \in Chosen[wheel]
    /\ v # Set[wheel]
    /\ Set' = [Set EXCEPT ![wheel] = v]
    /\ UNCHANGED <<screen, old, wheel, FlagWrite_visible, BTNWrite, shown,
                   taskVars>>

BTNConfirmClicked ==
    /\ screen = "open"
    /\ wheel # "none"
    /\ wheel' = "none"
    /\ Type_of_sensor' = IF wheel = "type" THEN Set.type ELSE Type_of_sensor
    /\ old' = 0
    /\ BTNWrite' = Allowed(FlagWrite_visible)
    /\ UNCHANGED <<screen, Set, FlagWrite_visible, shown, local,
                   bus, display, WR_to_sensor, Flag_WR>>

BTNCancelClicked ==
    /\ screen = "open"
    /\ wheel # "none"
    /\ wheel' = "none"
    /\ Set' = [Set EXCEPT ![wheel] = old]
    /\ old' = 0
    /\ BTNWrite' = (FlagWrite_visible = 1 /\ Set'.speed # 0 /\ Set'.addr # 0)
    /\ UNCHANGED <<screen, FlagWrite_visible, shown, taskVars>>

(* BTNWriteClicked and PR_Sensor_Data_Write.                               *)
BTNWriteClicked ==
    /\ screen = "open"
    /\ BTNWrite
    /\ WR_to_sensor' = Pair(Set.addr, Set.speed)
    /\ Flag_WR' = 1
    /\ UNCHANGED <<screen, view, local, bus, Type_of_sensor, display>>

Tick == Val_Addr_UpdateView \/ Val_BaudRate_UpdateView

User ==
    \/ setupScreen \/ tearDownScreen
    \/ \E w \in Wheels : OpenWheel(w)
    \/ \E v \in UNION {Chosen[w] : w \in Wheels} : Select(v)
    \/ BTNConfirmClicked \/ BTNCancelClicked \/ BTNWriteClicked

TaskStep == Task /\ UNCHANGED screenVars

Next == TaskStep \/ Tick \/ User

Spec == Init /\ [][Next]_vars

(* The scheduler runs the task.  Nothing is assumed of the user, the       *)
(* display or the sensor.                                                  *)
FairSpec == Spec /\ WF_vars(TaskStep)
-----------------------------------------------------------------------------
TypeOK ==
    /\ TaskTypeOK
    /\ screen \in {"closed", "open", "baud"}
    /\ screen = "closed" <=> pc = "off"
    /\ Set \in [type : 0 .. 2, speed : Speeds, addr : Chosen.addr \cup {0}]
    /\ old \in 0 .. 2 \cup Speeds \cup Chosen.addr
    /\ wheel \in Wheels \cup {"none"}
    /\ FlagWrite_visible \in {0, 1}
    /\ BTNWrite \in BOOLEAN
    /\ shown \in Known(Addresses \cup {0, SensNullValue},
                       Speeds \cup {0, SensNullValue})

(* No change of the Model is lost: while the task scans or writes, a       *)
(* screen with no update pending shows the Model's pair, and the button    *)
(* can be shown exactly when that pair is a sensor.                        *)
DisplayIsCurrent ==
    screen = "open" /\ FlagPR = 0
      /\ pc \notin {"switch", "set", "setBaud", "setFlag"} =>
        /\ shown = PR_sensor
        /\ FlagWrite_visible = 1 <=> PR_sensor # NoSensor

(* Between the two writes the task and the sensor agree on the address and *)
(* the speed, so the second write can reach the sensor the first one did.  *)
AgreeBetweenWrites ==
    pc = "writeSpeed" => Sens.addr = sensor.addr /\ speed = sensor.baud

(* A write that succeeds leaves the address that was asked for in the      *)
(* sensor, and the task knows the address and the speed the sensor now     *)
(* has, which is the old one if the sensor did not accept the new one.     *)
WriteSucceeds == pc = "writeSpeed" /\ pc' = "test" /\ i' = i

SuccessIsKnown ==
    [][WriteSucceeds => /\ Sens' = sensor'
                        /\ sensor'.addr = WR.addr
                        /\ sensor'.baud \in {sensor.baud, WR.baud}]_vars

(* A request to write is carried out or given up, as long as the screen    *)
(* stays open and its sensor type selected, whatever the sensor answers.   *)
RequestEnds ==
    Flag_WR = 1 /\ pc # "off" ~>
        Flag_WR = 0 \/ pc = "off" \/ Type_of_sensor # 1
=============================================================================
