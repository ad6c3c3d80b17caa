------------------------------- MODULE ReadData -------------------------------
(***************************************************************************)
(* The task ReadData: MB_Master_Init, then a cycle over the sensors on     *)
(* every flag the one-second timer sets (Data.cpp, ModBus.cpp), the ring   *)
(* of the last TQ measures, and the temperature and humidity of the Model. *)
(* A request on the bus is one step with the outcome of Transaction.       *)
(***************************************************************************)
EXTENDS Integers

CONSTANTS
    SQ,          \* number of sensors
    TQ,          \* number of measures kept
    TypeOfSensor,\* 1: temperature and humidity, read here; other: not read
    Readings,    \* the measures a sensor may return, records of T and H
    TimeRange,   \* range of unsigned int, a multiple of TQ
    CntRange     \* range of uint16_t

SensorIndices == 0 .. SQ - 1

(* Master_Read_1 records 0 for both when a request fails.                  *)
NoMeasure == [T |-> 0, H |-> 0]
Measures == Readings \cup {NoMeasure}

ASSUME ConstantsAssumption ==
    /\ SQ \in Nat \ {0}
    /\ TQ \in Nat \ {0}
    /\ TypeOfSensor \in [SensorIndices -> {0, 1}]
    /\ Readings \subseteq [T : Int, H : Int]
    /\ TimeRange \in Nat \ {0}
    /\ TimeRange % TQ = 0
    /\ CntRange \in Nat \ {0}

VARIABLES
    pc,            \* where the task is
    SensorIndex,   \* the sensor it works on
    var,           \* retries made in MB_Master_Init
    CountRX,       \* how many of them were answered
    TimeFromStart,
    flag,          \* FLAG_ReadData of ReadDataEventHandle
    Active,        \* Sensor_array[].Active
    cnt,           \* Sensor_array[].OkCnt, ErrCnt, TxErrorCnt, RxErrorCnt
    Time, Data,    \* Sensor::Time, Sensor::T and H, slot by sensor
    Current,       \* Model::CurrentValueT and CurrentValueH
    Changed,       \* Model::FlagCurrentValueTChanged and ...HChanged
    shown,         \* what the screen shows
    history        \* for the properties only: answers, failures, cycles

vars == <<pc, SensorIndex, var, CountRX, TimeFromStart, flag, Active, cnt,
          Time, Data, Current, Changed, shown, history>>

Counters == {"OkCnt", "ErrCnt", "TxErrorCnt", "RxErrorCnt"}
Points == {"init", "retry", "initT", "initFlagT", "wait", "read",
           "T", "flagT", "H", "flagH"}

-----------------------------------------------------------------------------
Init ==
    /\ pc = "init"
    /\ SensorIndex = 0
    /\ var = 0
    /\ CountRX = 0
    /\ TimeFromStart = 0
    /\ flag = 0
    /\ Active = [s \in SensorIndices |-> 0]
    /\ cnt = [s \in SensorIndices |-> [c \in Counters |-> 0]]
    /\ Time = [i \in 0 .. TQ - 1 |-> [s \in SensorIndices |-> 0]]
    /\ Data = [i \in 0 .. TQ - 1 |-> [s \in SensorIndices |-> NoMeasure]]
    /\ Current = [s \in SensorIndices |-> NoMeasure]
    /\ Changed = [s \in SensorIndices |-> NoMeasure]
    /\ shown = [s \in SensorIndices |-> NoMeasure]
    /\ history = [first |-> [s \in SensorIndices |-> FALSE],
                  failed |-> [s \in SensorIndices |-> 0],
                  cycles |-> 0]

(* Sensor::PutData and Sensor::GetData: the slot of a tick.                *)
Slot(t) == t % TQ

GetData(s) == Data[Slot(TimeFromStart)][s]

(* What Master_Request may return.                                         *)
Outcomes == {"MB_ERROR_NO", "MB_ERROR_DMA_SEND", "MB_ERROR_UART_SEND",
             "MB_ERROR_UART_RECIEVE", "MB_ERROR_DMA_RECIEVE"}

(* The counter an outcome moves; an answer that fails CheckAnswerCRC is an *)
(* error of its own, and the branch default counts nothing.                *)
CounterOf(result, checked) ==
    CASE result = "MB_ERROR_NO" /\ checked -> "OkCnt"
      [] result = "MB_ERROR_NO" /\ ~checked -> "ErrCnt"
      [] result \in {"MB_ERROR_DMA_SEND", "MB_ERROR_UART_SEND"} -> "TxErrorCnt"
      [] result \in {"MB_ERROR_UART_RECIEVE", "MB_ERROR_DMA_RECIEVE"} ->
           "RxErrorCnt"
      [] OTHER -> "none"

Counted(result, checked) ==
    [s \in SensorIndices |-> [c \in Counters |->
        IF s = SensorIndex /\ c = CounterOf(result, checked)
        THEN (cnt[s][c] + 1) % CntRange
        ELSE cnt[s][c]]]

(* Sensor_Read: Master_Read_1 for a sensor of type 1; it records the tick  *)
(* and the measure, 0 when there is none.  A sensor of another type is an  *)
(* error at once, and nothing is recorded.  ok: MB_ERROR_NO is returned.   *)
Sensor_Read(ok) ==
    IF TypeOfSensor[SensorIndex] # 1
    THEN ~ok /\ UNCHANGED <<cnt, Time, Data>>
    ELSE /\ \E result \in Outcomes, checked \in BOOLEAN :
              /\ ok <=> result = "MB_ERROR_NO" /\ checked
              /\ cnt' = Counted(result, checked)
         /\ \E m \in IF ok THEN Readings ELSE {NoMeasure} :
              Data' = [Data EXCEPT ![Slot(TimeFromStart)][SensorIndex] = m]
         /\ Time' = [Time EXCEPT ![Slot(TimeFromStart)][SensorIndex] =
                       TimeFromStart]

(* The next sensor, or the wait for the timer after the last one.          *)
NextSensor(more) ==
    IF SensorIndex < SQ - 1
    THEN pc' = more /\ SensorIndex' = SensorIndex + 1
    ELSE pc' = "wait" /\ UNCHANGED SensorIndex

-----------------------------------------------------------------------------
(* MB_Master_Init.  One answer makes a sensor active.                      *)
InitRead ==
    /\ pc = "init"
    /\ \E ok \in BOOLEAN :
         /\ Sensor_Read(ok)
         /\ \/ /\ ok
               /\ Active' = [Active EXCEPT ![SensorIndex] = 1]
               /\ pc' = "initT"
               /\ UNCHANGED <<var, CountRX>>
            \/ /\ ~ok
               /\ CountRX' = 0
               /\ var' = 0
               /\ pc' = "retry"
               /\ UNCHANGED Active
         /\ history' = [history EXCEPT !.first[SensorIndex] = ok]
    /\ UNCHANGED <<SensorIndex, TimeFromStart, flag, Current, Changed, shown>>

(* Without it, all three of three more must be answered.                   *)
OneMoreRetry(n) == n <= 3
RetriesLeft(n) == n < 3
AnyAnswerIsStable(n) == n > 0
Stable(n) == n = 3

RetryRead ==
    /\ pc = "retry"
    /\ RetriesLeft(var)
    /\ \E ok \in BOOLEAN :
         /\ Sensor_Read(ok)
         /\ CountRX' = IF ok THEN CountRX + 1 ELSE CountRX
         /\ history' = [history EXCEPT !.failed[SensorIndex] =
                                           IF ok THEN @ ELSE @ + 1]
    /\ var' = var + 1
    /\ UNCHANGED <<pc, SensorIndex, TimeFromStart, flag, Active, Current,
                   Changed, shown>>

Decide ==
    /\ pc = "retry"
    /\ ~RetriesLeft(var)
    /\ \/ /\ Stable(CountRX)
          /\ Active' = [Active EXCEPT ![SensorIndex] = 1]
          /\ pc' = "initT"
          /\ UNCHANGED SensorIndex
       \/ /\ ~Stable(CountRX)
          /\ Active' = [Active EXCEPT ![SensorIndex] = 0]
          /\ NextSensor("init")
    /\ UNCHANGED <<var, CountRX, TimeFromStart, flag, cnt, Time, Data, Current,
                   Changed, shown, history>>

(* Model::setCurrentVal_T and setCurrentVal_H: first the value, then the   *)
(* flag that makes the screen read it.                                     *)
SetValue(q) == Current' = [Current EXCEPT ![SensorIndex][q] =
                                            GetData(SensorIndex)[q]]
KeepFlag(q) == UNCHANGED Changed
SetFlag(q) == Changed' = [Changed EXCEPT ![SensorIndex][q] = 1]

InitT ==
    /\ pc = "initT"
    /\ SetValue("T")
    /\ pc' = "initFlagT"
    /\ UNCHANGED <<SensorIndex, var, CountRX, TimeFromStart, flag, Active, cnt,
                   Time, Data, Changed, shown, history>>

InitFlagT ==
    /\ pc = "initFlagT"
    /\ SetFlag("T")
    /\ NextSensor("init")
    /\ UNCHANGED <<var, CountRX, TimeFromStart, flag, Active, cnt, Time, Data,
                   Current, shown, history>>

-----------------------------------------------------------------------------
(* ReadDataFunc: osEventFlagsWait takes the flag and a cycle starts.       *)
AdvanceTwice(t) == (t + 2) % TimeRange
Advance(t) == (t + 1) % TimeRange

StartCycle ==
    /\ pc = "wait"
    /\ flag = 1
    /\ flag' = 0
    /\ TimeFromStart' = Advance(TimeFromStart)
    /\ history' = [history EXCEPT !.cycles = IF @ < TQ THEN @ + 1 ELSE @]
    /\ pc' = "read"
    /\ SensorIndex' = 0
    /\ UNCHANGED <<var, CountRX, Active, cnt, Time, Data, Current, Changed,
                   shown>>

(* Only active sensors are asked.                                          *)
CycleRead ==
    /\ pc = "read"
    /\ Active[SensorIndex] = 1
    /\ \E ok \in BOOLEAN : Sensor_Read(ok)
    /\ pc' = "T"
    /\ UNCHANGED <<SensorIndex, var, CountRX, TimeFromStart, flag, Active,
                   Current, Changed, shown, history>>

SkipToItself == UNCHANGED <<pc, SensorIndex>>
SkipToNext == NextSensor("read")

CycleSkip ==
    /\ pc = "read"
    /\ Active[SensorIndex] # 1
    /\ SkipToNext
    /\ UNCHANGED <<var, CountRX, TimeFromStart, flag, Active, cnt, Time, Data,
                   Current, Changed, shown, history>>

(* A value that differs from the Model's is set, temperature then humidity.*)
DiffersFromMeasure(q) ==
    GetData(SensorIndex)[q] \notin {0, Current[SensorIndex][q]}
Differs(q) == Current[SensorIndex][q] # GetData(SensorIndex)[q]

Publish(q, setting, after) ==
    /\ pc = q
    /\ \/ Differs(q) /\ SetValue(q) /\ pc' = setting /\ UNCHANGED SensorIndex
       \/ ~Differs(q) /\ UNCHANGED Current /\ after
    /\ UNCHANGED <<var, CountRX, TimeFromStart, flag, Active, cnt, Time, Data,
                   Changed, shown, history>>

Flag(q, setting, after) ==
    /\ pc = setting
    /\ SetFlag(q)
    /\ after
    /\ UNCHANGED <<var, CountRX, TimeFromStart, flag, Active, cnt, Time, Data,
                   Current, shown, history>>

AfterT == pc' = "H" /\ UNCHANGED SensorIndex

PublishT == Publish("T", "flagT", AfterT)
FlagT == Flag("T", "flagT", AfterT)
PublishH == Publish("H", "flagH", NextSensor("read"))
FlagH == Flag("H", "flagH", NextSensor("read"))

-----------------------------------------------------------------------------
(* DataTimerFunc, once a second whatever the task is doing.  The event     *)
(* flag does not count: a tick that finds it set leaves no trace.          *)
DataTimerFunc ==
    /\ flag' = 1
    /\ UNCHANGED <<pc, SensorIndex, var, CountRX, TimeFromStart, Active, cnt,
                   Time, Data, Current, Changed, shown, history>>

(* The screen, on a tick of the display: it takes a changed value the way  *)
(* Settings5Presenter does, the flag first and then the value.             *)
Present(s, q) ==
    /\ Changed[s][q] = 1
    /\ Changed' = [Changed EXCEPT ![s][q] = 0]
    /\ shown' = [shown EXCEPT ![s][q] = Current[s][q]]
    /\ UNCHANGED <<pc, SensorIndex, var, CountRX, TimeFromStart, flag, Active,
                   cnt, Time, Data, Current, history>>

Task ==
    \/ InitRead \/ RetryRead \/ Decide \/ InitT \/ InitFlagT
    \/ StartCycle \/ CycleRead \/ CycleSkip
    \/ PublishT \/ FlagT \/ PublishH \/ FlagH

Next ==
    \/ Task
    \/ DataTimerFunc
    \/ \E s \in SensorIndices, q \in {"T", "H"} : Present(s, q)

Spec == Init /\ [][Next]_vars

(* The scheduler runs the task when it is ready.                           *)
FairSpec == Spec /\ WF_vars(Task)
-----------------------------------------------------------------------------
TypeOK ==
    /\ pc \in Points
    /\ SensorIndex \in SensorIndices
    /\ var \in 0 .. 3
    /\ CountRX \in 0 .. 3
    /\ TimeFromStart \in 0 .. TimeRange - 1
    /\ flag \in {0, 1}
    /\ Active \in [SensorIndices -> {0, 1}]
    /\ cnt \in [SensorIndices -> [Counters -> 0 .. CntRange - 1]]
    /\ Time \in [0 .. TQ - 1 -> [SensorIndices -> 0 .. TimeRange - 1]]
    /\ Data \in [0 .. TQ - 1 -> [SensorIndices -> Measures]]
    /\ Current \in [SensorIndices -> [T : Int, H : Int]]
    /\ Changed \in [SensorIndices -> [T : {0, 1}, H : {0, 1}]]
    /\ shown \in [SensorIndices -> [T : Int, H : Int]]

(* Between cycles the ring holds, for every active sensor, the measures of *)
(* the last TQ cycles, each in the slot GetData looks it up in; also when  *)
(* TimeFromStart wraps around.                                             *)
RingHoldsRecentCycles ==
    pc = "wait" =>
        \A s \in SensorIndices : Active[s] = 1 =>
            \A k \in 0 .. TQ - 1 : k <= history.cycles =>
                LET t == (TimeFromStart - k) % TimeRange
                IN Time[Slot(t)][s] = t

(* Between cycles the Model has the last measure of every active sensor.   *)
(* MB_Master_Init sets the temperature only, the first cycle the humidity. *)
ModelHasLastMeasure ==
    pc = "wait" =>
        \A s \in SensorIndices : Active[s] = 1 =>
            /\ Current[s].T = GetData(s).T
            /\ history.cycles > 0 => Current[s].H = GetData(s).H

(* A value the screen does not show yet is announced by its flag, or will  *)
(* be by the task's next step: no change of the Model is lost.             *)
AboutToFlag(s, q) ==
    s = SensorIndex /\ pc \in IF q = "T" THEN {"flagT", "initFlagT"}
                                         ELSE {"flagH"}

ChangeIsAnnounced ==
    \A s \in SensorIndices, q \in {"T", "H"} :
        Current[s][q] # shown[s][q] => Changed[s][q] = 1 \/ AboutToFlag(s, q)

(* Once started, a sensor is active exactly when it answered at once or    *)
(* answered all three repeated requests.                                   *)
ActiveMeansStable ==
    pc = "wait" =>
        \A s \in SensorIndices :
            Active[s] = 1 <=> history.first[s] \/ history.failed[s] = 0

(* Every tick of the timer is followed by a cycle, no matter how many      *)
(* sensors are silent.                                                     *)
TickIsServed == flag = 1 ~> flag = 0
=============================================================================
