---------------------------- MODULE ReadData_proofs ----------------------------
(***************************************************************************)
(* Proofs about ReadData, for any sensors, length of the ring and ranges   *)
(* of the counters.                                                        *)
(***************************************************************************)
EXTENDS ReadData, TLAPS

Quantities == {"T", "H"}
Values == [T : Int, H : Int]
Flags == [T : {0, 1}, H : {0, 1}]
Slots == 0 .. TQ - 1

(* Where the task is in MB_Master_Init.                                    *)
Starting == {"init", "retry", "initT", "initFlagT"}
Deciding == {"init", "retry"}

HistoryType == [first : [SensorIndices -> BOOLEAN],
                failed : [SensorIndices -> Int],
                cycles : Nat]

HistoryOK == history \in HistoryType

TypeInv ==
    /\ TypeOK
    /\ HistoryOK
    /\ CountRX <= var

(* What the proofs use of the constants.                                   *)
LEMMA ConstantFacts ==
  /\ SQ \in Nat /\ TQ \in Nat /\ TQ > 0
  /\ TimeRange \in Nat /\ TimeRange > 0 /\ CntRange \in Nat /\ CntRange > 0
  /\ 0 \in SensorIndices
  /\ \A s \in SensorIndices : s < SQ - 1 => s + 1 \in SensorIndices
  /\ Measures \subseteq Values /\ NoMeasure \in Measures
BY ConstantsAssumption DEF SensorIndices, Measures, NoMeasure, Values

(* A remainder of m lies between 0 and m - 1.                              *)
LEMMA ModFacts ==
  ASSUME NEW n \in Int, NEW m \in Nat, m > 0
  PROVE  n % m \in 0 .. m - 1
OBVIOUS

(* An error counter one up, wrapped to its width, is a counter again.      *)
LEMMA NextCount ==
  ASSUME NEW n \in 0 .. CntRange - 1
  PROVE  (n + 1) % CntRange \in 0 .. CntRange - 1
BY ConstantFacts, ModFacts

(* The tick keeps the time of the task within its width.                   *)
LEMMA AdvanceType ==
  ASSUME NEW t \in 0 .. TimeRange - 1
  PROVE  Advance(t) \in 0 .. TimeRange - 1
BY ConstantFacts, ModFacts DEF Advance

(* What a remainder is.                                                    *)
LEMMA ModUnique ==
  ASSUME NEW R \in Nat, R > 0, NEW n \in 0 .. R - 1, NEW q \in Int,
         NEW x \in Int, x = q * R + n
  PROVE  x % R = n
OBVIOUS

(* Every integer is a multiple of R and its remainder.                     *)
LEMMA DivMod ==
  ASSUME NEW R \in Nat, R > 0, NEW x \in Int
  PROVE  \E q \in Int : /\ x = q * R + (x % R)
                        /\ x % R \in 0 .. R - 1
<1>1. x = (x \div R) * R + (x % R) /\ x \div R \in Int /\ x % R \in 0 .. R - 1
  OBVIOUS
<1> QED
  BY <1>1

(* A multiple of the divisor more or less leaves the remainder.            *)
LEMMA ModShift ==
  ASSUME NEW R \in Nat, R > 0, NEW x \in Int, NEW j \in Int
  PROVE  (x + j * R) % R = x % R
<1>1. PICK q \in Int : x = q * R + (x % R) /\ x % R \in 0 .. R - 1
  BY DivMod
<1>2. /\ x + j * R = (q + j) * R + (x % R)
      /\ q + j \in Int /\ x + j * R \in Int
  BY <1>1
<1> QED
  BY <1>1, <1>2, ModUnique, ZenonT(60)

(* Wrapping before an addition changes no remainder.                       *)
LEMMA ModAdd ==
  ASSUME NEW R \in Nat, R > 0, NEW x \in Int, NEW a \in Int
  PROVE  ((x % R) + a) % R = (x + a) % R
<1>1. PICK q \in Int : x = q * R + (x % R) /\ x % R \in 0 .. R - 1
  BY DivMod
<1>2. (x % R) + a \in Int /\ x + a = ((x % R) + a) + q * R
  BY <1>1
<1> QED
  BY <1>1, <1>2, ModShift, ZenonT(60)

(* A remainder of a multiple of R keeps the remainder of R: the slot of    *)
(* the wrapped time is the slot of the time.                               *)
LEMMA ModMod ==
  ASSUME NEW R \in Nat, R > 0, NEW M \in Nat, M > 0, M % R = 0, NEW x \in Int
  PROVE  (x % M) % R = x % R
<1>1. PICK q \in Int : x = q * M + (x % M) /\ x % M \in 0 .. M - 1
  BY DivMod
<1>2. PICK m \in Int : M = m * R + 0
  BY DivMod
<1> DEFINE y == x % M
           j == q * m
<1>3. y \in Int /\ j \in Int
  BY <1>1, <1>2
<1>4. x = y + j * R
  BY <1>1, <1>2
<1> HIDE DEF y, j
<1>5. (y + j * R) % R = y % R
  BY <1>3, ModShift
<1> QED
  BY <1>4, <1>5 DEF y

(* Less than R seconds apart, two times have different slots.              *)
LEMMA ModDiffers ==
  ASSUME NEW R \in Nat, R > 0, NEW x \in Int, NEW k \in 1 .. R - 1
  PROVE  (x - k) % R # x % R
<1>1. PICK q \in Int : x = q * R + (x % R) /\ x % R \in 0 .. R - 1
  BY DivMod
<1>2. PICK p \in Int : x - k = p * R + ((x - k) % R)
  <2>1. x - k \in Int
    OBVIOUS
  <2> QED
    BY <2>1, DivMod
<1>3. ASSUME NEW n \in Int, x = q * R + n, x - k = p * R + n PROVE FALSE
  <2>1. k = q * R - p * R
    BY <1>3
  <2>2. k = (q - p) * R
    BY <2>1
  <2>3. CASE q - p <= 0
    BY <2>2, <2>3
  <2>4. CASE q - p >= 1
    BY <2>2, <2>4
  <2> QED
    BY <2>3, <2>4
<1>4. x % R \in Int
  BY <1>1
<1> QED
  BY <1>1, <1>2, <1>3, <1>4

(* A change of one place in a table.                                       *)
LEMMA TableUpdate ==
  ASSUME NEW I, NEW J, NEW V, NEW f \in [I -> [J -> V]],
         NEW x \in I, NEW y \in J, NEW v \in V
  PROVE  /\ [f EXCEPT ![x][y] = v] \in [I -> [J -> V]]
         /\ \A k \in I, l \in J :
              [f EXCEPT ![x][y] = v][k][l] =
                IF k = x /\ l = y THEN v ELSE f[k][l]
OBVIOUS

(* A reading moves the task's sensor only, whatever its outcome.           *)
LEMMA ReadResult ==
  ASSUME TypeInv, NEW ok \in BOOLEAN, Sensor_Read(ok)
  PROVE  /\ cnt' \in [SensorIndices -> [Counters -> 0 .. CntRange - 1]]
         /\ Time' \in [Slots -> [SensorIndices -> 0 .. TimeRange - 1]]
         /\ Data' \in [Slots -> [SensorIndices -> Measures]]
         /\ \A k \in Slots, s \in SensorIndices :
              s # SensorIndex => Data'[k][s] = Data[k][s]
<1>. USE DEF TypeInv, TypeOK, Slots
<1>1. CASE TypeOfSensor[SensorIndex] # 1
  BY <1>1 DEF Sensor_Read
<1>2. CASE TypeOfSensor[SensorIndex] = 1
  <2>1. PICK result \in Outcomes, checked \in BOOLEAN :
          cnt' = Counted(result, checked)
    BY <1>2 DEF Sensor_Read
  <2>2. PICK m \in Measures :
          Data' = [Data EXCEPT ![Slot(TimeFromStart)][SensorIndex] = m]
    BY <1>2, ConstantFacts DEF Sensor_Read, Measures
  <2>3. Time' = [Time EXCEPT ![Slot(TimeFromStart)][SensorIndex] =
                   TimeFromStart]
    BY <1>2 DEF Sensor_Read
  <2>4. Slot(TimeFromStart) \in Slots
    BY ConstantFacts, ModFacts DEF Slot
  <2>5. cnt' \in [SensorIndices -> [Counters -> 0 .. CntRange - 1]]
    <3>1. ASSUME NEW s \in SensorIndices, NEW c \in Counters
          PROVE  /\ cnt[s][c] \in 0 .. CntRange - 1
                 /\ (cnt[s][c] + 1) % CntRange \in 0 .. CntRange - 1
      <4>1. cnt[s][c] \in 0 .. CntRange - 1
        BY <3>1
      <4> QED
        BY <4>1, NextCount, Zenon
    <3> QED
      BY <2>1, <3>1, Zenon DEF Counted
  <2>6. /\ Data' \in [Slots -> [SensorIndices -> Measures]]
        /\ \A k \in Slots, s \in SensorIndices :
             s # SensorIndex => Data'[k][s] = Data[k][s]
    BY <2>2, <2>4, TableUpdate
  <2>7. Time' \in [Slots -> [SensorIndices -> 0 .. TimeRange - 1]]
    BY <2>3, <2>4, TableUpdate
  <2> QED
    BY <2>5, <2>6, <2>7
<1> QED
  BY <1>1, <1>2

(* The slot that belongs to the time lies in the ring.                     *)
LEMMA SlotInRing == TypeOK => Slot(TimeFromStart) \in Slots
<1> SUFFICES ASSUME TypeOK PROVE Slot(TimeFromStart) \in Slots
  OBVIOUS
<1>1. TimeFromStart \in Int
  BY ConstantFacts DEF TypeOK
<1> QED
  BY <1>1, ConstantFacts, ModFacts DEF Slot, Slots

(* The measure GetData finds is a pair of numbers.                         *)
LEMMA GetDataType ==
  ASSUME TypeOK, NEW s \in SensorIndices, NEW q \in Quantities
  PROVE  GetData(s)[q] \in Int
<1>1. Slot(TimeFromStart) \in Slots
  BY SlotInRing
<1>2. GetData(s) \in Measures
  BY <1>1 DEF GetData, TypeOK, Slots
<1>3. GetData(s) \in Values
  BY <1>2, ConstantFacts
<1> QED
  BY <1>3 DEF Values, Quantities

(* What a reading leaves in the history.                                   *)
LEMMA FirstUpdate ==
  ASSUME history \in HistoryType, SensorIndex \in SensorIndices,
         NEW b \in BOOLEAN,
         history' = [history EXCEPT !.first[SensorIndex] = b]
  PROVE  /\ history' \in HistoryType
         /\ history'.failed = history.failed
         /\ history'.cycles = history.cycles
         /\ history'.first[SensorIndex] = b
         /\ \A s \in SensorIndices :
              s # SensorIndex => history'.first[s] = history.first[s]
BY DEF HistoryType

(* A failed request is entered for the sensor asked and no other.          *)
LEMMA FailedUpdate ==
  ASSUME history \in HistoryType, SensorIndex \in SensorIndices,
         NEW n \in Int,
         history' = [history EXCEPT !.failed[SensorIndex] = n]
  PROVE  /\ history' \in HistoryType
         /\ history'.first = history.first
         /\ history'.cycles = history.cycles
         /\ history'.failed[SensorIndex] = n
         /\ \A s \in SensorIndices :
              s # SensorIndex => history'.failed[s] = history.failed[s]
BY DEF HistoryType

(* The step to the next sensor stays among the sensors.                    *)
LEMMA NextSensorType ==
  ASSUME SensorIndex \in SensorIndices, NEW p, NextSensor(p)
  PROVE  SensorIndex' \in SensorIndices /\ pc' \in {p, "wait"}
BY ConstantFacts DEF NextSensor

(* Publishing or announcing a value keeps the Model's types.               *)
LEMMA ModelUpdate ==
  ASSUME TypeOK, NEW q \in Quantities
  PROVE  /\ SetValue(q) =>
              /\ Current' \in [SensorIndices -> Values]
              /\ Current'[SensorIndex][q] = GetData(SensorIndex)[q]
              /\ \A k \in SensorIndices, l \in Quantities :
                   k # SensorIndex \/ l # q => Current'[k][l] = Current[k][l]
         /\ SetFlag(q) =>
              /\ Changed' \in [SensorIndices -> Flags]
              /\ Changed'[SensorIndex][q] = 1
              /\ \A k \in SensorIndices, l \in Quantities :
                   k # SensorIndex \/ l # q => Changed'[k][l] = Changed[k][l]
<1>1. SensorIndex \in SensorIndices /\ GetData(SensorIndex)[q] \in Int
  BY GetDataType DEF TypeOK
<1>2. /\ Current \in [SensorIndices -> Values]
      /\ Changed \in [SensorIndices -> Flags]
  BY DEF TypeOK, Values, Flags
<1>3. ASSUME SetValue(q)
      PROVE  /\ Current' \in [SensorIndices -> Values]
             /\ Current'[SensorIndex][q] = GetData(SensorIndex)[q]
             /\ \A k \in SensorIndices, l \in Quantities :
                  k # SensorIndex \/ l # q => Current'[k][l] = Current[k][l]
  <2> DEFINE v == GetData(SensorIndex)[q]
  <2>1. v \in Int /\ Current' = [Current EXCEPT ![SensorIndex][q] = v]
    BY <1>1, <1>3 DEF SetValue
  <2> HIDE DEF v
  <2>2. Current' \in [SensorIndices -> Values]
    BY <1>1, <1>2, <2>1 DEF Values, Quantities
  <2>3. Current'[SensorIndex][q] = v
    BY <1>1, <1>2, <2>1 DEF Values, Quantities
  <2>4. ASSUME NEW k \in SensorIndices, NEW l \in Quantities,
               k # SensorIndex \/ l # q
        PROVE  Current'[k][l] = Current[k][l]
    BY <1>1, <1>2, <2>1, <2>4 DEF Values, Quantities
  <2> QED
    BY <2>2, <2>3, <2>4 DEF v
<1>4. ASSUME SetFlag(q)
      PROVE  /\ Changed' \in [SensorIndices -> Flags]
             /\ Changed'[SensorIndex][q] = 1
             /\ \A k \in SensorIndices, l \in Quantities :
                  k # SensorIndex \/ l # q => Changed'[k][l] = Changed[k][l]
  <2>1. Changed' = [Changed EXCEPT ![SensorIndex][q] = 1]
    BY <1>4 DEF SetFlag
  <2>2. Changed' \in [SensorIndices -> Flags]
    BY <1>1, <1>2, <2>1 DEF Flags, Quantities
  <2>3. Changed'[SensorIndex][q] = 1
    BY <1>1, <1>2, <2>1 DEF Flags, Quantities
  <2>4. \A k \in SensorIndices, l \in Quantities :
           k # SensorIndex \/ l # q => Changed'[k][l] = Changed[k][l]
    BY <1>1, <1>2, <2>1 DEF Flags, Quantities
  <2> QED
    BY <2>2, <2>3, <2>4
<1> QED
  BY <1>3, <1>4

(* The typed state holds when the task starts.                             *)
LEMMA InitTypeInv == Init => TypeInv
<1> SUFFICES ASSUME Init PROVE TypeInv
  OBVIOUS
<1>1. /\ 0 \in 0 .. TimeRange - 1 /\ 0 \in 0 .. CntRange - 1
      /\ 0 \in SensorIndices /\ NoMeasure \in Measures
  BY ConstantFacts
<1>2. NoMeasure \in [T : {0, 1}, H : {0, 1}]
  BY DEF NoMeasure
<1>3. NoMeasure \in [T : Int, H : Int]
  BY DEF NoMeasure
<1>4. TypeOK
  BY <1>1, <1>2, <1>3 DEF Init, TypeOK, Points
<1>5. HistoryOK
  BY <1>1 DEF Init, HistoryOK, HistoryType
<1> QED
  BY <1>4, <1>5 DEF Init, TypeInv

(* Each step of the task keeps the types.                                  *)
LEMMA TaskTypeInv ==
  ASSUME TypeInv, Task PROVE TypeInv'
<1>. USE DEF TypeInv, TypeOK, HistoryOK, Points
<1>1. CASE InitRead
  <2>1. PICK ok \in BOOLEAN :
          /\ Sensor_Read(ok)
          /\ \/ /\ ok
                /\ Active' = [Active EXCEPT ![SensorIndex] = 1]
                /\ pc' = "initT"
                /\ UNCHANGED <<var, CountRX>>
             \/ /\ ~ok
                /\ CountRX' = 0 /\ var' = 0
                /\ pc' = "retry"
                /\ UNCHANGED Active
          /\ history' = [history EXCEPT !.first[SensorIndex] = ok]
    BY <1>1 DEF InitRead
  <2>3. history' \in HistoryType
    <3>1. history' = [history EXCEPT !.first[SensorIndex] = ok]
      BY <2>1
    <3> QED
      BY <3>1, FirstUpdate
  <2>4. Active' \in [SensorIndices -> {0, 1}]
    BY <2>1
  <2>5. /\ cnt' \in [SensorIndices -> [Counters -> 0 .. CntRange - 1]]
        /\ Time' \in [0 .. TQ - 1 -> [SensorIndices -> 0 .. TimeRange - 1]]
        /\ Data' \in [0 .. TQ - 1 -> [SensorIndices -> Measures]]
    BY <2>1, ReadResult DEF Slots
  <2>6. pc' \in Points /\ var' \in 0 .. 3 /\ CountRX' \in 0 .. 3
        /\ CountRX' <= var'
    BY <2>1
  <2> QED
    BY <1>1, <2>3, <2>4, <2>5, <2>6 DEF InitRead
<1>2. CASE RetryRead
  <2>1. PICK ok \in BOOLEAN :
          /\ Sensor_Read(ok)
          /\ CountRX' = IF ok THEN CountRX + 1 ELSE CountRX
          /\ history' = [history EXCEPT !.failed[SensorIndex] =
                              IF ok THEN @ ELSE @ + 1]
    BY <1>2 DEF RetryRead
  <2> DEFINE before == history.failed[SensorIndex]
             n == IF ok THEN before ELSE before + 1
  <2>2. /\ n \in Int
        /\ history' = [history EXCEPT !.failed[SensorIndex] = n]
    BY <2>1 DEF HistoryType
  <2> HIDE DEF n
  <2>4. history' \in HistoryType
    BY <2>2, FailedUpdate
  <2>5. /\ cnt' \in [SensorIndices -> [Counters -> 0 .. CntRange - 1]]
        /\ Time' \in [0 .. TQ - 1 -> [SensorIndices -> 0 .. TimeRange - 1]]
        /\ Data' \in [0 .. TQ - 1 -> [SensorIndices -> Measures]]
    BY <2>1, ReadResult DEF Slots
  <2>6. var' \in 0 .. 3 /\ CountRX' \in 0 .. 3 /\ CountRX' <= var'
    BY <1>2, <2>1 DEF RetryRead, RetriesLeft
  <2> QED
    BY <1>2, <2>4, <2>5, <2>6 DEF RetryRead
<1>3. CASE Decide
  <2>1. SensorIndex' \in SensorIndices /\ pc' \in Points
    BY <1>3, NextSensorType DEF Decide
  <2>2. Active' \in [SensorIndices -> {0, 1}]
    BY <1>3 DEF Decide
  <2> QED
    BY <1>3, <2>1, <2>2 DEF Decide
<1>4. CASE InitT
  <2>1. Current' \in [SensorIndices -> [T : Int, H : Int]]
    BY <1>4, ModelUpdate DEF InitT, Values, Quantities
  <2> QED
    BY <1>4, <2>1 DEF InitT
<1>5. CASE InitFlagT
  <2>1. SensorIndex' \in SensorIndices /\ pc' \in Points
    BY <1>5, NextSensorType DEF InitFlagT
  <2>2. Changed' \in [SensorIndices -> [T : {0, 1}, H : {0, 1}]]
    BY <1>5, ModelUpdate DEF InitFlagT, Flags, Quantities
  <2> QED
    BY <1>5, <2>1, <2>2 DEF InitFlagT
<1>6. CASE StartCycle
  <2>1. TimeFromStart' \in 0 .. TimeRange - 1
    BY <1>6, AdvanceType DEF StartCycle
  <2> DEFINE before == history.cycles
             n == IF before < TQ THEN before + 1 ELSE before
  <2>2. n \in Nat /\ history' = [history EXCEPT !.cycles = n]
    BY <1>6 DEF StartCycle, HistoryType
  <2> HIDE DEF n
  <2>3. history' \in HistoryType
    BY <2>2 DEF HistoryType
  <2> QED
    BY <1>6, <2>1, <2>3, ConstantFacts DEF StartCycle
<1>7. CASE CycleRead
  <2>1. PICK ok \in BOOLEAN : Sensor_Read(ok)
    BY <1>7 DEF CycleRead
  <2>2. history' \in HistoryType
    BY <1>7 DEF CycleRead
  <2>3. /\ cnt' \in [SensorIndices -> [Counters -> 0 .. CntRange - 1]]
        /\ Time' \in [0 .. TQ - 1 -> [SensorIndices -> 0 .. TimeRange - 1]]
        /\ Data' \in [0 .. TQ - 1 -> [SensorIndices -> Measures]]
    BY <2>1, ReadResult DEF Slots
  <2> QED
    BY <1>7, <2>2, <2>3 DEF CycleRead
<1>8. CASE CycleSkip
  <2>1. SensorIndex' \in SensorIndices /\ pc' \in Points
    BY <1>8, NextSensorType DEF CycleSkip, SkipToNext
  <2> QED
    BY <1>8, <2>1 DEF CycleSkip
<1>9. CASE PublishT \/ PublishH
  <2>1. SensorIndex' \in SensorIndices /\ pc' \in Points
    BY <1>9, NextSensorType DEF PublishT, PublishH, Publish, AfterT
  <2>2. Current' \in [SensorIndices -> [T : Int, H : Int]]
    BY <1>9, ModelUpdate DEF PublishT, PublishH, Publish, Values, Quantities
  <2> QED
    BY <1>9, <2>1, <2>2 DEF PublishT, PublishH, Publish
<1>10. CASE FlagT \/ FlagH
  <2>1. SensorIndex' \in SensorIndices /\ pc' \in Points
    BY <1>10, NextSensorType DEF FlagT, FlagH, Flag, AfterT
  <2>2. Changed' \in [SensorIndices -> [T : {0, 1}, H : {0, 1}]]
    BY <1>10, ModelUpdate DEF FlagT, FlagH, Flag, Flags, Quantities
  <2> QED
    BY <1>10, <2>1, <2>2 DEF FlagT, FlagH, Flag
<1> QED
  BY <1>1, <1>2, <1>3, <1>4, <1>5, <1>6, <1>7, <1>8, <1>9, <1>10 DEF Task

(* What the screen takes.                                                  *)
LEMMA PresentResult ==
  ASSUME TypeOK, NEW s \in SensorIndices, NEW q \in Quantities, Present(s, q)
  PROVE  /\ Changed' \in [SensorIndices -> Flags]
         /\ shown' \in [SensorIndices -> Values]
         /\ shown'[s][q] = Current[s][q]
         /\ \A k \in SensorIndices, l \in Quantities :
              k # s \/ l # q => /\ Changed'[k][l] = Changed[k][l]
                               /\ shown'[k][l] = shown[k][l]
<1>1. /\ Changed \in [SensorIndices -> Flags]
      /\ Changed' = [Changed EXCEPT ![s][q] = 0]
  BY DEF TypeOK, Present, Flags
<1>2. /\ shown \in [SensorIndices -> Values]
      /\ shown' = [shown EXCEPT ![s][q] = Current[s][q]]
      /\ Current[s][q] \in Int
  BY DEF TypeOK, Present, Quantities, Values
<1>3. /\ Changed' \in [SensorIndices -> Flags]
      /\ \A k \in SensorIndices, l \in Quantities :
           k # s \/ l # q => Changed'[k][l] = Changed[k][l]
  <2>1. Changed' \in [SensorIndices -> Flags]
    BY <1>1 DEF Flags, Quantities
  <2>2. \A k \in SensorIndices, l \in Quantities :
           k # s \/ l # q => Changed'[k][l] = Changed[k][l]
    BY <1>1 DEF Flags, Quantities
  <2> QED
    BY <2>1, <2>2
<1>4. /\ shown' \in [SensorIndices -> Values]
      /\ shown'[s][q] = Current[s][q]
      /\ \A k \in SensorIndices, l \in Quantities :
           k # s \/ l # q => shown'[k][l] = shown[k][l]
  <2>1. shown' \in [SensorIndices -> Values]
    BY <1>2 DEF Values, Quantities
  <2>2. shown'[s][q] = Current[s][q]
    BY <1>2 DEF Values, Quantities
  <2>3. \A k \in SensorIndices, l \in Quantities :
           k # s \/ l # q => shown'[k][l] = shown[k][l]
    BY <1>2 DEF Values, Quantities
  <2> QED
    BY <2>1, <2>2, <2>3
<1> QED
  BY <1>3, <1>4

(* Every step of the timer, the screen and the task keeps the types.       *)
LEMMA TypeInvStep == TypeInv /\ [Next]_vars => TypeInv'
<1> SUFFICES ASSUME TypeInv, [Next]_vars PROVE TypeInv'
  OBVIOUS
<1>1. CASE DataTimerFunc
  BY <1>1 DEF DataTimerFunc, TypeInv, TypeOK, HistoryOK
<1>2. ASSUME NEW s \in SensorIndices, NEW q \in {"T", "H"}, Present(s, q)
      PROVE  TypeInv'
  <2>1. Changed' \in [SensorIndices -> [T : {0, 1}, H : {0, 1}]]
        /\ shown' \in [SensorIndices -> [T : Int, H : Int]]
    BY <1>2, PresentResult DEF TypeInv, Quantities, Flags, Values
  <2> QED
    BY <1>2, <2>1 DEF Present, TypeInv, TypeOK, HistoryOK
<1>3. CASE UNCHANGED vars
  BY <1>3 DEF vars, TypeInv, TypeOK, HistoryOK
<1> QED
  BY <1>1, <1>2, <1>3, TaskTypeInv DEF Next

(* The typed state holds in every behaviour.                               *)
LEMMA TypeInvAlways == Spec => []TypeInv
BY InitTypeInv, TypeInvStep, PTL DEF Spec

(* All that the task keeps and shares has its type: the ring, the retries  *)
(* and the counters stay in their bounds.                                  *)
THEOREM TypeCorrect == Spec => []TypeOK
<1>1. TypeInv => TypeOK
  BY DEF TypeInv
<1> QED
  BY <1>1, TypeInvAlways, PTL

-----------------------------------------------------------------------------
(* A value changes before its flag is set, by the task, and the flag is    *)
(* cleared before the value is read, by the screen.                        *)
LEMMA AnnouncedStep ==
  ASSUME TypeInv, ChangeIsAnnounced, [Next]_vars
  PROVE  ChangeIsAnnounced'
<1> SUFFICES ASSUME NEW s \in SensorIndices, NEW q \in Quantities,
                    Current'[s][q] # shown'[s][q]
             PROVE  Changed'[s][q] = 1 \/ AboutToFlag(s, q)'
  BY DEF ChangeIsAnnounced, Quantities
<1>1. Current[s][q] # shown[s][q] => Changed[s][q] = 1 \/ AboutToFlag(s, q)
  BY DEF ChangeIsAnnounced, Quantities
<1>2. /\ Current \in [SensorIndices -> [T : Int, H : Int]]
      /\ Changed \in [SensorIndices -> [T : {0, 1}, H : {0, 1}]]
      /\ SensorIndex \in SensorIndices
  BY DEF TypeInv, TypeOK
<1>3. ASSUME NEW p \in Quantities, SetValue(p), UNCHANGED <<shown, Changed>>,
             ~AboutToFlag(s, q),
             UNCHANGED SensorIndex,
             pc' \in IF p = "T" THEN {"flagT", "initFlagT"} ELSE {"flagH"}
      PROVE  Changed'[s][q] = 1 \/ AboutToFlag(s, q)'
  <2>2. CASE s = SensorIndex /\ q = p
    BY <1>3, <2>2 DEF AboutToFlag
  <2>3. CASE ~(s = SensorIndex /\ q = p)
    <3>1. Current'[s][q] = Current[s][q]
      BY <1>3, <2>3, ModelUpdate DEF TypeInv
    <3> QED
      BY <1>1, <1>3, <3>1
  <2> QED
    BY <2>2, <2>3
<1>4. ASSUME NEW p \in Quantities, SetFlag(p), UNCHANGED <<shown, Current>>,
             pc \in IF p = "T" THEN {"flagT", "initFlagT"} ELSE {"flagH"}
      PROVE  Changed'[s][q] = 1
  <2>1. Changed'[s][q] = IF s = SensorIndex /\ q = p THEN 1 ELSE Changed[s][q]
    BY <1>4, ModelUpdate DEF TypeInv
  <2>2. AboutToFlag(s, q) => s = SensorIndex /\ q = p
    BY <1>4 DEF AboutToFlag, Quantities
  <2> QED
    BY <1>1, <1>4, <2>1, <2>2
<1>5. ASSUME UNCHANGED <<Current, Changed, shown>>, ~AboutToFlag(s, q)
      PROVE  Changed'[s][q] = 1
  BY <1>1, <1>5
<1>6. CASE InitRead \/ RetryRead \/ Decide \/ StartCycle \/ CycleRead
             \/ CycleSkip
  <2>1. UNCHANGED <<Current, Changed, shown>> /\ ~AboutToFlag(s, q)
    BY <1>6 DEF InitRead, RetryRead, Decide, StartCycle, CycleRead, CycleSkip,
                AboutToFlag
  <2> QED
    BY <1>5, <2>1
<1>7. CASE InitT
  BY <1>3, <1>7 DEF InitT, AboutToFlag, Quantities
<1>8. CASE InitFlagT
  BY <1>4, <1>8 DEF InitFlagT, Quantities
<1>9. CASE PublishT \/ PublishH
  <2>1. ~AboutToFlag(s, q)
    BY <1>9 DEF PublishT, PublishH, Publish, AboutToFlag
  <2> QED
    BY <1>3, <1>5, <1>9, <2>1 DEF PublishT, PublishH, Publish, Quantities
<1>10. CASE FlagT \/ FlagH
  BY <1>4, <1>10 DEF FlagT, FlagH, Flag, Quantities
<1>11. CASE DataTimerFunc \/ UNCHANGED vars
  BY <1>1, <1>11 DEF DataTimerFunc, vars, AboutToFlag
<1>12. ASSUME NEW k \in SensorIndices, NEW l \in {"T", "H"}, Present(k, l)
       PROVE  Changed'[s][q] = 1 \/ AboutToFlag(s, q)'
  <2>1. UNCHANGED <<Current, pc, SensorIndex>>
    BY <1>12 DEF Present
  <2>2. /\ s = k /\ q = l => shown'[s][q] = Current[s][q]
        /\ s # k \/ q # l => /\ Changed'[s][q] = Changed[s][q]
                            /\ shown'[s][q] = shown[s][q]
    BY <1>12, PresentResult DEF TypeInv, Quantities
  <2> QED
    BY <1>1, <2>1, <2>2 DEF AboutToFlag
<1> QED
  BY <1>6, <1>7, <1>8, <1>9, <1>10, <1>11, <1>12 DEF Next, Task

(* No value of the Model stays unknown to the screen: what it does not     *)
(* show yet is announced, or will be by the task's next step.              *)
THEOREM AnnouncedAlways == Spec => []ChangeIsAnnounced
<1>1. Init => ChangeIsAnnounced
  BY DEF Init, ChangeIsAnnounced
<1>2. TypeInv /\ ChangeIsAnnounced /\ [Next]_vars => ChangeIsAnnounced'
  BY AnnouncedStep
<1> QED
  BY <1>1, <1>2, TypeInvAlways, PTL DEF Spec

-----------------------------------------------------------------------------
RightlyActive(s) == Active[s] = 1 <=> history.first[s] \/ history.failed[s] = 0

(* What MB_Master_Init has decided, what it is deciding, what it will      *)
(* decide.                                                                 *)
StableInv ==
    /\ \A s \in SensorIndices :
         \/ pc \notin Starting
         \/ s < SensorIndex
         \/ s = SensorIndex /\ pc \notin Deciding
         => RightlyActive(s)
    /\ pc \in Starting =>
         \A s \in SensorIndices :
            s > SensorIndex \/ (s = SensorIndex /\ pc = "init") =>
              ~history.first[s] /\ history.failed[s] = 0
    /\ pc = "retry" => /\ ~history.first[SensorIndex]
                       /\ history.failed[SensorIndex] = var - CountRX

(* After the last sensor the task waits, after another it goes on.         *)
LEMMA LastSensor ==
  ASSUME SensorIndex \in SensorIndices, NEW p, NextSensor(p)
  PROVE  \/ pc' = p /\ SensorIndex' = SensorIndex + 1
         \/ /\ pc' = "wait" /\ SensorIndex' = SensorIndex
            /\ \A s \in SensorIndices : s <= SensorIndex
<1>1. SQ \in Nat
  BY ConstantFacts
<1> QED
  BY <1>1 DEF NextSensor, SensorIndices

(* The first reading of a sensor and the three that may follow it.         *)
LEMMA StartingStable ==
  ASSUME TypeInv, StableInv, InitRead \/ RetryRead \/ Decide
  PROVE  StableInv'
<1>. USE DEF StableInv, RightlyActive, Starting, Deciding
<1>1. /\ SensorIndex \in SensorIndices /\ SensorIndices \subseteq Int
      /\ Active \in [SensorIndices -> {0, 1}]
      /\ var \in 0 .. 3 /\ CountRX \in 0 .. 3
      /\ history \in HistoryType
      /\ history.first \in [SensorIndices -> BOOLEAN]
      /\ history.failed \in [SensorIndices -> Int]
  BY DEF TypeInv, TypeOK, HistoryOK, HistoryType, SensorIndices
<1>3. CASE InitRead
  <2>1. PICK ok \in BOOLEAN :
          /\ \/ /\ ok
                /\ Active' = [Active EXCEPT ![SensorIndex] = 1]
                /\ pc' = "initT"
                /\ UNCHANGED <<var, CountRX>>
             \/ /\ ~ok
                /\ CountRX' = 0 /\ var' = 0
                /\ pc' = "retry"
                /\ UNCHANGED Active
          /\ history' = [history EXCEPT !.first[SensorIndex] = ok]
    BY <1>3 DEF InitRead
  <2>2. /\ history'.failed = history.failed
        /\ history'.first[SensorIndex] = ok
        /\ \A s \in SensorIndices :
             s # SensorIndex => history'.first[s] = history.first[s]
    <3>1. history' = [history EXCEPT !.first[SensorIndex] = ok]
      BY <2>1
    <3> QED
      BY <1>1, <3>1, FirstUpdate
  <2>4. pc = "init" /\ UNCHANGED SensorIndex
    BY <1>3 DEF InitRead
  <2>5. CASE ok
    BY <1>1, <2>1, <2>2, <2>4, <2>5
  <2>6. CASE ~ok
    BY <1>1, <2>1, <2>2, <2>4, <2>6
  <2> QED
    BY <2>5, <2>6
<1>4. CASE RetryRead
  <2>1. PICK ok \in BOOLEAN :
          /\ CountRX' = IF ok THEN CountRX + 1 ELSE CountRX
          /\ history' = [history EXCEPT !.failed[SensorIndex] =
                              IF ok THEN @ ELSE @ + 1]
    BY <1>4 DEF RetryRead
  <2> DEFINE before == history.failed[SensorIndex]
             n == IF ok THEN before ELSE before + 1
  <2>2. /\ n \in Int
        /\ history' = [history EXCEPT !.failed[SensorIndex] = n]
    BY <1>1, <2>1 DEF HistoryType
  <2>3. /\ pc = "retry" /\ var' = var + 1
        /\ UNCHANGED <<pc, SensorIndex, Active>>
    BY <1>4 DEF RetryRead
  <2>4. n = (var + 1) - CountRX'
    BY <1>1, <2>1, <2>3
  <2> HIDE DEF n
  <2>5. /\ history'.first = history.first
        /\ history'.failed[SensorIndex] = n
        /\ \A s \in SensorIndices :
             s # SensorIndex => history'.failed[s] = history.failed[s]
    BY <1>1, <2>2, FailedUpdate
  <2> QED
    BY <1>1, <2>3, <2>4, <2>5
<1>5. CASE Decide
  <2>1. pc = "retry" /\ var = 3 /\ UNCHANGED history
    BY <1>1, <1>5 DEF Decide, RetriesLeft
  <2>2. CASE CountRX = 3
    <3>1. /\ Active' = [Active EXCEPT ![SensorIndex] = 1]
          /\ pc' = "initT" /\ UNCHANGED SensorIndex
      BY <1>5, <2>2 DEF Decide, Stable
    <3> QED
      BY <1>1, <2>1, <2>2, <3>1
  <2>3. CASE CountRX # 3
    <3>1. /\ Active' = [Active EXCEPT ![SensorIndex] = 0]
          /\ NextSensor("init")
      BY <1>5, <2>3 DEF Decide, Stable
    <3>2. \A s \in SensorIndices :
           /\ s = SensorIndex => RightlyActive(s)'
           /\ s # SensorIndex => Active'[s] = Active[s]
      <4>1. history.failed[SensorIndex] # 0 /\ ~history.first[SensorIndex]
        BY <1>1, <2>1, <2>3
      <4>2. Active'[SensorIndex] = 0
        BY <1>1, <3>1
      <4>3. history' = history /\ Active'[SensorIndex] # 1
        BY <2>1, <4>2
      <4>4. \A s \in SensorIndices : s = SensorIndex => RightlyActive(s)'
        BY <2>1, <4>1, <4>3
      <4>5. \A s \in SensorIndices :
              s # SensorIndex => Active'[s] = Active[s]
        BY <1>1, <3>1
      <4> QED
        BY <4>4, <4>5
    <3>3. \/ pc' = "init" /\ SensorIndex' = SensorIndex + 1
          \/ /\ pc' = "wait" /\ SensorIndex' = SensorIndex
             /\ \A s \in SensorIndices : s <= SensorIndex
      BY <1>1, <3>1, LastSensor
    <3>4. \A s \in SensorIndices :
            s <= SensorIndex => RightlyActive(s)'
      <4>1. \A s \in SensorIndices : s < SensorIndex => RightlyActive(s)
        BY <2>1
      <4> QED
        BY <1>1, <2>1, <3>2, <4>1
    <3>5. \A s \in SensorIndices : s > SensorIndex =>
            ~history'.first[s] /\ history'.failed[s] = 0
      BY <2>1
    <3>6. CASE pc' = "init" /\ SensorIndex' = SensorIndex + 1
      <4>1. \A s \in SensorIndices :
              /\ s < SensorIndex' <=> s <= SensorIndex
              /\ s > SensorIndex' \/ s = SensorIndex' <=> s > SensorIndex
        BY <1>1, <3>6
      <4> QED
        BY <3>4, <3>5, <3>6, <4>1
    <3>7. CASE /\ pc' = "wait" /\ SensorIndex' = SensorIndex
               /\ \A s \in SensorIndices : s <= SensorIndex
      BY <3>4, <3>7
    <3> QED
      BY <3>3, <3>6, <3>7
  <2> QED
    BY <2>2, <2>3
<1> QED
  BY <1>3, <1>4, <1>5

(* Every step keeps the invariant about active sensors.                    *)
LEMMA StableStep == TypeInv /\ StableInv /\ [Next]_vars => StableInv'
<1> SUFFICES ASSUME TypeInv, StableInv, [Next]_vars PROVE StableInv'
  OBVIOUS
<1>. USE DEF StableInv, RightlyActive, Starting, Deciding
<1>1. SensorIndex \in SensorIndices /\ SensorIndices \subseteq Int
  BY DEF TypeInv, TypeOK, SensorIndices
<1>2. CASE InitFlagT
  <2>1. pc = "initFlagT" /\ UNCHANGED <<Active, history>>
    BY <1>2 DEF InitFlagT
  <2>2. \/ pc' = "init" /\ SensorIndex' = SensorIndex + 1
        \/ /\ pc' = "wait" /\ SensorIndex' = SensorIndex
           /\ \A s \in SensorIndices : s <= SensorIndex
    <3>1. NextSensor("init")
      BY <1>2 DEF InitFlagT
    <3> QED
      BY <1>1, <3>1, LastSensor, Zenon
  <2>3. \A s \in SensorIndices : s <= SensorIndex => RightlyActive(s)'
    <3>1. \A s \in SensorIndices : s <= SensorIndex => RightlyActive(s)
      <4>1. \A s \in SensorIndices : s <= SensorIndex =>
              s < SensorIndex \/ s = SensorIndex
        BY <1>1
      <4> QED
        BY <2>1, <4>1
    <3> QED
      BY <2>1, <3>1
  <2>4. \A s \in SensorIndices : s > SensorIndex =>
          ~history'.first[s] /\ history'.failed[s] = 0
    BY <2>1
  <2>5. CASE pc' = "init" /\ SensorIndex' = SensorIndex + 1
    <3>1. \A s \in SensorIndices :
            /\ s < SensorIndex' <=> s <= SensorIndex
            /\ s > SensorIndex' \/ s = SensorIndex' <=> s > SensorIndex
      BY <1>1, <2>5
    <3> QED
      BY <2>3, <2>4, <2>5, <3>1
  <2>6. CASE /\ pc' = "wait"
             /\ \A s \in SensorIndices : s <= SensorIndex
    BY <2>3, <2>6
  <2> QED
    BY <2>2, <2>5, <2>6
<1>3. CASE InitT
  BY <1>3 DEF InitT
<1>4. CASE StartCycle \/ CycleRead \/ CycleSkip \/ PublishT \/ FlagT
             \/ PublishH \/ FlagH
  <2>1. pc \notin Starting /\ pc' \notin Starting
    BY <1>4 DEF StartCycle, CycleRead, CycleSkip, SkipToNext, PublishT, FlagT,
                PublishH, FlagH, Publish, Flag, AfterT, NextSensor
  <2>2. /\ history'.first = history.first
        /\ history'.failed = history.failed
    <3>1. history \in HistoryType
      BY DEF TypeInv, HistoryOK
    <3> QED
      BY <1>4, <3>1
        DEF StartCycle, CycleRead, CycleSkip, PublishT, FlagT, PublishH,
            FlagH, Publish, Flag, HistoryType
  <2>3. UNCHANGED Active
    BY <1>4 DEF StartCycle, CycleRead, CycleSkip, PublishT, FlagT, PublishH,
                FlagH, Publish, Flag
  <2> QED
    BY <2>1, <2>2, <2>3
<1>5. CASE \/ DataTimerFunc \/ UNCHANGED vars
           \/ \E s \in SensorIndices, q \in {"T", "H"} : Present(s, q)
  BY <1>5 DEF DataTimerFunc, vars, Present
<1> QED
  BY <1>2, <1>3, <1>4, <1>5, StartingStable DEF Next, Task

(* When the start is over, the active sensors are those that answered the  *)
(* first request or all three that followed it.                            *)
THEOREM StableAlways == Spec => []ActiveMeansStable
<1>1. Init => StableInv
  <2> SUFFICES ASSUME Init PROVE StableInv
    OBVIOUS
  <2>1. \A s \in SensorIndices : ~(s < 0)
    BY DEF SensorIndices
  <2> QED
    BY <2>1 DEF Init, StableInv, Starting, Deciding
<1>2. StableInv => ActiveMeansStable
  BY DEF StableInv, ActiveMeansStable, RightlyActive, Starting
<1> QED
  BY <1>1, <1>2, StableStep, TypeInvAlways, PTL DEF Spec

-----------------------------------------------------------------------------
Has(s, q) == Current[s][q] = GetData(s)[q]

(* What the Model has got so far, in the start and in a cycle.             *)
ModelInv ==
    /\ pc \in Starting => history.cycles = 0
    /\ pc \notin Starting \cup {"wait"} => history.cycles > 0
    /\ \A s \in SensorIndices : Active[s] = 1 =>
         /\ s < SensorIndex \/ pc = "wait" => Has(s, "T")
         /\ \/ s < SensorIndex /\ pc \notin Starting \cup {"wait"}
            \/ pc = "wait" /\ history.cycles > 0
            => Has(s, "H")
    /\ pc \in {"initFlagT", "flagT", "H", "flagH"} => Has(SensorIndex, "T")
    /\ pc = "flagH" => Has(SensorIndex, "H")

(* What the Model has of a sensor depends on the ring, the time and        *)
(* Current only.                                                           *)
LEMMA HasKept ==
  ASSUME NEW s, NEW q, UNCHANGED <<TimeFromStart, Data, Current>>
  PROVE  Has(s, q)' <=> Has(s, q)
BY DEF Has, GetData, Slot

(* A reading takes the Model's values of no other sensor away.             *)
LEMMA HasAfterRead ==
  ASSUME TypeInv, NEW ok \in BOOLEAN, Sensor_Read(ok),
         UNCHANGED <<TimeFromStart, Current>>,
         NEW s \in SensorIndices, s # SensorIndex, NEW q \in Quantities
  PROVE  Has(s, q)' <=> Has(s, q)
<1>1. Slot(TimeFromStart) \in Slots
  BY SlotInRing DEF TypeInv
<1>2. Data'[Slot(TimeFromStart)][s] = Data[Slot(TimeFromStart)][s]
  BY <1>1, ReadResult
<1> QED
  BY <1>2 DEF Has, GetData, Slot

(* A value that is set is the measure's.                                   *)
LEMMA HasAfterSet ==
  ASSUME TypeInv, NEW q \in Quantities, SetValue(q),
         UNCHANGED <<TimeFromStart, Data>>,
         NEW s \in SensorIndices, NEW l \in Quantities
  PROVE  /\ s = SensorIndex /\ l = q => Has(s, l)'
         /\ s # SensorIndex \/ l # q => (Has(s, l)' <=> Has(s, l))
<1>1. GetData(s)' = GetData(s)
  BY DEF GetData, Slot
<1>2. /\ Current'[SensorIndex][q] = GetData(SensorIndex)[q]
      /\ s # SensorIndex \/ l # q => Current'[s][l] = Current[s][l]
  BY ModelUpdate DEF TypeInv
<1> QED
  BY <1>1, <1>2 DEF Has

(* Every step keeps the invariant about the values of the Model.           *)
LEMMA ModelStep == TypeInv /\ ModelInv /\ [Next]_vars => ModelInv'
<1> SUFFICES ASSUME TypeInv, ModelInv, [Next]_vars PROVE ModelInv'
  OBVIOUS
<1>. USE DEF ModelInv, Starting, Quantities
<1>1. /\ SensorIndex \in SensorIndices /\ SensorIndices \subseteq Nat
      /\ Active \in [SensorIndices -> {0, 1}]
      /\ history \in HistoryType /\ history.cycles \in Nat
  BY DEF TypeInv, TypeOK, HistoryOK, HistoryType, SensorIndices
<1>3. CASE InitRead
  <2>1. PICK ok \in BOOLEAN :
          /\ Sensor_Read(ok)
          /\ history' = [history EXCEPT !.first[SensorIndex] = ok]
    BY <1>3 DEF InitRead
  <2>2. history'.cycles = history.cycles
    BY <1>1, <2>1, FirstUpdate
  <2>3. \A s \in SensorIndices : s < SensorIndex =>
          (Has(s, "T")' <=> Has(s, "T"))
    BY <1>1, <1>3, <2>1, HasAfterRead DEF InitRead
  <2>4. /\ pc = "init" /\ pc' \in {"initT", "retry"} /\ UNCHANGED SensorIndex
        /\ \A s \in SensorIndices : s < SensorIndex => Active'[s] = Active[s]
    BY <1>1, <1>3 DEF InitRead
  <2> QED
    BY <2>2, <2>3, <2>4
<1>4. CASE RetryRead
  <2>1. PICK ok \in BOOLEAN :
          /\ Sensor_Read(ok)
          /\ history' = [history EXCEPT !.failed[SensorIndex] =
                              IF ok THEN @ ELSE @ + 1]
    BY <1>4 DEF RetryRead
  <2>2. history'.cycles = history.cycles
    BY <1>1, <2>1 DEF HistoryType
  <2>3. \A s \in SensorIndices : s < SensorIndex =>
          (Has(s, "T")' <=> Has(s, "T"))
    BY <1>1, <1>4, <2>1, HasAfterRead DEF RetryRead
  <2>4. pc = "retry" /\ UNCHANGED <<pc, SensorIndex, Active>>
    BY <1>4 DEF RetryRead
  <2> QED
    BY <2>2, <2>3, <2>4
<1>5. CASE CycleRead
  <2>1. PICK ok \in BOOLEAN : Sensor_Read(ok)
    BY <1>5 DEF CycleRead
  <2>2. history'.cycles = history.cycles
    BY <1>1, <1>5 DEF CycleRead, HistoryType
  <2>3. \A s \in SensorIndices, q \in Quantities : s < SensorIndex =>
          (Has(s, q)' <=> Has(s, q))
    BY <1>1, <1>5, <2>1, HasAfterRead DEF CycleRead
  <2>4. pc = "read" /\ pc' = "T" /\ UNCHANGED <<SensorIndex, Active>>
    BY <1>5 DEF CycleRead
  <2> QED
    BY <2>2, <2>3, <2>4
<1>6. ASSUME NEW p \in {"init", "read"}, NextSensor(p), UNCHANGED history,
             \A s \in SensorIndices : s # SensorIndex =>
               Active'[s] = Active[s],
             UNCHANGED <<TimeFromStart, Data, Current>>,
             p = "init" <=> pc \in Starting, pc # "wait",
             Active'[SensorIndex] = 1 =>
               /\ Active[SensorIndex] = 1
               /\ Has(SensorIndex, "T")
               /\ p = "read" => Has(SensorIndex, "H")
      PROVE  ModelInv'
  <2>1. \A s \in SensorIndices, q \in Quantities : Has(s, q)' <=> Has(s, q)
    BY <1>6, HasKept
  <2>2. \/ pc' = p /\ SensorIndex' = SensorIndex + 1
        \/ pc' = "wait"
    BY <1>1, <1>6, LastSensor
  <2>3. pc' = "wait" => \A s \in SensorIndices : s <= SensorIndex
    BY <1>1, <1>6, LastSensor
  <2>4. \A s \in SensorIndices : Active'[s] = 1 /\ s <= SensorIndex =>
          Has(s, "T") /\ (p = "read" => Has(s, "H"))
    BY <1>1, <1>6
  <2>5. history'.cycles > 0 <=> p = "read"
    BY <1>1, <1>6
  <2>6. CASE pc' = p /\ SensorIndex' = SensorIndex + 1
    BY <1>1, <1>6, <2>1, <2>4, <2>5, <2>6
  <2>7. CASE pc' = "wait"
    BY <2>1, <2>3, <2>4, <2>5, <2>7
  <2> QED
    BY <2>2, <2>6, <2>7
<1>7. CASE Decide
  <2>1. CASE Stable(CountRX)
    <3>1. /\ pc = "retry" /\ pc' = "initT" /\ UNCHANGED <<SensorIndex, history>>
          /\ Active' = [Active EXCEPT ![SensorIndex] = 1]
          /\ UNCHANGED <<TimeFromStart, Data, Current>>
      BY <1>7, <2>1 DEF Decide
    <3>2. \A s \in SensorIndices : Has(s, "T")' <=> Has(s, "T")
      BY <3>1, HasKept
    <3>3. \A s \in SensorIndices : s < SensorIndex => Active'[s] = Active[s]
      BY <1>1, <3>1
    <3> QED
      BY <3>1, <3>2, <3>3
  <2>2. CASE ~Stable(CountRX)
    <3>1. /\ pc = "retry" /\ NextSensor("init") /\ UNCHANGED history
          /\ Active' = [Active EXCEPT ![SensorIndex] = 0]
          /\ UNCHANGED <<TimeFromStart, Data, Current>>
      BY <1>7, <2>2 DEF Decide
    <3>2. /\ Active'[SensorIndex] # 1
          /\ \A s \in SensorIndices : s # SensorIndex => Active'[s] = Active[s]
      BY <1>1, <3>1
    <3> HIDE DEF ModelInv
    <3> QED
      BY <1>6, <3>1, <3>2
  <2> QED
    BY <2>1, <2>2
<1>8. CASE InitT
  <2>1. /\ pc = "initT" /\ pc' = "initFlagT"
        /\ SetValue("T") /\ UNCHANGED <<TimeFromStart, Data>>
        /\ UNCHANGED <<SensorIndex, Active, history>>
    BY <1>8 DEF InitT
  <2>2. \A s \in SensorIndices :
          /\ s = SensorIndex => Has(s, "T")'
          /\ s < SensorIndex => (Has(s, "T")' <=> Has(s, "T"))
    BY <1>1, <2>1, HasAfterSet
  <2> QED
    BY <1>1, <2>1, <2>2
<1>9. CASE InitFlagT
  <2>1. /\ pc = "initFlagT" /\ NextSensor("init")
        /\ UNCHANGED <<TimeFromStart, Data, Current, Active, history>>
    BY <1>9 DEF InitFlagT
  <2>2. Has(SensorIndex, "T")
    BY <2>1
  <2> HIDE DEF ModelInv
  <2> QED
    BY <1>6, <2>1, <2>2
<1>10. CASE StartCycle
  <2>1. /\ pc' = "read" /\ SensorIndex' = 0
        /\ history'.cycles =
             IF history.cycles < TQ THEN history.cycles + 1 ELSE history.cycles
    BY <1>1, <1>10 DEF StartCycle, HistoryType
  <2>2. history'.cycles > 0
    BY <1>1, <2>1, ConstantFacts
  <2>3. \A s \in SensorIndices : ~(s < 0)
    BY <1>1
  <2> QED
    BY <2>1, <2>2, <2>3
<1>11. CASE CycleSkip
  <2>1. /\ pc = "read" /\ NextSensor("read") /\ Active[SensorIndex] # 1
        /\ UNCHANGED <<TimeFromStart, Data, Current, Active, history>>
    BY <1>11 DEF CycleSkip, SkipToNext
  <2> HIDE DEF ModelInv
  <2> QED
    BY <1>6, <2>1
<1>12. ASSUME SetValue("T") \/ SetValue("H"), UNCHANGED SensorIndex,
              UNCHANGED <<TimeFromStart, Data, Active, history>>,
              \/ SetValue("T") /\ pc = "T" /\ pc' = "flagT"
              \/ SetValue("H") /\ pc = "H" /\ pc' = "flagH"
       PROVE  ModelInv'
  <2>1. \A s \in SensorIndices, l \in Quantities :
          s < SensorIndex => (Has(s, l)' <=> Has(s, l))
    BY <1>1, <1>12, HasAfterSet
  <2>2. \A s \in SensorIndices : s = SensorIndex =>
          /\ Has(s, "T")'
          /\ pc' = "flagH" => Has(s, "H")'
    BY <1>1, <1>12, HasAfterSet
  <2> QED
    BY <1>1, <1>12, <2>1, <2>2
<1>13. CASE PublishT
  <2>1. CASE Differs("T")
    BY <1>12, <1>13, <2>1 DEF PublishT, Publish
  <2>2. CASE ~Differs("T")
    <3>1. /\ pc = "T" /\ pc' = "H" /\ Has(SensorIndex, "T")
          /\ UNCHANGED <<TimeFromStart, Data, Current>>
          /\ UNCHANGED <<SensorIndex, Active, history>>
      BY <1>13, <2>2 DEF PublishT, Publish, AfterT, Differs, Has
    <3>2. \A s \in SensorIndices, l \in Quantities : Has(s, l)' <=> Has(s, l)
      BY <3>1, HasKept
    <3> QED
      BY <1>1, <3>1, <3>2
  <2> QED
    BY <2>1, <2>2
<1>14. CASE PublishH
  <2>1. CASE Differs("H")
    BY <1>12, <1>14, <2>1 DEF PublishH, Publish
  <2>2. CASE ~Differs("H")
    <3>1. /\ pc = "H" /\ NextSensor("read") /\ Has(SensorIndex, "H")
          /\ UNCHANGED <<TimeFromStart, Data, Current, Active, history>>
      BY <1>14, <2>2 DEF PublishH, Publish, Differs, Has
    <3>2. Has(SensorIndex, "T")
      BY <3>1
    <3> HIDE DEF ModelInv
    <3> QED
      BY <1>6, <3>1, <3>2
  <2> QED
    BY <2>1, <2>2
<1>15. CASE FlagT
  <2>1. /\ pc = "flagT" /\ pc' = "H"
        /\ UNCHANGED <<TimeFromStart, Data, Current>>
        /\ UNCHANGED <<SensorIndex, Active, history>>
    BY <1>15 DEF FlagT, Flag, AfterT
  <2>2. \A s \in SensorIndices, l \in Quantities : Has(s, l)' <=> Has(s, l)
    BY <2>1, HasKept
  <2> QED
    BY <1>1, <2>1, <2>2
<1>16. CASE FlagH
  <2>1. /\ pc = "flagH" /\ NextSensor("read")
        /\ UNCHANGED <<TimeFromStart, Data, Current, Active, history>>
    BY <1>16 DEF FlagH, Flag
  <2>2. Has(SensorIndex, "T") /\ Has(SensorIndex, "H")
    BY <2>1
  <2> HIDE DEF ModelInv
  <2> QED
    BY <1>6, <2>1, <2>2
<1>17. CASE \/ DataTimerFunc \/ UNCHANGED vars
            \/ \E s \in SensorIndices, q \in {"T", "H"} : Present(s, q)
  <2>1. /\ UNCHANGED <<TimeFromStart, Data, Current>>
        /\ UNCHANGED <<pc, SensorIndex, Active, history>>
    BY <1>17 DEF DataTimerFunc, vars, Present
  <2>2. \A s \in SensorIndices, l \in Quantities : Has(s, l)' <=> Has(s, l)
    BY <2>1, HasKept
  <2> QED
    BY <1>1, <2>1, <2>2
<1> HIDE DEF ModelInv
<1> QED
  BY <1>3, <1>4, <1>5, <1>7, <1>8, <1>9, <1>10, <1>11, <1>13, <1>14, <1>15,
     <1>16, <1>17 DEF Next, Task

(* Between cycles the Model has the last temperature of every active       *)
(* sensor, and after the first cycle its humidity.                         *)
THEOREM ModelAlways == Spec => []ModelHasLastMeasure
<1>1. Init => ModelInv
  <2> SUFFICES ASSUME Init PROVE ModelInv
    OBVIOUS
  <2>1. \A s \in SensorIndices : ~(s < 0)
    BY DEF SensorIndices
  <2> QED
    BY <2>1 DEF Init, ModelInv, Starting
<1>2. ModelInv => ModelHasLastMeasure
  BY DEF ModelInv, ModelHasLastMeasure, Has
<1> QED
  BY <1>1, <1>2, ModelStep, TypeInvAlways, PTL DEF Spec

-----------------------------------------------------------------------------
Tick(k) == (TimeFromStart - k) % TimeRange

(* Has the sensor's measure of this cycle been taken?                      *)
Done(s) == pc = "wait" \/ s < SensorIndex \/ (s = SensorIndex /\ pc # "read")

(* The ring in the start, where every tick is 0, and in a cycle.           *)
RingInv ==
    /\ pc \in Starting =>
         /\ TimeFromStart = 0 /\ history.cycles = 0
         /\ \A j \in Slots, s \in SensorIndices : Time[j][s] = 0
    /\ \A s \in SensorIndices : Active[s] = 1 => TypeOfSensor[s] = 1
    /\ pc = "retry" /\ TypeOfSensor[SensorIndex] # 1 => CountRX = 0
    /\ pc \notin Starting =>
         \A s \in SensorIndices, k \in Slots :
            Active[s] = 1 /\ k <= history.cycles /\ (k >= 1 \/ Done(s)) =>
              Time[Slot(Tick(k))][s] = Tick(k)

(* Where the ring has the last ticks: the present one in its slot, the     *)
(* TQ - 1 before it in others.                                             *)
LEMMA TickSlots ==
  ASSUME TypeOK
  PROVE  /\ Tick(0) = TimeFromStart
         /\ \A k \in Slots : /\ Slot(Tick(k)) \in Slots
                             /\ k >= 1 => Slot(Tick(k)) # Slot(TimeFromStart)
<1>1. /\ TimeFromStart \in 0 .. TimeRange - 1 /\ TimeFromStart \in Int
      /\ TimeRange \in Nat /\ TimeRange > 0 /\ TQ \in Nat /\ TQ > 0
  BY ConstantFacts DEF TypeOK
<1>2. Tick(0) = TimeFromStart
  <2>1. TimeFromStart - 0 = 0 * TimeRange + TimeFromStart
    BY <1>1
  <2>2. (TimeFromStart - 0) % TimeRange = TimeFromStart
    BY <1>1
  <2> QED
    BY <2>2 DEF Tick
<1>3. ASSUME NEW k \in Slots
      PROVE  Slot(Tick(k)) = (TimeFromStart - k) % TQ
  <2> DEFINE x == TimeFromStart - k
  <2>1. x \in Int
    BY <1>1 DEF Slots
  <2>2. TimeRange % TQ = 0
    BY ConstantsAssumption
  <2> HIDE DEF x
  <2>3. (x % TimeRange) % TQ = x % TQ
    BY <1>1, <2>1, <2>2, ModMod
  <2> QED
    BY <2>3 DEF x, Slot, Tick
<1>4. ASSUME NEW k \in Slots PROVE Slot(Tick(k)) \in Slots
  <2>1. TimeFromStart - k \in Int
    BY <1>1 DEF Slots
  <2>2. (TimeFromStart - k) % TQ \in 0 .. TQ - 1
    BY <1>1, <2>1, ModFacts
  <2> QED
    BY <1>3, <2>2 DEF Slots
<1>5. ASSUME NEW k \in Slots, k >= 1
      PROVE  Slot(Tick(k)) # Slot(TimeFromStart)
  <2>1. k \in 1 .. TQ - 1
    BY <1>5 DEF Slots
  <2>2. (TimeFromStart - k) % TQ # TimeFromStart % TQ
    BY <1>1, <2>1, ModDiffers
  <2> QED
    BY <1>3, <2>2 DEF Slot
<1> QED
  BY <1>2, <1>4, <1>5

(* A tick later, the tick before is the one of last time.                  *)
LEMMA TickLater ==
  ASSUME TypeOK, TimeFromStart' = Advance(TimeFromStart),
         NEW k \in Slots, k >= 1
  PROVE  /\ k - 1 \in Slots
         /\ Tick(k)' = Tick(k - 1)
<1>1. /\ TimeFromStart \in Int /\ k \in Int /\ -k \in Int
      /\ TimeRange \in Nat /\ TimeRange > 0
  BY ConstantFacts DEF TypeOK, Slots
<1> DEFINE x == TimeFromStart + 1
           a == -k
<1>2. x \in Int /\ a \in Int /\ x + a = TimeFromStart - (k - 1)
  BY <1>1
<1>3. (x % TimeRange) - k = (x % TimeRange) + a
  <2>1. x % TimeRange \in Int
    BY <1>1
  <2> QED
    BY <1>1, <2>1
<1> HIDE DEF x, a
<1>4. ((x % TimeRange) + a) % TimeRange = (x + a) % TimeRange
  BY <1>1, <1>2, ModAdd
<1>5. Tick(k)' = ((x % TimeRange) - k) % TimeRange
  BY DEF Tick, Advance, x
<1>6. k - 1 \in Slots
  BY ConstantFacts DEF Slots
<1> QED
  BY <1>2, <1>3, <1>4, <1>5, <1>6 DEF Tick

(* A reading stamps the slot of its second for its sensor, no other.       *)
LEMMA TimeAfterRead ==
  ASSUME TypeInv, NEW ok \in BOOLEAN, Sensor_Read(ok),
         TypeOfSensor[SensorIndex] = 1
  PROVE  /\ Time'[Slot(TimeFromStart)][SensorIndex] = TimeFromStart
         /\ \A j \in Slots, s \in SensorIndices :
              j # Slot(TimeFromStart) \/ s # SensorIndex =>
                Time'[j][s] = Time[j][s]
<1>1. /\ SensorIndex \in SensorIndices
      /\ Time \in [Slots -> [SensorIndices -> 0 .. TimeRange - 1]]
      /\ Slot(TimeFromStart) \in Slots
  BY SlotInRing DEF TypeInv, TypeOK, Slots
<1>2. Time' = [Time EXCEPT ![Slot(TimeFromStart)][SensorIndex] = TimeFromStart]
  BY DEF Sensor_Read
<1> QED
  BY <1>1, <1>2

(* Each step of the start: every measure is recorded at tick 0.            *)
LEMMA StartingRing ==
  ASSUME TypeInv, RingInv, InitRead \/ RetryRead \/ Decide \/ InitT \/ InitFlagT
  PROVE  RingInv'
<1>. USE DEF RingInv, Starting
<1>1. /\ SensorIndex \in SensorIndices /\ SensorIndices \subseteq Int
      /\ Active \in [SensorIndices -> {0, 1}]
      /\ history \in HistoryType /\ var \in 0 .. 3
  BY DEF TypeInv, TypeOK, HistoryOK, SensorIndices
<1>2. /\ pc \in Starting /\ TimeFromStart = 0 /\ history.cycles = 0
      /\ \A j \in Slots, s \in SensorIndices : Time[j][s] = 0
  BY DEF InitRead, RetryRead, Decide, InitT, InitFlagT
<1>3. TimeFromStart' = 0 /\ history'.cycles = 0
  BY <1>1, <1>2 DEF InitRead, RetryRead, Decide, InitT, InitFlagT, HistoryType
<1>4. \A j \in Slots, s \in SensorIndices : Time'[j][s] = 0
  <2>1. CASE InitRead \/ RetryRead
    <3>1. PICK ok \in BOOLEAN : Sensor_Read(ok)
      BY <2>1 DEF InitRead, RetryRead
    <3>2. CASE TypeOfSensor[SensorIndex] # 1
      BY <1>2, <3>1, <3>2 DEF Sensor_Read
    <3>3. CASE TypeOfSensor[SensorIndex] = 1
      <4> HIDE DEF RingInv
      <4>1. /\ Time'[Slot(TimeFromStart)][SensorIndex] = 0
            /\ \A j \in Slots, s \in SensorIndices :
                 j # Slot(TimeFromStart) \/ s # SensorIndex =>
                   Time'[j][s] = Time[j][s]
        BY <1>2, <3>1, <3>3, TimeAfterRead
      <4> QED
        BY <1>2, <4>1
    <3> QED
      BY <3>2, <3>3
  <2>2. CASE Decide \/ InitT \/ InitFlagT
    BY <1>2, <2>2 DEF Decide, InitT, InitFlagT
  <2> QED
    BY <2>1, <2>2
<1>5. /\ \A s \in SensorIndices : Active'[s] = 1 => TypeOfSensor[s] = 1
      /\ pc' = "retry" /\ TypeOfSensor[SensorIndex] # 1 => CountRX' = 0
      /\ pc' = "retry" => SensorIndex' = SensorIndex
  <2>1. CASE InitRead
    BY <1>1, <2>1 DEF InitRead, Sensor_Read
  <2>2. CASE RetryRead
    BY <1>1, <2>2 DEF RetryRead, Sensor_Read
  <2>3. CASE Decide
    <3>1. pc = "retry" /\ pc' # "retry"
      BY <2>3 DEF Decide, NextSensor
    <3>2. CountRX = 3 => TypeOfSensor[SensorIndex] = 1
      BY <3>1
    <3>3. \/ Active' = [Active EXCEPT ![SensorIndex] = 0]
          \/ CountRX = 3 /\ Active' = [Active EXCEPT ![SensorIndex] = 1]
      BY <2>3 DEF Decide, Stable
    <3> QED
      BY <1>1, <3>1, <3>2, <3>3
  <2>4. CASE InitT \/ InitFlagT
    BY <2>4 DEF InitT, InitFlagT, NextSensor
  <2> QED
    BY <2>1, <2>2, <2>3, <2>4
<1>6. \A s \in SensorIndices, k \in Slots :
        k <= history'.cycles => Time'[Slot(Tick(k)')][s] = Tick(k)'
  <2> SUFFICES ASSUME NEW s \in SensorIndices, NEW k \in Slots,
                      k <= history'.cycles
               PROVE  Time'[Slot(Tick(k)')][s] = Tick(k)'
    OBVIOUS
  <2>1. k = 0
    BY <1>3 DEF Slots
  <2>2. Tick(0) = TimeFromStart /\ 0 \in Slots /\ Slot(Tick(0)) \in Slots
    <3>1. 0 \in Slots
      BY ConstantFacts DEF Slots
    <3> QED
      BY <3>1, TickSlots DEF TypeInv
  <2>3. Tick(0)' = Tick(0) /\ Tick(0) = 0
    BY <1>2, <1>3, <2>2 DEF Tick
  <2> QED
    BY <1>4, <2>1, <2>2, <2>3
<1>7. RingInv'
  BY <1>3, <1>4, <1>5, <1>6 DEF Slot
<1> QED
  BY <1>7

(* Every step keeps the invariant about the ring.                          *)
LEMMA RingStep == TypeInv /\ RingInv /\ [Next]_vars => RingInv'
<1> SUFFICES ASSUME TypeInv, RingInv, [Next]_vars PROVE RingInv'
  OBVIOUS
<1>1. /\ SensorIndex \in SensorIndices /\ SensorIndices \subseteq Nat
      /\ history \in HistoryType /\ history.cycles \in Nat
  BY DEF TypeInv, TypeOK, HistoryOK, HistoryType, SensorIndices
<1>2. ASSUME UNCHANGED <<TimeFromStart, Time, Active>>,
             history'.cycles = history.cycles,
             pc \notin Starting, pc' \notin Starting,
             \A s \in SensorIndices : Active[s] = 1 /\ Done(s)' => Done(s)
      PROVE  RingInv'
  <2>1. \A k \in Slots : Tick(k)' = Tick(k)
    BY <1>2 DEF Tick
  <2>2. \A s \in SensorIndices, k \in Slots :
           Active[s] = 1 /\ k <= history.cycles /\ (k >= 1 \/ Done(s)) =>
             Time[Slot(Tick(k))][s] = Tick(k)
    BY <1>2 DEF RingInv
  <2>3. \A s \in SensorIndices, k \in Slots :
           Active'[s] = 1 /\ k <= history'.cycles /\ (k >= 1 \/ Done(s)') =>
             Time'[Slot(Tick(k)')][s] = Tick(k)'
    BY <1>2, <2>1, <2>2
  <2> QED
    BY <1>2, <2>3 DEF RingInv, Slot, Starting
<1>3. ASSUME NEW p, p = "read", NextSensor(p), pc # "wait",
             Active[SensorIndex] = 1 => pc # "read",
             NEW s \in SensorIndices, Active[s] = 1, Done(s)'
      PROVE  Done(s)
  <2>1. \/ pc' = p /\ SensorIndex' = SensorIndex + 1
        \/ \A r \in SensorIndices : r <= SensorIndex
    BY <1>1, <1>3, LastSensor
  <2>2. s <= SensorIndex
    BY <1>1, <1>3, <2>1 DEF Done
  <2>3. s < SensorIndex \/ s = SensorIndex
    BY <1>1, <2>2
  <2> QED
    BY <1>3, <2>3 DEF Done
<1>4. CASE StartCycle
  <2>1. /\ pc = "wait" /\ pc' = "read" /\ SensorIndex' = 0
        /\ TimeFromStart' = Advance(TimeFromStart)
        /\ UNCHANGED <<Time, Active>>
    BY <1>4 DEF StartCycle
  <2>2. history'.cycles \in Nat /\ history'.cycles <= history.cycles + 1
    <3>1. history'.cycles = IF history.cycles < TQ THEN history.cycles + 1
                                                   ELSE history.cycles
      BY <1>1, <1>4 DEF StartCycle, HistoryType
    <3> QED
      BY <1>1, <3>1
  <2>3. ASSUME NEW s \in SensorIndices, NEW k \in Slots, Active'[s] = 1,
               k <= history'.cycles, k >= 1 \/ Done(s)'
        PROVE  Time'[Slot(Tick(k)')][s] = Tick(k)'
    <3>1. ~Done(s)'
      BY <1>1, <2>1 DEF Done
    <3>2. k >= 1 /\ k - 1 <= history.cycles
      BY <1>1, <2>2, <2>3, <3>1 DEF Slots
    <3>3. k - 1 \in Slots /\ Tick(k)' = Tick(k - 1)
      BY <2>1, <3>2, TickLater DEF TypeInv
    <3>4. Time[Slot(Tick(k - 1))][s] = Tick(k - 1)
      BY <2>1, <2>3, <3>2, <3>3 DEF RingInv, Starting, Done
    <3> QED
      BY <2>1, <3>3, <3>4
  <2> QED
    BY <2>1, <2>3 DEF RingInv, Starting, Slot
<1>5. CASE CycleRead
  <2>1. /\ pc = "read" /\ pc' = "T" /\ Active[SensorIndex] = 1
        /\ UNCHANGED <<SensorIndex, TimeFromStart, Active>>
    BY <1>5 DEF CycleRead
  <2>2. PICK ok \in BOOLEAN : Sensor_Read(ok)
    BY <1>5 DEF CycleRead
  <2>3. TypeOfSensor[SensorIndex] = 1
    BY <1>1, <2>1 DEF RingInv
  <2>4. /\ Time'[Slot(TimeFromStart)][SensorIndex] = TimeFromStart
        /\ \A j \in Slots, s \in SensorIndices :
             j # Slot(TimeFromStart) \/ s # SensorIndex =>
               Time'[j][s] = Time[j][s]
    BY <2>2, <2>3, TimeAfterRead
  <2>5. history'.cycles = history.cycles
    BY <1>1, <1>5 DEF CycleRead, HistoryType
  <2>6. ASSUME NEW s \in SensorIndices, NEW k \in Slots, Active[s] = 1,
               k <= history.cycles, k >= 1 \/ Done(s)'
        PROVE  Time'[Slot(Tick(k))][s] = Tick(k)
    <3>1. /\ Tick(0) = TimeFromStart
          /\ Slot(Tick(k)) \in Slots
          /\ k >= 1 => Slot(Tick(k)) # Slot(TimeFromStart)
      BY TickSlots DEF TypeInv
    <3>2. CASE k = 0 /\ s = SensorIndex
      BY <2>4, <3>1, <3>2
    <3>3. CASE ~(k = 0 /\ s = SensorIndex)
      <4>1. k >= 1 \/ (k = 0 /\ s # SensorIndex)
        BY <3>3 DEF Slots
      <4>2. k >= 1 \/ Done(s)
        BY <2>1, <2>6, <4>1 DEF Done
      <4>3. Time[Slot(Tick(k))][s] = Tick(k)
        BY <2>1, <2>6, <4>2 DEF RingInv, Starting
      <4>4. Slot(Tick(k)) # Slot(TimeFromStart) \/ s # SensorIndex
        BY <3>1, <4>1
      <4> QED
        BY <2>4, <3>1, <4>3, <4>4
    <3> QED
      BY <3>2, <3>3
  <2>7. \A k \in Slots : Tick(k)' = Tick(k)
    BY <2>1 DEF Tick
  <2>8. \A s \in SensorIndices, k \in Slots :
          Active'[s] = 1 /\ k <= history'.cycles /\ (k >= 1 \/ Done(s)') =>
            Time'[Slot(Tick(k)')][s] = Tick(k)'
    BY <2>1, <2>5, <2>6, <2>7
  <2> QED
    BY <2>1, <2>8 DEF RingInv, Starting, Slot
<1>6. CASE CycleSkip
  <2>1. /\ pc = "read" /\ NextSensor("read") /\ Active[SensorIndex] # 1
        /\ UNCHANGED <<TimeFromStart, Time, Active, history>>
    BY <1>6 DEF CycleSkip, SkipToNext
  <2>2. pc \notin Starting /\ pc' \notin Starting
    BY <2>1 DEF Starting, NextSensor
  <2> QED
    BY <1>2, <1>3, <2>1, <2>2
<1>7. CASE PublishT \/ FlagT \/ PublishH \/ FlagH
  <2>1. /\ UNCHANGED <<TimeFromStart, Time, Active, history>>
        /\ pc \in {"T", "flagT", "H", "flagH"}
        /\ \/ pc' \in {"flagT", "H", "flagH"} /\ UNCHANGED SensorIndex
           \/ NextSensor("read")
    BY <1>7 DEF PublishT, FlagT, PublishH, FlagH, Publish, Flag, AfterT
  <2>2. pc \notin Starting /\ pc' \notin Starting
    BY <2>1 DEF Starting, NextSensor
  <2>3. CASE pc' \in {"flagT", "H", "flagH"} /\ UNCHANGED SensorIndex
    <3>1. \A s \in SensorIndices : Done(s)' => Done(s)
      BY <2>1, <2>3 DEF Done
    <3> QED
      BY <1>2, <2>1, <2>2, <3>1
  <2>4. CASE NextSensor("read")
    BY <1>2, <1>3, <2>1, <2>2, <2>4
  <2> QED
    BY <2>1, <2>3, <2>4
<1>8. CASE \/ DataTimerFunc \/ UNCHANGED vars
           \/ \E s \in SensorIndices, q \in {"T", "H"} : Present(s, q)
  <2>1. /\ UNCHANGED <<pc, SensorIndex, TimeFromStart, Time, Active>>
        /\ UNCHANGED <<history, CountRX>>
    BY <1>8 DEF DataTimerFunc, vars, Present
  <2>2. CASE pc \in Starting
    BY <2>1, <2>2 DEF RingInv
  <2>3. CASE pc \notin Starting
    <3>1. \A s \in SensorIndices : Done(s)' => Done(s)
      BY <2>1 DEF Done
    <3> QED
      BY <1>2, <2>1, <2>3, <3>1
  <2> QED
    BY <2>2, <2>3
<1> QED
  BY <1>4, <1>5, <1>6, <1>7, <1>8, StartingRing DEF Next, Task

(* Between cycles the ring holds the measures of the last TQ cycles of     *)
(* every active sensor, each where GetData looks it up, also when the      *)
(* number of the tick has wrapped around.                                  *)
THEOREM RingAlways == Spec => []RingHoldsRecentCycles
<1>1. Init => RingInv
  BY DEF Init, RingInv, Starting, Slots
<1>2. RingInv => RingHoldsRecentCycles
  BY DEF RingInv, RingHoldsRecentCycles, Starting, Done, Tick, Slots
<1> QED
  BY <1>1, <1>2, RingStep, TypeInvAlways, PTL DEF Spec
===============================================================================
