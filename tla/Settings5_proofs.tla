--------------------------- MODULE Settings5_proofs ---------------------------
(***************************************************************************)
(* Proofs about Settings5 and the task ProgSensor, for any addresses, any  *)
(* number of speeds and any choices of the user.                           *)
(***************************************************************************)
EXTENDS Settings5, TLAPS

(* What the values of an element of the screen may be.                     *)
SetRange(w) == IF w = "addr" THEN Chosen.addr \cup {0}
               ELSE IF w = "type" THEN 0 .. 2 ELSE Speeds

(* A wheel restores a value of its own, and the address a request carries  *)
(* is one the user has chosen, from the button to the sensor.              *)
ChosenIsWritten ==
    /\ wheel # "none" => old \in SetRange(wheel)
    /\ BTNWrite => Set.addr # 0
    /\ Flag_WR = 1 \/ pc = "readAddress" => WR_to_sensor.addr # 0
    /\ pc \in {"writeAddress", "writeSpeed"} => WR.addr # 0
    /\ pc = "writeSpeed" => Sens.addr = WR.addr

(* Where the task is about to announce what it sets.                       *)
Setting == {"switch", "set", "setBaud", "setFlag"}

(* How far setCurrentVal_PR has come, and what the first half of a tick    *)
(* has read when the second half has nothing new to expect.                *)
HalfwayIsKnown ==
    /\ pc \notin Setting \cup {"off"} =>
         PR_sensor \in Known(Addresses, Speeds) \cup {NoSensor}
    /\ pc = "setBaud" => PR_sensor.addr = setting.addr
    /\ pc = "setFlag" => PR_sensor = setting
    /\ screen = "baud" /\ FlagPR = 0 /\ pc \notin Setting =>
         shown.addr = PR_sensor.addr

TypeInv == TypeOK /\ ChosenIsWritten

(* What the proofs use of the constants.                                   *)
LEMMA ConstantFacts ==
  /\ Speeds \subseteq 0 .. 253 /\ 0 \in Speeds /\ LastSpeed \in Speeds
  /\ \A s \in Speeds : s # LastSpeed => s + 1 \in Speeds
  /\ \A s \in Speeds : s < LastSpeed <=> s # LastSpeed
  /\ Addresses \subseteq 1 .. 247
  /\ Chosen.addr \subseteq Addresses
  /\ Chosen.speed \subseteq Speeds
  /\ Chosen.type \subseteq 0 .. 2
BY ConstantsAssumption DEF Speeds, LastSpeed

(* One retry more is a different count within the width of the counter.    *)
LEMMA RetryFacts ==
  ASSUME NEW n \in 0 .. RetryRange - 1
  PROVE  /\ (n + 1) % RetryRange \in 0 .. RetryRange - 1
         /\ (n + 1) % RetryRange # n
         /\ 0 \in 0 .. RetryRange - 1
<1>1. RetryRange \in Nat /\ RetryRange > 4
  BY ConstantsAssumption
<1>2. CASE n + 1 < RetryRange
  <2>1. (n + 1) % RetryRange = n + 1
    BY <1>1, <1>2
  <2> QED
    BY <1>1, <1>2, <2>1
<1>3. CASE n + 1 = RetryRange
  <2>1. (n + 1) % RetryRange = 0
    BY <1>1, <1>3
  <2> QED
    BY <1>1, <1>3, <2>1
<1> QED
  BY <1>1, <1>2, <1>3

(* Pairs with one part changed.                                            *)
LEMMA PairUpdate ==
  ASSUME NEW A, NEW B, NEW r \in Known(A, B)
  PROVE  /\ r.addr \in A /\ r.baud \in B
         /\ r = [addr |-> r.addr, baud |-> r.baud]
         /\ \A a \in A : /\ [r EXCEPT !.addr = a] \in Known(A, B)
                         /\ [r EXCEPT !.addr = a].addr = a
                         /\ [r EXCEPT !.addr = a].baud = r.baud
         /\ \A b \in B : /\ [r EXCEPT !.baud = b] \in Known(A, B)
                         /\ [r EXCEPT !.baud = b].addr = r.addr
                         /\ [r EXCEPT !.baud = b].baud = b
BY DEF Known

(* The initial values have their types.                                    *)
LEMMA InitTypeInv == Init => TypeInv
<1> SUFFICES ASSUME Init PROVE TypeInv
  OBVIOUS
<1>1. 0 \in 0 .. RetryRange - 1
  BY ConstantsAssumption
<1>2. TaskTypeOK
  BY <1>1, ConstantFacts DEF Init, TaskInit, TaskTypeOK, Points, Known,
                             NoSensor, Nothing, Pair
<1>3. TypeOK
  <2>1. 0 \in Speeds
    BY ConstantFacts
  <2>2. Set \in [type : 0 .. 2, speed : Speeds, addr : Chosen.addr \cup {0}]
    BY <2>1 DEF Init, NothingSet
  <2>3. shown \in Known(Addresses \cup {0, SensNullValue},
                       Speeds \cup {0, SensNullValue})
    BY DEF Init, Nothing, Pair, Known
  <2> QED
    BY <1>2, <2>1, <2>2, <2>3 DEF Init, TaskInit, TypeOK
<1>4. ChosenIsWritten
  BY DEF Init, TaskInit, ChosenIsWritten
<1> QED
  BY <1>3, <1>4 DEF TypeInv

(* What a write leaves in the sensor is a value the user has chosen, or    *)
(* the one it had.                                                         *)
LEMMA WriteResult ==
  ASSUME sensor \in Known(Addresses, Speeds), NEW reg, NEW v,
         reg = AddressReg => v \in Addresses,
         reg = SpeedReg => v \in Speeds,
         reg \in {AddressReg, SpeedReg},
         Served(reg, v)
  PROVE  /\ sensor' \in Known(Addresses, Speeds)
         /\ reg = AddressReg => /\ sensor'.baud = sensor.baud
                                /\ sensor'.addr \in {sensor.addr, v}
         /\ reg = SpeedReg => /\ sensor'.addr = sensor.addr
                              /\ sensor'.baud \in {sensor.baud, v}
<1>1. AddressReg # SpeedReg
  BY DEF AddressReg, SpeedReg
<1> QED
  BY <1>1, PairUpdate DEF Served

(* Each step of the task keeps the types.                                  *)
LEMMA TaskTypeInv ==
  ASSUME TypeInv, TaskStep PROVE TypeInv'
<1>. USE DEF TypeInv, TypeOK, ChosenIsWritten, TaskTypeOK, local, bus, request,
             display, screenVars, view
<1>0. UNCHANGED screenVars
  BY DEF TaskStep
<1>1. CASE SetAddressPR
  <2>1. setting.addr \in Addresses \cup {SensNullValue}
    BY PairUpdate DEF NoSensor, Pair
  <2>2. PR_sensor' \in Known(Addresses \cup {0, SensNullValue},
                             Speeds \cup {SensNullValue})
    BY <1>1, <2>1, PairUpdate DEF SetAddressPR
  <2> QED
    BY <1>0, <1>1, <2>2 DEF SetAddressPR, Points
<1>2. CASE SetBaudRatePR
  <2>1. setting.baud \in Speeds \cup {SensNullValue}
    BY PairUpdate DEF NoSensor, Pair
  <2>2. PR_sensor' \in Known(Addresses \cup {0, SensNullValue},
                             Speeds \cup {SensNullValue})
    BY <1>2, <2>1, PairUpdate DEF SetBaudRatePR
  <2> QED
    BY <1>0, <1>2, <2>2 DEF SetBaudRatePR, Points
<1>3. CASE SetFlagPR
  BY <1>0, <1>3 DEF SetFlagPR, Points, Raised
<1>4. CASE Switch
  BY <1>0, <1>4 DEF Switch, CallSet, Points
<1>5. CASE While
  BY <1>0, <1>5 DEF While, Points
<1>6. CASE Scan
  <2>1. scan' \in Speeds /\ speed' \in Speeds
    BY <1>6, ConstantFacts DEF Scan
  <2>2. Sens' \in Known(Addresses \cup {0}, Speeds)
    BY <1>6 DEF Scan, Known
  <2>3. /\ pc' \in {"set", "test", "scan"}
        /\ setting' \in Known(Addresses, Speeds) \cup {NoSensor}
        /\ after' \in {"switch", "while", "test"}
    <3>1. \/ pc' = "set" /\ setting' \in {sensor, NoSensor} /\ after' = "test"
          \/ pc' = "test" /\ UNCHANGED <<setting, after>>
          \/ UNCHANGED <<pc, setting, after>>
      BY <1>6 DEF Scan, CallSet
    <3> QED
      BY <1>6, <3>1 DEF Scan
  <2> QED
    BY <1>0, <1>6, <2>1, <2>2, <2>3 DEF Scan, Points
<1>7. CASE Test
  <2>1. WR_to_sensor.baud \in Speeds /\ 0 \in Speeds
    BY PairUpdate, ConstantFacts
  <2>2. WR' \in Known(Chosen.addr \cup {0}, Speeds)
    BY <1>7, <2>1, PairUpdate DEF Test, Nothing, Pair, Known
  <2>3. i' \in 0 .. RetryRange - 1
    BY <1>7, RetryFacts DEF Test
  <2> QED
    BY <1>0, <1>7, <2>2, <2>3 DEF Test, Points
<1>8. CASE ReadAddress
  <2>1. WR_to_sensor.addr \in Chosen.addr \cup {0}
    BY PairUpdate
  <2>2. /\ WR' \in Known(Chosen.addr \cup {0}, Speeds)
        /\ WR'.addr = WR_to_sensor.addr
    BY <1>8, <2>1, PairUpdate DEF ReadAddress
  <2> QED
    BY <1>0, <1>8, <2>2 DEF ReadAddress, Points
<1>9. CASE WriteAddress
  <2>1. WR.addr \in Addresses
    BY <1>9, PairUpdate, ConstantFacts DEF WriteAddress
  <2>2. sensor' \in Known(Addresses, Speeds)
    <3>1. CASE UNCHANGED sensor
      BY <3>1
    <3>2. CASE Served(AddressReg, WR.addr)
      BY <2>1, <3>2, WriteResult DEF AddressReg, SpeedReg
    <3> QED
      BY <1>9, <3>1, <3>2 DEF WriteAddress, Answered, Unanswered
  <2>3. /\ Sens' \in Known(Addresses \cup {0}, Speeds)
        /\ pc' = "writeSpeed" => Sens'.addr = WR.addr
    BY <1>9, <2>1, PairUpdate DEF WriteAddress
  <2> QED
    BY <1>0, <1>9, <2>2, <2>3 DEF WriteAddress, Points
<1>10. CASE WriteSpeed
  <2>1. WR.baud \in Speeds
    BY PairUpdate
  <2>2. sensor' \in Known(Addresses, Speeds)
    BY <1>10, <2>1, WriteResult
      DEF WriteSpeed, Answered, Unanswered, SpeedWrittenTo, AddressReg, SpeedReg
  <2>3. Sens' \in Known(Addresses \cup {0}, Speeds)
    <3>1. Answer(SpeedWrittenTo) \in Speeds
      BY <2>2, PairUpdate DEF Answer, SpeedWrittenTo, AddressReg, SpeedReg
    <3> QED
      BY <1>10, <3>1, PairUpdate DEF WriteSpeed
  <2>4. i' \in 0 .. RetryRange - 1
    BY <1>10, RetryFacts DEF WriteSpeed, NextRetry
  <2> QED
    BY <1>0, <1>10, <2>2, <2>3, <2>4 DEF WriteSpeed, Points
<1> QED
  BY <1>1, <1>2, <1>3, <1>4, <1>5, <1>6, <1>7, <1>8, <1>9, <1>10
    DEF TaskStep, Task

(* So does each half of a tick of the screen.                              *)
LEMMA TickTypeInv ==
  ASSUME TypeInv, Tick PROVE TypeInv'
<1>. USE DEF TypeInv, TypeOK, ChosenIsWritten, TaskTypeOK, taskVars, local, bus,
             request, display
<1>1. BTNWrite' \in BOOLEAN /\ (BTNWrite' => Set.addr # 0)
  BY DEF Tick, Val_Addr_UpdateView, Val_BaudRate_UpdateView, ShowWrite, Allowed
<1>2. FlagWrite_visible' \in {0, 1}
  BY DEF Tick, Val_Addr_UpdateView, Val_BaudRate_UpdateView, ShowWrite
<1>3. CASE Val_Addr_UpdateView
  <2>1. PR_sensor.addr \in Addresses \cup {0, SensNullValue}
    BY PairUpdate
  <2>2. shown' \in Known(Addresses \cup {0, SensNullValue},
                        Speeds \cup {0, SensNullValue})
    BY <1>3, <2>1, PairUpdate DEF Val_Addr_UpdateView
  <2> QED
    BY <1>1, <1>2, <1>3, <2>2 DEF Val_Addr_UpdateView
<1>4. CASE Val_BaudRate_UpdateView
  <2>1. PR_sensor.baud \in Speeds \cup {0, SensNullValue}
    BY PairUpdate
  <2>2. shown' \in Known(Addresses \cup {0, SensNullValue},
                        Speeds \cup {0, SensNullValue})
    BY <1>4, <2>1, PairUpdate DEF Val_BaudRate_UpdateView
  <2> QED
    BY <1>1, <1>2, <1>4, <2>2 DEF Val_BaudRate_UpdateView
<1> QED
  BY <1>3, <1>4 DEF Tick

(* The values of a screen with one of them changed.                        *)
LEMMA SetUpdate ==
  ASSUME NEW r \in [type : 0 .. 2, speed : Speeds,
                    addr : Chosen.addr \cup {0}],
         NEW w \in Wheels
  PROVE  /\ r[w] \in SetRange(w)
         /\ \A v \in SetRange(w) :
              /\ [r EXCEPT ![w] = v] \in [type : 0 .. 2, speed : Speeds,
                                          addr : Chosen.addr \cup {0}]
              /\ [r EXCEPT ![w] = v].addr = IF w = "addr" THEN v ELSE r.addr
BY DEF Wheels, SetRange

(* A new view is empty.                                                    *)
LEMMA NewViewType ==
  ASSUME NewView
  PROVE  /\ Set' \in [type : 0 .. 2, speed : Speeds,
                      addr : Chosen.addr \cup {0}]
         /\ old' = 0 /\ wheel' = "none" /\ FlagWrite_visible' = 0
         /\ BTNWrite' = FALSE
         /\ shown' \in Known(Addresses \cup {0, SensNullValue},
                             Speeds \cup {0, SensNullValue})
<1>1. 0 \in Speeds
  BY ConstantFacts
<1> QED
  BY <1>1 DEF NewView, NothingSet, Nothing, Pair, Known

(* So does whatever the user does.                                         *)
LEMMA UserTypeInv ==
  ASSUME TypeInv, User PROVE TypeInv'
<1>. USE DEF TypeInv, TypeOK, ChosenIsWritten, TaskTypeOK, taskVars, local, bus,
             request, display, view
<1>1. CASE setupScreen
  BY <1>1, NewViewType DEF setupScreen, Points
<1>2. CASE tearDownScreen
  <2>1. sensor' \in Known(Addresses, Speeds)
    <3>1. CASE UNCHANGED sensor
      BY <3>1
    <3>2. CASE pc = "writeAddress" /\ Served(AddressReg, WR.addr)
      <4>1. WR.addr \in Addresses
        BY <3>2, PairUpdate, ConstantFacts
      <4> QED
        BY <3>2, <4>1, WriteResult DEF AddressReg, SpeedReg
    <3>3. CASE Served(SpeedReg, WR.baud)
      <4>1. WR.baud \in Speeds
        BY PairUpdate
      <4> QED
        BY <3>3, <4>1, WriteResult DEF AddressReg, SpeedReg
    <3> QED
      BY <1>2, <3>1, <3>2, <3>3
        DEF tearDownScreen, Killed, Answered, SpeedWrittenTo
  <2>2. /\ scan' \in Speeds
        /\ setting' \in Known(Addresses, Speeds) \cup {NoSensor}
        /\ after' \in {"switch", "while", "test"}
        /\ i' \in 0 .. RetryRange - 1
        /\ WR' \in Known(Chosen.addr \cup {0}, Speeds)
    <3>1. 0 \in Speeds /\ 0 \in 0 .. RetryRange - 1
      BY ConstantFacts, ConstantsAssumption
    <3> QED
      BY <1>2, <3>1
        DEF tearDownScreen, Killed, LocalsGone, Nothing, Pair, Known
  <2>3. /\ screen' = "closed" /\ pc' = "off"
        /\ UNCHANGED <<speed, Sens, Type_of_sensor, WR_to_sensor, Flag_WR,
                      PR_sensor, FlagPR>>
    BY <1>2 DEF tearDownScreen, Killed
  <2>4. NewView
    BY <1>2 DEF tearDownScreen
  <2> QED
    BY <2>1, <2>2, <2>3, <2>4, NewViewType DEF Points
<1>3. ASSUME NEW w \in Wheels, OpenWheel(w) PROVE TypeInv'
  <2>1. old' \in SetRange(w)
    BY <1>3, SetUpdate DEF OpenWheel
  <2>2. old' \in 0 .. 2 \cup Speeds \cup Chosen.addr
    BY <2>1 DEF SetRange
  <2> QED
    BY <1>3, <2>1, <2>2 DEF OpenWheel
<1>4. ASSUME NEW v \in UNION {Chosen[w] : w \in Wheels}, Select(v)
      PROVE  TypeInv'
  <2>1. /\ wheel \in Wheels
        /\ v \in SetRange(wheel)
        /\ wheel = "addr" => v # 0
    BY <1>4, ConstantFacts DEF Select, SetRange, Wheels
  <2>2. /\ Set' \in [type : 0 .. 2, speed : Speeds,
                     addr : Chosen.addr \cup {0}]
        /\ Set'.addr = IF wheel = "addr" THEN v ELSE Set.addr
    <3>1. Set' = [Set EXCEPT ![wheel] = v]
      BY <1>4 DEF Select
    <3> QED
      BY <2>1, <3>1, SetUpdate
  <2> QED
    BY <1>4, <2>1, <2>2 DEF Select
<1>5. CASE BTNConfirmClicked
  <2>1. Type_of_sensor' \in 0 .. 2
    BY <1>5 DEF BTNConfirmClicked
  <2>2. BTNWrite' \in BOOLEAN /\ (BTNWrite' => Set.addr # 0)
    BY <1>5 DEF BTNConfirmClicked, Allowed
  <2> QED
    BY <1>5, <2>1, <2>2 DEF BTNConfirmClicked
<1>6. CASE BTNCancelClicked
  <2>1. wheel \in Wheels /\ old \in SetRange(wheel)
    BY <1>6 DEF BTNCancelClicked
  <2>2. Set' \in [type : 0 .. 2, speed : Speeds, addr : Chosen.addr \cup {0}]
    BY <1>6, <2>1, SetUpdate DEF BTNCancelClicked
  <2>3. BTNWrite' \in BOOLEAN /\ (BTNWrite' => Set'.addr # 0)
    BY <1>6 DEF BTNCancelClicked
  <2> QED
    BY <1>6, <2>2, <2>3 DEF BTNCancelClicked
<1>7. CASE BTNWriteClicked
  <2>1. Set.addr \in Chosen.addr /\ Set.speed \in Speeds
    BY <1>7 DEF BTNWriteClicked
  <2>2. /\ WR_to_sensor' \in Known(Chosen.addr \cup {0}, Speeds)
        /\ WR_to_sensor'.addr # 0
    BY <1>7, <2>1 DEF BTNWriteClicked, Pair, Known
  <2> QED
    BY <1>7, <2>2 DEF BTNWriteClicked
<1> QED
  BY <1>1, <1>2, <1>3, <1>4, <1>5, <1>6, <1>7 DEF User

(* The types, and that what is written is what was chosen.                 *)
LEMMA TypeInvStep == TypeInv /\ [Next]_vars => TypeInv'
<1> SUFFICES ASSUME TypeInv, [Next]_vars PROVE TypeInv'
  OBVIOUS
<1>1. CASE UNCHANGED vars
  BY <1>1 DEF TypeInv, TypeOK, ChosenIsWritten, TaskTypeOK, vars, taskVars,
              local, bus, request, display, screenVars, view
<1> QED
  BY <1>1, TaskTypeInv, TickTypeInv, UserTypeInv DEF Next

(* Every value of the task, the Model and the screen has its type; the     *)
(* address that is written into a sensor is one the user can choose.       *)
THEOREM TypeCorrect == Spec => []TypeOK
<1>1. Spec => []TypeInv
  BY InitTypeInv, TypeInvStep, PTL DEF Spec
<1>2. TypeInv => TypeOK
  BY DEF TypeInv
<1> QED
  BY <1>1, <1>2, PTL

(* Only a successful write of the address leads to the write of the speed, *)
(* and a task that is there keeps the bus and the sensor as they are.      *)
LEMMA AgreeStep ==
  ASSUME TypeInv, AgreeBetweenWrites, [Next]_vars
  PROVE  AgreeBetweenWrites'
<1>. USE DEF AgreeBetweenWrites
<1>1. CASE UNCHANGED vars
  BY <1>1 DEF vars, taskVars, local, bus
<1>2. CASE TaskStep
  <2>1. CASE WriteAddress /\ pc' = "writeSpeed"
    <3>1. /\ Answered(Sens.addr, AddressReg, WR.addr)
          /\ Answer(AddressReg) = WR.addr
          /\ Sens' = [Sens EXCEPT !.addr = WR.addr]
          /\ UNCHANGED speed
      BY <2>1 DEF WriteAddress, AddressTaken
    <3>2. Sens \in Known(Addresses \cup {0}, Speeds)
          /\ sensor \in Known(Addresses, Speeds)
          /\ WR.addr \in Addresses
      BY <2>1, PairUpdate, ConstantFacts
        DEF TypeInv, TypeOK, TaskTypeOK, ChosenIsWritten, WriteAddress
    <3>3. Sens'.addr = WR.addr
      BY <3>1, <3>2, PairUpdate
    <3>4. sensor'.addr = WR.addr
      BY <3>1 DEF Answer, AddressReg
    <3>5. sensor'.baud = sensor.baud
      BY <3>1, <3>2, WriteResult DEF Answered, AddressReg, SpeedReg
    <3>6. speed = sensor.baud
      BY <3>1 DEF Answered, Hears
    <3> QED
      BY <3>1, <3>3, <3>4, <3>5, <3>6
  <2>2. CASE ~WriteAddress \/ pc' # "writeSpeed"
    <3>1. after \in {"switch", "while", "test"}
      BY DEF TypeInv, TypeOK, TaskTypeOK
    <3> QED
      BY <1>2, <2>2, <3>1
        DEF TaskStep, Task, SetAddressPR, SetBaudRatePR, SetFlagPR, Switch,
            CallSet, While, Scan, Test, ReadAddress, WriteSpeed
  <2> QED
    BY <2>1, <2>2
<1>3. CASE Tick
  BY <1>3 DEF Tick, Val_Addr_UpdateView, Val_BaudRate_UpdateView, taskVars,
              local, bus
<1>4. CASE User
  BY <1>4 DEF User, setupScreen, tearDownScreen, Killed, OpenWheel, Select,
              BTNConfirmClicked, BTNCancelClicked, BTNWriteClicked, taskVars,
              local, bus
<1> QED
  BY <1>1, <1>2, <1>3, <1>4 DEF Next

(* Between the two writes the task knows the sensor's address and works at *)
(* its speed, so the second write reaches the sensor the first one did.    *)
THEOREM AgreeAlways == Spec => []AgreeBetweenWrites
<1>1. Init => AgreeBetweenWrites
  BY DEF Init, TaskInit, AgreeBetweenWrites
<1>2. TypeInv /\ AgreeBetweenWrites /\ [Next]_vars => AgreeBetweenWrites'
  BY AgreeStep
<1> QED
  BY <1>1, <1>2, InitTypeInv, TypeInvStep, PTL DEF Spec

(* The step of a write that succeeds.                                      *)
LEMMA SuccessStep ==
  ASSUME TypeInv, AgreeBetweenWrites, [Next]_vars, WriteSucceeds
  PROVE  /\ Sens' = sensor'
         /\ sensor'.addr = WR.addr
         /\ sensor'.baud \in {sensor.baud, WR.baud}
<1>. USE DEF WriteSucceeds
<1>1. /\ Sens \in Known(Addresses \cup {0}, Speeds)
      /\ sensor \in Known(Addresses, Speeds)
      /\ WR.baud \in Speeds
      /\ i \in 0 .. RetryRange - 1
  BY PairUpdate DEF TypeInv, TypeOK, TaskTypeOK
<1>2. WriteSpeed
  <2>1. CASE UNCHANGED vars
    BY <2>1 DEF vars, taskVars, local
  <2>2. CASE TaskStep
    BY <2>2 DEF TaskStep, Task, SetAddressPR, SetBaudRatePR, SetFlagPR, Switch,
                While, Scan, Test, ReadAddress, WriteAddress
  <2>3. CASE Tick
    BY <2>3 DEF Tick, Val_Addr_UpdateView, Val_BaudRate_UpdateView, taskVars,
                local
  <2>4. CASE User
    BY <2>4 DEF User, setupScreen, tearDownScreen, Killed, OpenWheel, Select,
                BTNConfirmClicked, BTNCancelClicked, BTNWriteClicked, taskVars,
                local
  <2> QED
    BY <2>1, <2>2, <2>3, <2>4 DEF Next
<1>3. /\ Served(SpeedReg, WR.baud)
      /\ Sens' = [Sens EXCEPT !.baud = sensor'.baud]
  <2>1. NextRetry # i
    BY <1>1, RetryFacts DEF NextRetry
  <2> QED
    BY <1>2, <2>1
      DEF WriteSpeed, Answered, Answer, SpeedWrittenTo, SpeedReg, AddressReg
<1>4. /\ sensor' \in Known(Addresses, Speeds)
      /\ sensor'.addr = sensor.addr
      /\ sensor'.baud \in {sensor.baud, WR.baud}
  BY <1>1, <1>3, WriteResult DEF SpeedReg, AddressReg
<1>5. Sens.addr = sensor.addr /\ Sens.addr = WR.addr
  BY DEF AgreeBetweenWrites, TypeInv, ChosenIsWritten
<1>6. Sens' = sensor'
  <2>1. Sens' \in Known(Addresses \cup {0}, Speeds)
    BY <1>1, <1>3, <1>4, PairUpdate
  <2>2. Sens'.addr = sensor'.addr /\ Sens'.baud = sensor'.baud
    BY <1>1, <1>3, <1>4, <1>5, PairUpdate
  <2> QED
    BY <1>4, <2>1, <2>2, PairUpdate
<1> QED
  BY <1>4, <1>5, <1>6

(* After a write that succeeds the sensor has the address that was asked   *)
(* for, and the task knows the address and the speed the sensor now has.   *)
THEOREM SuccessAlways == Spec => SuccessIsKnown
<1>1. TypeInv /\ AgreeBetweenWrites /\ [Next]_vars
        => [WriteSucceeds => /\ Sens' = sensor'
                             /\ sensor'.addr = WR.addr
                             /\ sensor'.baud \in {sensor.baud, WR.baud}]_vars
  BY SuccessStep
<1>2. Spec => []TypeInv
  BY InitTypeInv, TypeInvStep, PTL DEF Spec
<1> QED
  BY <1>1, <1>2, AgreeAlways, PTL DEF Spec, SuccessIsKnown

DisplayInv == HalfwayIsKnown /\ DisplayIsCurrent

(* A pair that is set is a sensor or no sensor, and either part tells.     *)
LEMMA SensorOrNone ==
  ASSUME NEW p \in Known(Addresses, Speeds) \cup {NoSensor}
  PROVE  p.baud # SensNullValue <=> p # NoSensor
<1>1. CASE p \in Known(Addresses, Speeds)
  <2>1. p.baud # SensNullValue
    BY <1>1, PairUpdate, ConstantFacts DEF SensNullValue
  <2>2. NoSensor.baud = SensNullValue
    BY DEF NoSensor, Pair
  <2> QED
    BY <2>1, <2>2
<1>2. CASE p = NoSensor
  BY <1>2 DEF NoSensor, Pair
<1> QED
  BY <1>1, <1>2

(* Of the task, setCurrentVal_PR alone changes the Model, and it ends with *)
(* the flag raised.                                                        *)
LEMMA TaskDisplay ==
  ASSUME TypeInv, DisplayInv, TaskStep PROVE DisplayInv'
<1>. USE DEF DisplayInv, HalfwayIsKnown, DisplayIsCurrent, Setting, local, bus,
             request, display, screenVars, view
<1>0. UNCHANGED <<screen, shown, FlagWrite_visible>>
  BY DEF TaskStep
<1>1. /\ after \in {"switch", "while", "test"}
      /\ setting \in Known(Addresses, Speeds) \cup {NoSensor}
      /\ PR_sensor \in Known(Addresses \cup {0, SensNullValue},
                             Speeds \cup {SensNullValue})
  BY DEF TypeInv, TypeOK, TaskTypeOK
<1>2. CASE SetAddressPR
  <2>1. PR_sensor'.addr = setting.addr
    BY <1>1, <1>2 DEF SetAddressPR, Known
  <2> QED
    BY <1>0, <1>2, <2>1 DEF SetAddressPR
<1>3. CASE SetBaudRatePR
  <2>1. setting = [addr |-> setting.addr, baud |-> setting.baud]
    BY <1>1 DEF Known, NoSensor, Pair
  <2>2. PR_sensor' = [addr |-> PR_sensor.addr, baud |-> setting.baud]
    BY <1>1, <1>3 DEF SetBaudRatePR, Known
  <2>3. PR_sensor' = setting
    BY <1>3, <2>1, <2>2 DEF SetBaudRatePR
  <2> QED
    BY <1>0, <1>3, <2>3 DEF SetBaudRatePR
<1>4. CASE SetFlagPR
  BY <1>0, <1>1, <1>4 DEF SetFlagPR, Raised
<1>5. CASE Switch
  BY <1>0, <1>5 DEF Switch, CallSet
<1>6. CASE While
  BY <1>0, <1>6 DEF While
<1>7. CASE Scan
  BY <1>0, <1>7 DEF Scan, CallSet
<1>8. CASE Test
  BY <1>0, <1>8 DEF Test
<1>9. CASE ReadAddress
  BY <1>0, <1>9 DEF ReadAddress
<1>10. CASE WriteAddress
  BY <1>0, <1>10 DEF WriteAddress
<1>11. CASE WriteSpeed
  BY <1>0, <1>11 DEF WriteSpeed
<1> QED
  BY <1>2, <1>3, <1>4, <1>5, <1>6, <1>7, <1>8, <1>9, <1>10, <1>11
    DEF TaskStep, Task

(* A tick reads the address and the speed in two steps; if the Model       *)
(* changes in between, the flag is raised again.                           *)
LEMMA TickDisplay ==
  ASSUME TypeInv, DisplayInv, Tick PROVE DisplayInv'
<1>. USE DEF DisplayInv, HalfwayIsKnown, DisplayIsCurrent, Setting, taskVars,
             local, bus, request, display
<1>1. /\ shown \in Known(Addresses \cup {0, SensNullValue},
                         Speeds \cup {0, SensNullValue})
      /\ PR_sensor \in Known(Addresses \cup {0, SensNullValue},
                             Speeds \cup {SensNullValue})
      /\ screen # "closed" => pc # "off"
  BY DEF TypeInv, TypeOK, TaskTypeOK
<1>2. CASE Val_Addr_UpdateView
  <2>1. shown'.addr = PR_sensor.addr
    BY <1>1, <1>2 DEF Val_Addr_UpdateView, Known
  <2> QED
    BY <1>2, <2>1 DEF Val_Addr_UpdateView
<1>3. CASE Val_BaudRate_UpdateView
  <2>1. shown' = [addr |-> shown.addr, baud |-> PR_sensor.baud]
    BY <1>1, <1>3 DEF Val_BaudRate_UpdateView, Known
  <2>2. PR_sensor = [addr |-> PR_sensor.addr, baud |-> PR_sensor.baud]
    BY <1>1 DEF Known
  <2>3. FlagWrite_visible' = 1 <=> PR_sensor.baud # SensNullValue
    BY <1>3 DEF Val_BaudRate_UpdateView, ShowWrite
  <2>4. ASSUME FlagPR = 0, pc \notin Setting
        PROVE  /\ shown' = PR_sensor
               /\ FlagWrite_visible' = 1 <=> PR_sensor # NoSensor
    <3>1. shown.addr = PR_sensor.addr
      BY <1>3, <2>4 DEF Val_BaudRate_UpdateView
    <3>2. PR_sensor \in Known(Addresses, Speeds) \cup {NoSensor}
      BY <1>1, <1>3, <2>4 DEF Val_BaudRate_UpdateView
    <3> QED
      BY <2>1, <2>2, <2>3, <3>1, <3>2, SensorOrNone
  <2> QED
    BY <1>3, <2>4 DEF Val_BaudRate_UpdateView
<1> QED
  BY <1>2, <1>3 DEF Tick

(* What the user does changes neither the Model's pair nor what is shown;  *)
(* a new screen comes with a new task, that first sets the pair.           *)
LEMMA UserDisplay ==
  ASSUME TypeInv, DisplayInv, User PROVE DisplayInv'
<1>. USE DEF DisplayInv, HalfwayIsKnown, DisplayIsCurrent, Setting, taskVars,
             local, bus, request, display, view
<1>1. CASE setupScreen
  BY <1>1 DEF setupScreen
<1>2. CASE tearDownScreen
  BY <1>2 DEF tearDownScreen, Killed
<1>3. CASE \E w \in Wheels : OpenWheel(w)
  BY <1>3 DEF OpenWheel
<1>4. CASE \E v \in UNION {Chosen[w] : w \in Wheels} : Select(v)
  BY <1>4 DEF Select
<1>5. CASE BTNConfirmClicked
  BY <1>5 DEF BTNConfirmClicked
<1>6. CASE BTNCancelClicked
  BY <1>6 DEF BTNCancelClicked
<1>7. CASE BTNWriteClicked
  BY <1>7 DEF BTNWriteClicked
<1> QED
  BY <1>1, <1>2, <1>3, <1>4, <1>5, <1>6, <1>7 DEF User

(* Every step keeps the invariant about what the screen shows.             *)
LEMMA DisplayStep == TypeInv /\ DisplayInv /\ [Next]_vars => DisplayInv'
<1> SUFFICES ASSUME TypeInv, DisplayInv, [Next]_vars PROVE DisplayInv'
  OBVIOUS
<1>1. CASE UNCHANGED vars
  BY <1>1 DEF DisplayInv, HalfwayIsKnown, DisplayIsCurrent, vars, taskVars,
              local, display, screenVars, view
<1> QED
  BY <1>1, TaskDisplay, TickDisplay, UserDisplay DEF Next

(* No change of the Model is lost: outside setCurrentVal_PR, an open       *)
(* screen with no update pending shows what the Model has, and the button  *)
(* "write" can be shown exactly when that is a sensor.                     *)
THEOREM DisplayAlways == Spec => []DisplayIsCurrent
<1>1. Init => DisplayInv
  BY DEF Init, TaskInit, DisplayInv, HalfwayIsKnown, DisplayIsCurrent
<1>2. Spec => []DisplayInv
  BY <1>1, InitTypeInv, TypeInvStep, DisplayStep, PTL DEF Spec
<1>3. DisplayInv => DisplayIsCurrent
  BY DEF DisplayInv
<1> QED
  BY <1>2, <1>3, PTL
===============================================================================
