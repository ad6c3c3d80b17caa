----------------------------- MODULE MBtask_proofs -----------------------------
(***************************************************************************)
(* Proofs about MBtask, for any number of sensors.                         *)
(***************************************************************************)
EXTENDS MBtask, TLAPS

(* What kind of frame is in a set of frames, and whose.                    *)
LEMMA FrameTypes ==
  /\ \A s \in Sensors : \A n \in 1 .. 2 :
       /\ Frame("request", s, n) \in Requests
       /\ Frame("answer", s, n) \in Answers
  /\ \A f \in Requests :
       f.kind = "request" /\ f.sensor \in Sensors /\ f.num \in 1 .. 2
  /\ \A f \in Answers :
       f.kind = "answer" /\ f.sensor \in Sensors /\ f.num \in 1 .. 2
  /\ Garbage.kind = "garbage"
<1>1. \A s \in Sensors : \A n \in 1 .. 2 :
         /\ Frame("request", s, n) \in Requests
         /\ Frame("answer", s, n) \in Answers
  BY DEF Requests, Answers, Frame
<1>2. \A f \in Requests :
         f.kind = "request" /\ f.sensor \in Sensors /\ f.num \in 1 .. 2
  BY DEF Requests, Frame
<1>3. \A f \in Answers :
         f.kind = "answer" /\ f.sensor \in Sensors /\ f.num \in 1 .. 2
  BY DEF Answers, Frame
<1>4. Garbage.kind = "garbage"
  BY DEF Garbage, Frame
<1> QED
  BY <1>1, <1>2, <1>3, <1>4

(* Records with one or two fields changed keep their type.                 *)
LEMMA MasterUpdate ==
  ASSUME NEW r \in MasterType
  PROVE  /\ [[r EXCEPT !.pc = "fill"] EXCEPT !.tries = 3] \in MasterType
         /\ r.sensor + 1 \in 0 .. DFR_SENSOR_NUM =>
              [[r EXCEPT !.pc = "next"] EXCEPT !.sensor = @ + 1, !.tries = 0]
                \in MasterType
<1>1. \A q \in MasterType : /\ [q EXCEPT !.pc = "fill"] \in MasterType
                           /\ [q EXCEPT !.pc = "next"] \in MasterType
  BY DEF MasterType
<1>2. \A q \in MasterType : /\ [q EXCEPT !.tries = 3] \in MasterType
                           /\ [q EXCEPT !.tries = 0] \in MasterType
  BY DEF MasterType
<1>3. [[r EXCEPT !.pc = "fill"] EXCEPT !.tries = 3] \in MasterType
  <2>1. [r EXCEPT !.pc = "fill"] \in MasterType
    BY <1>1
  <2> QED
    BY <1>2, <2>1, Zenon
<1>4. ASSUME r.sensor + 1 \in 0 .. DFR_SENSOR_NUM
      PROVE  [[r EXCEPT !.pc = "next"] EXCEPT !.sensor = @ + 1, !.tries = 0]
               \in MasterType
  <2>1. [r EXCEPT !.pc = "next"].sensor = r.sensor
    BY DEF MasterType
  <2>2. [[r EXCEPT !.pc = "next"] EXCEPT !.sensor = r.sensor + 1] \in MasterType
    BY <1>1, <1>4 DEF MasterType
  <2> QED
    BY <1>2, <2>1, <2>2, Zenon
<1> QED
  BY <1>3, <1>4

(* So do the UARTs.                                                        *)
LEMMA UartUpdate ==
  ASSUME NEW f \in [Uarts -> UartType], NEW u \in Uarts,
         NEW tx \in {"ready", "busy"}, NEW rx \in {"ready", "armed"},
         NEW de \in BOOLEAN
  PROVE  /\ [f EXCEPT ![u].tx = tx, ![u].de = de] \in [Uarts -> UartType]
         /\ [f EXCEPT ![u].tx = tx, ![u].rx = rx] \in [Uarts -> UartType]
         /\ [f EXCEPT ![u].rx = rx, ![u].de = de] \in [Uarts -> UartType]
         /\ [f EXCEPT ![u].tx = tx] \in [Uarts -> UartType]
         /\ [f EXCEPT ![u].rx = rx] \in [Uarts -> UartType]
         /\ [f EXCEPT ![u].de = de] \in [Uarts -> UartType]
BY DEF UartType

(* The initial values have their types.                                    *)
LEMMA InitType == Init => TypeOK
<1> SUFFICES ASSUME Init PROVE TypeOK
  OBVIOUS
<1>1. 0 \in 0 .. DFR_SENSOR_NUM
  BY SensorsAssumption
<1> QED
  BY <1>1, FrameTypes DEF Init, TypeOK, MasterType, UartType, Uarts, Items,
                        Values

(* Whatever frame is in the master's buffer, its sender is a value.        *)
LEMMA FrameSensor == TypeOK => buffer.huart7.sensor \in Values
<1> SUFFICES ASSUME TypeOK PROVE buffer.huart7.sensor \in Values
  OBVIOUS
<1>1. Garbage.sensor \in Sensors
  BY SensorsAssumption DEF Garbage, Frame, Sensors
<1> QED
  BY <1>1, FrameTypes DEF TypeOK, Values

(* Each step of the master task keeps the types.                           *)
LEMMA MasterTaskType ==
  ASSUME TypeOK, MasterTask PROVE TypeOK'
<1>. USE DEF TypeOK, MasterType, UartType, Uarts, Items, Values, At, To
<1>1. CASE NextSensor
  <2> DEFINE i == master.sensor
  <2>1. CASE ~OneOfThem(i)
    BY <1>1, <2>1 DEF NextSensor
  <2>2. CASE OneOfThem(i) /\ (master.starting \/ active[i])
    <3>1. i \in Sensors
      BY <2>2, SensorsAssumption DEF OneOfThem, Sensors
    <3>2. master' = [At("fill") EXCEPT !.tries = 3]
      BY <1>1, <2>2 DEF NextSensor
    <3>3. master' \in MasterType
      BY <3>2, MasterUpdate
    <3>4. master'.sensor \in Sensors
      BY <3>1, <3>2
    <3> QED
      BY <1>1, <3>3, <3>4 DEF NextSensor
  <2>3. CASE OneOfThem(i) /\ ~(master.starting \/ active[i])
    <3>1. i + 1 \in 0 .. DFR_SENSOR_NUM
      BY <2>3, SensorsAssumption DEF OneOfThem
    <3>2. master' = [master EXCEPT !.sensor = i + 1]
      BY <1>1, <2>3 DEF NextSensor
    <3> QED
      BY <1>1, <3>1, <3>2 DEF NextSensor
  <2> QED
    BY <2>1, <2>2, <2>3
<1>2. CASE Delay
  <2>1. 0 \in 0 .. DFR_SENSOR_NUM
    BY SensorsAssumption
  <2> QED
    BY <1>2, <2>1 DEF Delay
<1>3. CASE Fill
  <2>1. master.sensor \in Sensors
    BY <1>3 DEF Fill
  <2>2. Frame("request", master.sensor, IF master.starting THEN 1 ELSE 2)
          \in Requests
    BY <2>1, FrameTypes
  <2>3. OneTryLess(master.tries) \in 0 .. 3
    BY <1>3 DEF Fill, OneTryLess
  <2> QED
    BY <1>3, <2>1, <2>2, <2>3 DEF Fill
<1>4. CASE Unreachable
  BY <1>4 DEF Unreachable
<1>5. CASE Transmit
  BY <1>5 DEF Transmit
<1>6. CASE WaitSent
  BY <1>6 DEF WaitSent
<1>7. CASE StartReceive
  BY <1>7 DEF StartReceive
<1>8. CASE TakeItem
  BY <1>8 DEF TakeItem
<1>9. CASE TimesOut
  BY <1>9 DEF TimesOut
<1>10. CASE Abort
  BY <1>10, ZenonT(60) DEF Abort, Abort7
<1>11. CASE Result
  <2>1. active' \in [Sensors -> BOOLEAN]
    <3>1. (master.pc = "passed") \in BOOLEAN
      OBVIOUS
    <3> QED
      BY <1>11, <3>1 DEF Result
  <2>2. master.sensor \in Sensors /\ master.sensor + 1 \in 0 .. DFR_SENSOR_NUM
    BY <1>11, SensorsAssumption DEF Result, Sensors
  <2>3. CASE master' = At("write0")
    BY <1>11, <2>1, <2>2, <2>3 DEF Result
  <2>4. CASE OnToTheNext
    <3>1. master' \in MasterType
      BY <2>2, <2>4, MasterUpdate DEF OnToTheNext
    <3>2. master'.pc = "next"
      BY <2>4 DEF OnToTheNext
    <3> QED
      BY <1>11, <2>1, <3>1, <3>2 DEF Result
  <2> QED
    BY <1>11, <2>3, <2>4 DEF Result
<1>12. CASE Write0
  <2>1. buffer.huart7.sensor \in Values
    BY FrameSensor
  <2> QED
    BY <1>12, <2>1 DEF Write0, Registers
<1>13. CASE Write1
  <2>1. buffer.huart7.sensor \in Values /\ Crc \in Values
    BY FrameSensor
  <2>2. master.sensor \in Sensors /\ master.sensor + 1 \in 0 .. DFR_SENSOR_NUM
    BY <1>13, SensorsAssumption DEF Write1, Sensors
  <2>3. regs' \in [Registers -> Values]
    BY <1>13, <2>1 DEF Write1
  <2>4. master' \in MasterType
    BY <1>13, <2>2, MasterUpdate DEF Write1, OnToTheNext
  <2>5. master'.pc = "next"
    BY <1>13 DEF Write1, OnToTheNext
  <2> QED
    BY <1>13, <2>3, <2>4, <2>5 DEF Write1
<1> QED
  BY <1>1, <1>2, <1>3, <1>4, <1>5, <1>6, <1>7, <1>8, <1>9, <1>10, <1>11,
     <1>12, <1>13 DEF MasterTask

(* So does each step of the slave task.                                    *)
LEMMA SlaveTaskType ==
  ASSUME TypeOK, SlaveTask PROVE TypeOK'
<1>. USE DEF TypeOK, UartType, Uarts, Items
<1>1. CASE ArmSlave
  BY <1>1 DEF ArmSlave
<1>2. CASE AbortOther
  BY <1>2, ZenonT(60) DEF AbortOther, Abort7
<1>3. CASE TakeRequest
  BY <1>3 DEF TakeRequest, AfterItem
<1>4. CASE Handle
  BY <1>4 DEF Handle
<1>5. CASE Send
  <2>1. "huart5" \in Uarts
    BY DEF Uarts
  <2>2. [uart EXCEPT !.huart5.de = TRUE] \in [Uarts -> UartType]
    BY <2>1, UartUpdate
  <2>3. [[uart EXCEPT !.huart5.de = TRUE] EXCEPT !.huart5.tx = "busy"]
          \in [Uarts -> UartType]
    BY <2>1, <2>2, UartUpdate
  <2>4. uart' \in [Uarts -> UartType]
    BY <1>5, <2>2, <2>3 DEF Send
  <2> QED
    BY <1>5, <2>4 DEF Send
<1>6. CASE Sent
  BY <1>6 DEF Sent
<1> QED
  BY <1>1, <1>2, <1>3, <1>4, <1>5, <1>6 DEF SlaveTask

(* An item put into a queue leaves it with one item.                       *)
LEMMA PutType ==
  ASSUME TypeOK, NEW u \in Uarts, NEW item \in Items, Put(u, item)
  PROVE  queue' \in [Uarts -> Items]
BY DEF TypeOK, Put

(* So does an error, whose frame spoils a buffer or not.                   *)
BufferType == [huart7 : Requests \cup Answers \cup {Garbage},
               huart5 : {"request", "other", "reply"}]

LEMMA ErrorType ==
  ASSUME TypeOK, NEW u \in Uarts, ErrorCallback(u)
  PROVE  queue' \in [Uarts -> Items] /\ buffer' \in BufferType
<1>1. queue' \in [Uarts -> Items]
  BY PutType DEF ErrorCallback, ErrorItem, Items
<1>2. buffer \in BufferType
  BY DEF TypeOK, BufferType
<1>3. Spoiled(buffer, u) \in BufferType
  BY <1>2 DEF Spoiled, BufferType
<1> QED
  BY <1>1, <1>2, <1>3 DEF ErrorCallback

LEMMA SlipType ==
  ASSUME TypeOK, NEW u \in Uarts, NEW more \in BOOLEAN
  PROVE  [slip EXCEPT ![u] = @ \/ more] \in [Uarts -> BOOLEAN]
<1>1. (slip[u] \/ more) \in BOOLEAN
  OBVIOUS
<1> QED
  BY <1>1 DEF TypeOK

(* So does each interrupt.                                                 *)
LEMMA InterruptType ==
  ASSUME TypeOK,
         \/ \E u \in Uarts : TxCplt(u)
         \/ \E a \in Answers : Answer(a)
         \/ \E kind \in {"request", "other"} : ShortFrame(kind)
         \/ LongFrame \/ RestOfFrame
         \/ \E u \in Uarts : LineError(u)
         \/ DmaError7 \/ DmaError5
  PROVE  TypeOK'
<1>. USE DEF TypeOK, UartType, Uarts
<1>1. ASSUME NEW u \in Uarts, TxCplt(u) PROVE TypeOK'
  <2>1. line' \in [sent : Requests \cup Answers \cup {Garbage},
                  due : SUBSET Answers, tail : BOOLEAN]
    <3>1. CASE line' = [line EXCEPT !.sent = IF u = "huart7" THEN Garbage
                                                             ELSE @]
      BY <3>1
    <3>2. CASE line.sent \in Requests /\ line' =
                 [line EXCEPT !.sent = Garbage, !.due = @ \cup
                    {Frame("answer", line.sent.sensor, line.sent.num)}]
      <4>1. Frame("answer", line.sent.sensor, line.sent.num) \in Answers
        BY <3>2, FrameTypes
      <4> QED
        BY <3>2, <4>1
    <3> QED
      BY <1>1, <3>1, <3>2 DEF TxCplt
  <2>2. uart' \in [Uarts -> UartType]
    BY <1>1, UartUpdate DEF TxCplt
  <2> QED
    BY <1>1, <2>1, <2>2 DEF TxCplt
<1>2. ASSUME NEW a \in Answers, Answer(a) PROVE TypeOK'
  <2>1. CASE AnswerHeard(a)
    <3>1. queue' \in [Uarts -> Items]
      BY <2>1, PutType DEF AnswerHeard, Items
    <3>2. buffer' \in [huart7 : Requests \cup Answers \cup {Garbage},
                      huart5 : {"request", "other", "reply"}]
      BY <2>1 DEF AnswerHeard
    <3>3. slip' \in [Uarts -> BOOLEAN]
      <4>1. (slip.huart7 \/ Untimely) \in BOOLEAN
        BY DEF Untimely
      <4> QED
        BY <2>1, <4>1 DEF AnswerHeard
    <3>4. uart' \in [Uarts -> UartType]
      BY <2>1 DEF AnswerHeard, Disarmed
    <3> QED
      BY <1>2, <3>1, <3>2, <3>3, <3>4 DEF Answer
  <2>2. CASE UNCHANGED <<uart, queue, buffer, slip>>
    BY <1>2, <2>2 DEF Answer
  <2> QED
    BY <1>2, <2>1, <2>2 DEF Answer
<1>3. ASSUME NEW kind \in {"request", "other"}, ShortFrame(kind)
      PROVE  TypeOK'
  <2>1. queue' \in [Uarts -> Items]
    BY <1>3, PutType DEF ShortFrame, Items
  <2> QED
    BY <1>3, <2>1 DEF ShortFrame, Disarmed
<1>4. CASE LongFrame
  <2>1. queue' \in [Uarts -> Items]
    BY <1>4, PutType DEF LongFrame, Items
  <2> QED
    BY <1>4, <2>1 DEF LongFrame
<1>5. CASE RestOfFrame
  <2>1. CASE Hears("huart5")
    <3>1. queue' \in [Uarts -> Items]
      BY <1>5, <2>1, PutType DEF RestOfFrame, Items
    <3>2. uart' = [uart EXCEPT !.huart5.rx = "ready"]
      BY <1>5, <2>1 DEF RestOfFrame, Disarmed
    <3>3. uart' \in [Uarts -> UartType]
      BY <3>2
    <3> QED
      BY <1>5, <2>1, <3>1, <3>3 DEF RestOfFrame
  <2>2. CASE ~Hears("huart5")
    BY <1>5, <2>2 DEF RestOfFrame
  <2> QED
    BY <2>1, <2>2
<1>6. ASSUME NEW u \in Uarts, LineError(u) PROVE TypeOK'
  <2>1. UNCHANGED <<master, slave, active, regs, line>>
    BY <1>6 DEF LineError, ErrorCallback
  <2>2. uart' \in [Uarts -> UartType]
    BY <1>6, UartUpdate DEF LineError, Disarmed
  <2>3. slip' \in [Uarts -> BOOLEAN]
    BY <1>6, SlipType DEF LineError
  <2> QED
    BY <1>6, <2>1, <2>2, <2>3, ErrorType DEF LineError, BufferType
<1>7. CASE DmaError7
  <2>1. UNCHANGED <<master, slave, active, regs>>
    BY <1>7 DEF DmaError7, ErrorCallback
  <2>2. uart' \in [Uarts -> UartType]
    BY <1>7, UartUpdate DEF DmaError7, Abort7
  <2>3. slip' \in [Uarts -> BOOLEAN]
    BY <1>7, SlipType DEF DmaError7
  <2>4. line' \in [sent : Requests \cup Answers \cup {Garbage},
                  due : SUBSET Answers, tail : BOOLEAN]
    BY <1>7 DEF DmaError7, Abort7
  <2>5. queue' \in [Uarts -> Items] /\ buffer' \in BufferType
    BY <1>7, ErrorType DEF DmaError7
  <2> QED
    BY <2>1, <2>2, <2>3, <2>4, <2>5 DEF BufferType
<1>8. CASE DmaError5
  <2>1. UNCHANGED <<master, slave, active, regs, line>>
    BY <1>8 DEF DmaError5, ErrorCallback
  <2>2. uart' \in [Uarts -> UartType]
    BY <1>8 DEF DmaError5
  <2>3. slip' \in [Uarts -> BOOLEAN]
    BY <1>8, SlipType DEF DmaError5
  <2>4. queue' \in [Uarts -> Items] /\ buffer' \in BufferType
    BY <1>8, ErrorType DEF DmaError5
  <2> QED
    BY <2>1, <2>2, <2>3, <2>4 DEF BufferType
<1> QED
  BY <1>1, <1>2, <1>3, <1>4, <1>5, <1>6, <1>7, <1>8

(* Type correctness, whatever is heard on either line.                     *)
THEOREM TypeCorrect == Spec => []TypeOK
<1>1. TypeOK /\ [Next]_vars => TypeOK'
  <2> SUFFICES ASSUME TypeOK, [Next]_vars PROVE TypeOK'
    OBVIOUS
  <2>1. CASE Next
    BY <2>1, MasterTaskType, SlaveTaskType, InterruptType DEF Next
  <2>2. CASE UNCHANGED vars
    BY <2>2 DEF vars, TypeOK
  <2> QED
    BY <2>1, <2>2
<1> QED
  BY InitType, <1>1, PTL DEF Spec

-----------------------------------------------------------------------------
(* The shape of the state that the following proofs need.                  *)
LEMMA Shape ==
  ASSUME TypeOK
  PROVE  /\ uart \in [Uarts -> UartType] /\ DOMAIN uart = Uarts
         /\ \A u \in Uarts : DOMAIN uart[u] = {"tx", "rx", "de"}
         /\ queue \in [Uarts -> Items] /\ slip \in [Uarts -> BOOLEAN]
BY DEF TypeOK, UartType

(* The receiver of the slave is armed, or there is an item, whenever the   *)
(* slave waits: an event that ends the reception leaves the item.          *)
LEMMA NeverDeafStep ==
  ASSUME TypeOK, SlaveNeverDeaf, [Next]_vars PROVE SlaveNeverDeaf'
<1>. USE Shape DEF SlaveNeverDeaf, Uarts, UartType, Items
<1>1. CASE MasterTask
  BY <1>1 DEF MasterTask, NextSensor, Delay, Fill, Unreachable, Transmit,
     WaitSent, StartReceive, TakeItem, TimesOut, Abort, Abort7, Result, Write0,
     Write1
<1>2. CASE SlaveTask
  BY <1>2 DEF SlaveTask, ArmSlave, AbortOther, Abort7, TakeRequest, AfterItem,
     Handle, Send, Sent
<1>3. ASSUME NEW u \in Uarts, TxCplt(u) PROVE SlaveNeverDeaf'
  BY <1>3 DEF TxCplt
<1>4. ASSUME NEW a \in Answers, Answer(a) PROVE SlaveNeverDeaf'
  BY <1>4 DEF Answer, AnswerHeard, Disarmed, Put
<1>5. ASSUME NEW kind \in {"request", "other"}, ShortFrame(kind)
      PROVE  SlaveNeverDeaf'
  BY <1>5 DEF ShortFrame, Disarmed, Put
<1>6. CASE LongFrame
  BY <1>6 DEF LongFrame, Put
<1>7. CASE RestOfFrame
  BY <1>7 DEF RestOfFrame, Disarmed, Put
<1>8. ASSUME NEW u \in Uarts, LineError(u) PROVE SlaveNeverDeaf'
  BY <1>8 DEF LineError, Disarmed, ErrorCallback, ErrorItem, Put
<1>9. CASE DmaError7
  BY <1>9 DEF DmaError7, Abort7, ErrorCallback, ErrorItem, Put
<1>10. CASE DmaError5
  BY <1>10 DEF DmaError5, ErrorCallback, ErrorItem, Put
<1>11. CASE UNCHANGED vars
  BY <1>11 DEF vars
<1> QED
  BY <1>1, <1>2, <1>3, <1>4, <1>5, <1>6, <1>7, <1>8, <1>9, <1>10, <1>11
     DEF Next

(* The slave task never waits for an item that cannot come any more.       *)
THEOREM SlaveIsNeverDeaf == Spec => []SlaveNeverDeaf
<1>1. Init => SlaveNeverDeaf
  BY DEF Init, SlaveNeverDeaf
<1> QED
  BY <1>1, NeverDeafStep, TypeCorrect, PTL DEF Spec

-----------------------------------------------------------------------------
(* The slave is in step until a frame fills half its buffer or an error    *)
(* meets its transmission: an item is only there while it waits, and the   *)
(* rest of a frame is only due when its first half was heard.              *)
SlaveInv ==
    /\ SlaveInStep
    /\ ~slip.huart5 /\ queue.huart5 # "empty" => slave = "wait"
    /\ line.tail => slip.huart5

(* No step of either task and no event breaks it.                          *)
LEMMA SlaveInvStep ==
  ASSUME TypeOK, SlaveInv, [Next]_vars PROVE SlaveInv'
<1>. USE Shape DEF SlaveInv, SlaveInStep, Uarts, UartType, Items
<1>1. CASE MasterTask
  BY <1>1, ZenonT(60) DEF TypeOK, MasterTask, NextSensor, Delay, Fill, Unreachable,
     Transmit, WaitSent, StartReceive, TakeItem, TimesOut, Abort, Abort7,
     Result, Write0, Write1
<1>2. CASE SlaveTask
  <2>. USE DEF TypeOK
  <2>1. CASE ArmSlave
    BY <2>1 DEF ArmSlave
  <2>2. CASE AbortOther
    BY <2>2 DEF AbortOther, Abort7
  <2>3. CASE TakeRequest
    BY <2>3 DEF TakeRequest, AfterItem
  <2>4. CASE Handle
    BY <2>4 DEF Handle
  <2>5. CASE Send
    <3>1. uart'["huart5"].rx = uart["huart5"].rx
      <4> DEFINE driven == [uart EXCEPT !.huart5.de = TRUE]
      <4>1. driven["huart5"].rx = uart["huart5"].rx
        OBVIOUS
      <4>2. [driven EXCEPT !.huart5.tx = "busy"]["huart5"].rx
              = driven["huart5"].rx
        OBVIOUS
      <4>3. \/ uart' = driven
            \/ uart' = [driven EXCEPT !.huart5.tx = "busy"]
        BY <2>5 DEF Send
      <4> HIDE DEF driven
      <4> QED
        BY <4>1, <4>2, <4>3
    <3>2. slave # "wait" /\ slave' # "wait"
      BY <2>5 DEF Send
    <3>3. UNCHANGED <<queue, line, slip>>
      BY <2>5 DEF Send
    <3> QED
      BY <3>1, <3>2, <3>3
  <2>6. CASE Sent
    BY <2>6 DEF Sent
  <2> QED
    BY <1>2, <2>1, <2>2, <2>3, <2>4, <2>5, <2>6 DEF SlaveTask
<1>3. ASSUME NEW u \in Uarts, TxCplt(u) PROVE SlaveInv'
  BY <1>3 DEF TypeOK, TxCplt
<1>4. ASSUME NEW a \in Answers, Answer(a) PROVE SlaveInv'
  BY <1>4 DEF TypeOK, Answer, AnswerHeard, Disarmed, Put
<1>5. ASSUME NEW kind \in {"request", "other"}, ShortFrame(kind)
      PROVE  SlaveInv'
  BY <1>5 DEF TypeOK, ShortFrame, Hears, Disarmed, Put
<1>6. CASE LongFrame
  BY <1>6 DEF TypeOK, LongFrame, Put
<1>7. CASE RestOfFrame
  BY <1>7 DEF TypeOK, RestOfFrame, Disarmed, Put
<1>8. ASSUME NEW u \in Uarts, LineError(u) PROVE SlaveInv'
  BY <1>8 DEF TypeOK, LineError, Hears, Disarmed, ErrorCallback, ErrorItem, Put
<1>9. CASE DmaError7
  BY <1>9 DEF TypeOK, DmaError7, Abort7, ErrorCallback, ErrorItem, Put
<1>10. CASE DmaError5
  BY <1>10 DEF TypeOK, DmaError5, ErrorCallback, ErrorItem, Put
<1>11. CASE UNCHANGED vars
  BY <1>11 DEF vars
<1> QED
  BY <1>1, <1>2, <1>3, <1>4, <1>5, <1>6, <1>7, <1>8, <1>9, <1>10, <1>11
     DEF Next

(* The slave is in step until one of the two happens.                      *)
LEMMA SlaveInvAlways == Spec => []SlaveInv
<1>1. Init => SlaveInv
  BY DEF Init, SlaveInv, SlaveInStep, Uarts
<1> QED
  BY <1>1, SlaveInvStep, TypeCorrect, PTL DEF Spec

-----------------------------------------------------------------------------
(* The master keeps step while the slave does, for the slave then leaves   *)
(* huart7 alone: what ends a reception is an answer, and its item is taken *)
(* by the wait it came in; or the wait is over, and the abort ends it.     *)
LEMMA MasterInStepStep ==
  ASSUME TypeOK, SlaveInv, MasterInStep, [Next]_vars PROVE MasterInStep'
<1>. USE Shape DEF MasterInStep, InStep, Uarts, UartType, Items
<1>1. CASE MasterTask
  <2>. USE DEF TypeOK, MasterType, At, To
  <2>1. CASE NextSensor
    BY <2>1 DEF NextSensor
  <2>2. CASE Delay
    BY <2>2 DEF Delay
  <2>3. CASE Fill
    BY <2>3 DEF Fill
  <2>4. CASE Unreachable
    BY <2>4 DEF Unreachable
  <2>5. CASE Transmit
    BY <2>5 DEF Transmit
  <2>6. CASE WaitSent
    BY <2>6 DEF WaitSent
  <2>7. CASE StartReceive
    BY <2>7 DEF StartReceive
  <2>8. CASE TakeItem
    BY <2>8 DEF TakeItem
  <2>9. CASE TimesOut
    BY <2>9 DEF TimesOut
  <2>10. CASE Abort
    BY <2>10 DEF Abort, Abort7
  <2>11. CASE Result
    BY <2>11 DEF Result, OnToTheNext
  <2>12. CASE Write0
    BY <2>12 DEF Write0
  <2>13. CASE Write1
    BY <2>13 DEF Write1, OnToTheNext
  <2> QED
    BY <1>1, <2>1, <2>2, <2>3, <2>4, <2>5, <2>6, <2>7, <2>8, <2>9, <2>10,
       <2>11, <2>12, <2>13 DEF MasterTask
<1>2. CASE SlaveTask
  BY <1>2 DEF SlaveInv, SlaveInStep, SlaveTask, ArmSlave, AbortOther, Abort7,
     TakeRequest, AfterItem, Handle, Send, Sent
<1>3. ASSUME NEW u \in Uarts, TxCplt(u) PROVE MasterInStep'
  BY <1>3 DEF TxCplt
<1>4. ASSUME NEW a \in Answers, Answer(a) PROVE MasterInStep'
  <2>1. CASE AnswerHeard(a)
    <3>1. UNCHANGED master /\ uart.huart7.rx = "armed"
      BY <1>4, <2>1 DEF Answer, AnswerHeard, Hears
    <3>2. uart'.huart7.rx = "ready" /\ uart'.huart7.tx = uart.huart7.tx
      BY <2>1 DEF AnswerHeard, Disarmed
    <3>3. queue'.huart7 = IF queue.huart7 = "empty" THEN "MB_ERROR_NO"
                                                   ELSE queue.huart7
      BY <2>1 DEF AnswerHeard, Put
    <3>4. /\ slip'.huart5 = slip.huart5
          /\ slip'.huart7 = (slip.huart7 \/ master.pc # "answer")
      BY <2>1, <3>1 DEF AnswerHeard, Untimely
    <3> QED
      BY <3>1, <3>2, <3>3, <3>4
  <2>2. CASE UNCHANGED <<uart, queue, buffer, slip>>
    BY <1>4, <2>2 DEF Answer
  <2> QED
    BY <1>4, <2>1, <2>2 DEF Answer
<1>5. ASSUME NEW kind \in {"request", "other"}, ShortFrame(kind)
      PROVE  MasterInStep'
  BY <1>5 DEF ShortFrame, Disarmed, Put
<1>6. CASE LongFrame
  BY <1>6 DEF LongFrame, Put
<1>7. CASE RestOfFrame
  BY <1>7 DEF RestOfFrame, Disarmed, Put
<1>8. ASSUME NEW u \in Uarts, LineError(u) PROVE MasterInStep'
  BY <1>8 DEF LineError, Hears, Disarmed, ErrorCallback, ErrorItem, Put,
     Untimely
<1>9. CASE DmaError7
  BY <1>9 DEF DmaError7, Abort7, ErrorCallback, ErrorItem, Put, Untimely
<1>10. CASE DmaError5
  BY <1>10 DEF DmaError5, ErrorCallback, ErrorItem, Put
<1>11. CASE UNCHANGED vars
  BY <1>11 DEF vars
<1> QED
  BY <1>1, <1>2, <1>3, <1>4, <1>5, <1>6, <1>7, <1>8, <1>9, <1>10, <1>11
     DEF Next

(* Until a long frame is heard, an error meets the transmission of a reply *)
(* or a reception on huart7 ends out of its time, each task has its        *)
(* receiver armed only while it waits and takes no item of an older wait.  *)
THEOREM BothStayInStep == Spec => []TasksInStep
<1>1. Init => MasterInStep
  BY DEF Init, MasterInStep, Uarts
<1>2. SlaveInv /\ MasterInStep => TasksInStep
  BY DEF SlaveInv, TasksInStep
<1> QED
  BY <1>1, <1>2, MasterInStepStep, SlaveInvAlways, TypeCorrect, PTL DEF Spec

-----------------------------------------------------------------------------
(* In step and when it polls, the master has to do with answers for two    *)
(* registers only: those for one, of the start-up, are gone after its      *)
(* first delay.                                                            *)
Polling == ~master.starting /\ master.pc # "delay"
Whole(f) == f.kind \in {"request", "answer"} => f.num = 2
Writing == master.pc \in {"write0", "write1"}

AnswersAreWhole ==
    /\ line.sent # Garbage => master.pc = "sent" /\ uart.huart7.tx = "busy"
    /\ Polling => (\A a \in line.due : Whole(a)) /\ Whole(line.sent)
    /\ /\ Polling
       /\ master.pc \notin {"next", "fill", "abort", "failed"}
       => Whole(buffer.huart7)
    /\ Writing => Valid(buffer.huart7) /\ Polling

WholeInv == InStep => AnswersAreWhole

(* What the master has to do with stays whole.                             *)
LEMMA WholeStep ==
  ASSUME TypeOK, SlaveInv, MasterInStep, WholeInv, [Next]_vars
  PROVE  WholeInv'
<1>. SUFFICES ASSUME InStep' PROVE AnswersAreWhole'
  BY DEF WholeInv
<1>1. InStep
  BY DEF InStep, Next, MasterTask, NextSensor, Delay, Fill, Unreachable,
     Transmit, WaitSent, StartReceive, TakeItem, TimesOut, Abort, Result,
     Write0, Write1, SlaveTask, ArmSlave, AbortOther, TakeRequest, Handle,
     Send, Sent, TxCplt, Answer, AnswerHeard, ShortFrame, LongFrame,
     RestOfFrame, LineError, DmaError7, DmaError5, vars, TypeOK, Uarts
<1>2. AnswersAreWhole
  BY <1>1 DEF WholeInv
<1>3. Whole(Garbage)
  BY FrameTypes DEF Whole
<1>. USE Shape, <1>1, <1>2, <1>3 DEF AnswersAreWhole, Polling, Writing, Uarts,
     UartType
<1>4. CASE MasterTask
  <2>. USE DEF TypeOK, MasterType, At, To
  <2>1. CASE NextSensor
    BY <2>1 DEF NextSensor
  <2>2. CASE Delay
    BY <2>2 DEF Delay
  <2>3. CASE Fill
    BY <2>3 DEF Fill, Whole, Frame
  <2>4. CASE Unreachable
    BY <2>4 DEF Unreachable
  <2>5. CASE Transmit
    BY <2>5 DEF Transmit
  <2>6. CASE WaitSent
    BY <2>6 DEF WaitSent, MasterInStep
  <2>7. CASE StartReceive
    BY <2>7 DEF StartReceive
  <2>8. CASE TakeItem
    BY <2>8 DEF TakeItem
  <2>9. CASE TimesOut
    BY <2>9 DEF TimesOut
  <2>10. CASE Abort
    BY <2>10 DEF Abort, Abort7
  <2>11. CASE Result
    BY <2>11, ZenonT(60) DEF Result, OnToTheNext, Valid
  <2>12. CASE Write0
    BY <2>12 DEF Write0, Valid
  <2>13. CASE Write1
    BY <2>13 DEF Write1, OnToTheNext
  <2> QED
    BY <1>4, <2>1, <2>2, <2>3, <2>4, <2>5, <2>6, <2>7, <2>8, <2>9, <2>10,
       <2>11, <2>12, <2>13 DEF MasterTask
<1>5. CASE SlaveTask
  <2>. USE DEF TypeOK
  <2>1. CASE ArmSlave
    BY <2>1 DEF ArmSlave, Valid
  <2>2. CASE AbortOther
    BY <2>2 DEF AbortOther, SlaveInv, SlaveInStep, InStep
  <2>3. CASE TakeRequest
    BY <2>3 DEF TakeRequest, Valid
  <2>4. CASE Handle
    BY <2>4 DEF Handle, Valid
  <2>5. CASE Send
    BY <2>5 DEF Send, Valid
  <2>6. CASE Sent
    BY <2>6 DEF Sent, Valid
  <2> QED
    BY <1>5, <2>1, <2>2, <2>3, <2>4, <2>5, <2>6 DEF SlaveTask
<1>6. ASSUME NEW u \in Uarts, TxCplt(u) PROVE AnswersAreWhole'
  <2>1. CASE u = "huart5"
    BY <1>6, <2>1 DEF TxCplt, TypeOK, Valid
  <2>2. CASE u = "huart7"
    <3>1. Polling /\ line.sent \in Requests => line.sent.num = 2
      BY FrameTypes DEF Whole
    <3>2. line.sent \in Requests =>
            Frame("answer", line.sent.sensor, line.sent.num).num
              = line.sent.num
      BY DEF Frame
    <3>3. line'.sent = Garbage
      BY <1>6, <2>2 DEF TxCplt, TypeOK
    <3>4. Polling => \A a \in line'.due : Whole(a)
      <4>1. CASE line'.due = line.due
        BY <1>6, <2>2, <4>1 DEF TxCplt
      <4>2. CASE /\ line.sent \in Requests
                 /\ line'.due = line.due \cup
                      {Frame("answer", line.sent.sensor, line.sent.num)}
        BY <3>1, <3>2, <4>2 DEF Whole
      <4>3. line'.due = line.due \/
              /\ line.sent \in Requests
              /\ line'.due = line.due \cup
                   {Frame("answer", line.sent.sensor, line.sent.num)}
        BY <1>6, <2>2 DEF TxCplt, TypeOK
      <4> QED
        BY <4>1, <4>2, <4>3
    <3> QED
      BY <1>6, <2>2, <3>3, <3>4 DEF TxCplt, Valid
  <2> QED
    BY <2>1, <2>2
<1>7. ASSUME NEW a \in Answers, Answer(a) PROVE AnswersAreWhole'
  <2>1. CASE AnswerHeard(a)
    <3>1. master.pc = "answer"
      BY <2>1 DEF AnswerHeard, Hears, Untimely, InStep, TypeOK
    <3>2. Polling => Whole(buffer'.huart7)
      BY <1>7, <2>1 DEF Answer, AnswerHeard, TypeOK
    <3> QED
      BY <1>7, <2>1, <3>1, <3>2 DEF Answer, TypeOK, AnswerHeard, Disarmed
  <2>2. CASE UNCHANGED <<uart, queue, buffer, slip>>
    BY <1>7, <2>2 DEF Answer, TypeOK, Valid
  <2> QED
    BY <1>7, <2>1, <2>2 DEF Answer
<1>8. ASSUME NEW kind \in {"request", "other"}, ShortFrame(kind)
      PROVE  AnswersAreWhole'
  BY <1>8 DEF ShortFrame, Disarmed, Put, TypeOK, Valid
<1>9. CASE LongFrame
  BY <1>9 DEF LongFrame, InStep, TypeOK
<1>10. CASE RestOfFrame
  BY <1>10 DEF RestOfFrame, SlaveInv, InStep, TypeOK
<1>11. ASSUME NEW u \in Uarts, ErrorCallback(u), u = "huart7" => ~Writing,
             line' = line \/ line' = [line EXCEPT !.sent = Garbage],
             line'.sent # Garbage => UNCHANGED uart.huart7.tx
      PROVE  AnswersAreWhole'
  <2>1. UNCHANGED <<master, regs>>
    BY <1>11 DEF ErrorCallback
  <2>2. buffer'.huart7 \in {buffer.huart7, Garbage}
    BY <1>11 DEF ErrorCallback, Spoiled, TypeOK
  <2>3. u # "huart7" => UNCHANGED buffer.huart7
    BY <1>11 DEF ErrorCallback, Spoiled, TypeOK
  <2>4. line'.due = line.due /\ line'.sent \in {line.sent, Garbage}
    BY <1>11 DEF TypeOK
  <2> QED
    BY <1>11, <2>1, <2>2, <2>3, <2>4 DEF Valid
<1>12. ASSUME NEW u \in Uarts, LineError(u) PROVE AnswersAreWhole'
  <2>1. u = "huart7" => ~Writing
    BY <1>12 DEF LineError, Hears, MasterInStep
  <2>2. UNCHANGED uart.huart7.tx
    BY <1>12 DEF LineError, Disarmed
  <2> QED
    BY <1>11, <1>12, <2>1, <2>2 DEF LineError
<1>13. CASE DmaError7
  <2>1. ~Writing
    BY <1>13 DEF DmaError7, MasterInStep
  <2>2. line' = [line EXCEPT !.sent = Garbage] /\ line'.sent = Garbage
    BY <1>13 DEF DmaError7, Abort7, TypeOK
  <2> QED
    BY <1>11, <1>13, <2>1, <2>2 DEF DmaError7
<1>14. CASE DmaError5
  <2>1. UNCHANGED uart.huart7.tx
    BY <1>14 DEF DmaError5
  <2> QED
    BY <1>11, <1>14, <2>1 DEF DmaError5
<1>15. CASE UNCHANGED vars
  BY <1>15 DEF vars, Valid
<1> QED
  BY <1>4, <1>5, <1>6, <1>7, <1>8, <1>9, <1>10, <1>12, <1>13, <1>14, <1>15
     DEF Next

(* In step, a register is given only a value of the sensor that was asked, *)
(* from a whole answer: the CRC of a short one never gets into it.         *)
THEOREM WritesAreOfTheAskedSensor == Spec => ValuesAreTheAskedSensors
<1> DEFINE A == InStep' => \A i \in Registers :
                  regs'[i] # regs[i] => regs'[i] = master.sensor
<1>1. Init => MasterInStep /\ WholeInv
  <2>1. ASSUME Init PROVE MasterInStep /\ Whole(Garbage)
    BY <2>1, FrameTypes DEF Init, MasterInStep, Uarts, Whole
  <2> QED
    BY <2>1 DEF Init, WholeInv, AnswersAreWhole, Polling, Writing
<1>2. ASSUME TypeOK, SlaveInv, MasterInStep, WholeInv, [Next]_vars
      PROVE  [A]_vars
  <2> SUFFICES ASSUME InStep', NEW i \in Registers, regs'[i] # regs[i]
               PROVE  regs'[i] = master.sensor
    BY DEF A
  <2>1. Write0 \/ Write1
    BY <1>2 DEF Next, MasterTask, NextSensor, Delay, Fill, Unreachable,
       Transmit, WaitSent, StartReceive, TakeItem, TimesOut, Abort, Result,
       SlaveTask, ArmSlave, AbortOther, TakeRequest, Handle, Send, Sent,
       TxCplt, Answer, ShortFrame, LongFrame, RestOfFrame, LineError,
       DmaError7, DmaError5, ErrorCallback, vars
  <2>2. InStep
    BY <2>1 DEF InStep, Write0, Write1
  <2>3. Valid(buffer.huart7) /\ Whole(buffer.huart7)
    BY <1>2, <2>1, <2>2 DEF WholeInv, AnswersAreWhole, Writing, Write0, Write1
  <2>4. buffer.huart7.sensor = master.sensor /\ buffer.huart7.num = 2
    BY <2>3 DEF Valid, Whole
  <2>5. regs \in [Registers -> Values]
    BY <1>2 DEF TypeOK
  <2> QED
    BY <2>1, <2>4, <2>5 DEF Write0, Write1, Registers
<1>3. [](TypeOK /\ SlaveInv) /\ [][Next]_vars /\ MasterInStep /\ WholeInv
        => [](MasterInStep /\ WholeInv)
  BY MasterInStepStep, WholeStep, PTL
<1> QED
  BY <1>1, <1>2, <1>3, TypeCorrect, SlaveInvAlways, PTL
     DEF Spec, ValuesAreTheAskedSensors
=============================================================================
