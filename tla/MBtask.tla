-------------------------------- MODULE MBtask --------------------------------
(***************************************************************************)
(* The first firmware (MBtask.c).  Its master task polls the sensors on    *)
(* huart7, its slave task answers a Modbus master on huart5; interrupts    *)
(* of both UARTs put an item into a queue of length one for either task.   *)
(*                                                                         *)
(* Both lines are half duplex: who drives the line hears nothing.  A frame *)
(* is who it is from and what it is; CRC and layout are in ModbusFrames.   *)
(* MB_TransactionHandler tests an undeclared len, taken here for           *)
(* slave_rec_byte_count, which nothing else reads.                         *)
(***************************************************************************)
EXTENDS Naturals

CONSTANTS
    DFR_SENSOR_NUM,
    None,   \* the content of a register at the start
    Crc     \* the CRC of an answer, taken for a value

ASSUME SensorsAssumption ==
    /\ DFR_SENSOR_NUM \in Nat \ {0}
    /\ {None, Crc} \cap (0 .. DFR_SENSOR_NUM - 1) = {}

VARIABLES
    uart,    \* per UART: its transmitter and receiver, the driver of its line
    queue,   \* MB_MasterQ and MB_SlaveQ: empty or the one item
    buffer,  \* MB_Master_Buffer and MB_Slave_Buffer: the frame in it
    master,  \* Start_MB_Master_Task and the MB_Master_Request it is in
    slave,   \* Start_MB_Slave_Task
    active,  \* Active of each sensor
    regs,    \* the two registers the master task writes: whose values
    line,    \* what is under way on the lines
    slip     \* has an item been put out of step: for a frame that fills half
             \* the buffer of huart5, for an error while huart5 transmits,
             \* for a reception on huart7 when none was waited for?

vars == <<uart, queue, buffer, master, slave, active, regs, line, slip>>

Sensors == 0 .. DFR_SENSOR_NUM - 1
Uarts == {"huart5", "huart7"}
Registers == 0 .. 1

(* Requests and answers for one register, at start-up, and for two.        *)
Frame(kind, sensor, num) == [kind |-> kind, sensor |-> sensor, num |-> num]
Requests == {Frame("request", s, n) : s \in Sensors, n \in 1 .. 2}
Answers == {Frame("answer", s, n) : s \in Sensors, n \in 1 .. 2}
Garbage == Frame("garbage", 0, 0)

Init ==
    /\ uart = [u \in Uarts |-> [tx |-> "ready", rx |-> "ready", de |-> FALSE]]
    /\ queue = [u \in Uarts |-> "empty"]
    /\ buffer = [huart7 |-> Garbage, huart5 |-> "other"]
    /\ master = [pc |-> "next", sensor |-> 0, tries |-> 0, starting |-> TRUE]
    /\ slave = "arm"
    /\ active = [s \in Sensors |-> FALSE]
    /\ regs = [r \in Registers |-> None]
    /\ line = [sent |-> Garbage, due |-> {}, tail |-> FALSE]
    /\ slip = [u \in Uarts |-> FALSE]

(* xQueueSendFromISR to a queue that is full loses the item.               *)
Put(u, item) ==
    queue' = [queue EXCEPT ![u] = IF @ = "empty" THEN item ELSE @]

-----------------------------------------------------------------------------
(* The master task: the sensors in turn, at start-up all of them, then     *)
(* those that are active.                                                  *)
At(pc) == [master EXCEPT !.pc = pc]
To(pc) == master' = At(pc)

(* Mutant of OneOfThem: the loop runs past the last sensor.                *)
OneTooMany(i) == i <= DFR_SENSOR_NUM

OneOfThem(i) == i < DFR_SENSOR_NUM

NextSensor ==
    /\ master.pc = "next"
    /\ LET i == master.sensor
       IN master' = IF ~OneOfThem(i)
                    THEN [At("delay") EXCEPT !.starting = FALSE]
                    ELSE IF master.starting \/ active[i]
                    THEN [At("fill") EXCEPT !.tries = 3]
                    ELSE [master EXCEPT !.sensor = @ + 1]
    /\ UNCHANGED <<uart, queue, buffer, slave, active, regs, line, slip>>

(* osDelay(1000): no answer of a sensor takes that long.                   *)
Delay ==
    /\ master.pc = "delay"
    /\ master' = [At("next") EXCEPT !.sensor = 0]
    /\ line' = [line EXCEPT !.due = {}]
    /\ UNCHANGED <<uart, queue, buffer, slave, active, regs, slip>>

(* Mutant of OneTryLess: a try is not counted.                             *)
SameTry(n) == n

(* MB_Master_Request, a try.                                               *)
OneTryLess(n) == n - 1

Fill ==
    /\ master.pc = "fill"
    /\ master.tries > 0
    /\ master' = [At("transmit") EXCEPT !.tries = OneTryLess(@)]
    /\ buffer' = [buffer EXCEPT !.huart7 =
         Frame("request", master.sensor, IF master.starting THEN 1 ELSE 2)]
    /\ uart' = [uart EXCEPT !.huart7.de = TRUE]
    /\ UNCHANGED <<queue, slave, active, regs, line, slip>>

Unreachable ==
    /\ master.pc = "fill"
    /\ master.tries = 0
    /\ To("failed")
    /\ UNCHANGED <<uart, queue, buffer, slave, active, regs, line, slip>>

Transmit ==
    /\ master.pc = "transmit"
    /\ IF uart.huart7.tx = "ready"
       THEN /\ uart' = [uart EXCEPT !.huart7.tx = "busy"]
            /\ line' = [line EXCEPT !.sent = buffer.huart7]
            /\ To("sent")
       ELSE To("abort") /\ UNCHANGED <<uart, line>>
    /\ UNCHANGED <<queue, buffer, slave, active, regs, slip>>

(* HAL_UART_GetState is BUSY_TX only while the receiver is not busy too.   *)
WaitSent ==
    /\ master.pc = "sent"
    /\ ~(uart.huart7.tx = "busy" /\ uart.huart7.rx = "ready")
    /\ To("receive")
    /\ UNCHANGED <<uart, queue, buffer, slave, active, regs, line, slip>>

StartReceive ==
    /\ master.pc = "receive"
    /\ IF uart.huart7.rx = "ready"
       THEN uart' = [uart EXCEPT !.huart7.rx = "armed"] /\ To("answer")
       ELSE To("abort") /\ UNCHANGED uart
    /\ UNCHANGED <<queue, buffer, slave, active, regs, line, slip>>

TakeItem ==
    /\ master.pc = "answer"
    /\ queue.huart7 # "empty"
    /\ queue' = [queue EXCEPT !.huart7 = "empty"]
    /\ To(IF queue.huart7 = "MB_ERROR_NO" THEN "passed" ELSE "abort")
    /\ UNCHANGED <<uart, buffer, slave, active, regs, line, slip>>

TimesOut ==
    /\ master.pc = "answer"
    /\ queue.huart7 = "empty"
    /\ To("abort")
    /\ UNCHANGED <<uart, queue, buffer, slave, active, regs, line, slip>>

(* HAL_UART_Abort_IT ends both directions and leaves the driver as it is.  *)
Abort7 ==
    /\ uart' = [uart EXCEPT !.huart7.tx = "ready", !.huart7.rx = "ready"]
    /\ line' = [line EXCEPT !.sent = Garbage]

Abort ==
    /\ master.pc = "abort"
    /\ Abort7
    /\ To("fill")
    /\ UNCHANGED <<queue, buffer, slave, active, regs, slip>>

(* The caller: at start-up the outcome is whether the sensor is active;    *)
(* later the frame in the buffer is checked and written value by value.    *)
OnToTheNext == master' = [At("next") EXCEPT !.sensor = @ + 1, !.tries = 0]

(* Mutant of Valid: the address of the answer is not checked.              *)
AnyAddress(f) == f.kind = "answer"

Valid(f) == f.kind = "answer" /\ f.sensor = master.sensor

Result ==
    /\ master.pc \in {"passed", "failed"}
    /\ IF master.starting
       THEN active' = [active EXCEPT ![master.sensor] = master.pc = "passed"]
       ELSE UNCHANGED active
    /\ IF ~master.starting /\ master.pc = "passed" /\ Valid(buffer.huart7)
       THEN To("write0") ELSE OnToTheNext
    /\ UNCHANGED <<uart, queue, buffer, slave, regs, line, slip>>

Write0 ==
    /\ master.pc = "write0"
    /\ regs' = [regs EXCEPT ![0] = buffer.huart7.sensor]
    /\ To("write1")
    /\ UNCHANGED <<uart, queue, buffer, slave, active, line, slip>>

Write1 ==
    /\ master.pc = "write1"
    /\ regs' = [regs EXCEPT ![1] = IF buffer.huart7.num = 2
                                   THEN buffer.huart7.sensor ELSE Crc]
    /\ OnToTheNext
    /\ UNCHANGED <<uart, queue, buffer, slave, active, line, slip>>

MasterTask ==
    \/ NextSensor \/ Delay \/ Fill \/ Unreachable \/ Transmit \/ WaitSent
    \/ StartReceive \/ TakeItem \/ TimesOut \/ Abort \/ Result \/ Write0
    \/ Write1

-----------------------------------------------------------------------------
(* The slave task.  When its receiver is armed already it aborts huart7.   *)
ArmSlave ==
    /\ slave = "arm"
    /\ uart.huart5.rx = "ready"
    /\ uart' = [uart EXCEPT !.huart5.rx = "armed"]
    /\ slave' = "wait"
    /\ UNCHANGED <<queue, buffer, master, active, regs, line, slip>>

AbortOther ==
    /\ slave = "arm"
    /\ uart.huart5.rx = "armed"
    /\ Abort7
    /\ UNCHANGED <<queue, buffer, master, slave, active, regs, slip>>

(* Mutant of AfterItem: after an error the receiver is not armed again.    *)
WaitAgain(item) == IF item = "MB_ERROR_NO" THEN "handle" ELSE "wait"

AfterItem(item) == IF item = "MB_ERROR_NO" THEN "handle" ELSE "arm"

TakeRequest ==
    /\ slave = "wait"
    /\ queue.huart5 # "empty"
    /\ queue' = [queue EXCEPT !.huart5 = "empty"]
    /\ slave' = AfterItem(queue.huart5)
    /\ UNCHANGED <<uart, buffer, master, active, regs, line, slip>>

(* MB_TransactionHandler replaces a valid request by its reply.            *)
Handle ==
    /\ slave = "handle"
    /\ IF buffer.huart5 = "request"
       THEN buffer' = [buffer EXCEPT !.huart5 = "reply"] /\ slave' = "send"
       ELSE slave' = "arm" /\ UNCHANGED buffer
    /\ UNCHANGED <<uart, queue, master, active, regs, line, slip>>

Send ==
    /\ slave = "send"
    /\ LET driven == [uart EXCEPT !.huart5.de = TRUE]
       IN IF uart.huart5.tx = "ready"
          THEN /\ uart' = [driven EXCEPT !.huart5.tx = "busy"]
               /\ slave' = "sending"
          ELSE uart' = driven /\ slave' = "arm"
    /\ UNCHANGED <<queue, buffer, master, active, regs, line, slip>>

Sent ==
    /\ slave = "sending"
    /\ uart.huart5.tx = "ready" /\ uart.huart5.rx = "ready"
    /\ slave' = "arm"
    /\ UNCHANGED <<uart, queue, buffer, master, active, regs, line, slip>>

SlaveTask ==
    \/ ArmSlave \/ AbortOther \/ TakeRequest \/ Handle \/ Send \/ Sent

-----------------------------------------------------------------------------
(* Interrupts and what is on the lines.  A transmission is complete: the   *)
(* driver is turned off, and a sensor that was asked may answer.           *)
TxCplt(u) ==
    /\ uart[u].tx = "busy"
    /\ uart' = [uart EXCEPT ![u].tx = "ready", ![u].de = FALSE]
    /\ \/ line' = [line EXCEPT !.sent = IF u = "huart7" THEN Garbage ELSE @]
       \/ /\ u = "huart7"
          /\ line.sent \in Requests
          /\ line' = [line EXCEPT !.sent = Garbage, !.due = @ \cup
               {Frame("answer", line.sent.sensor, line.sent.num)}]
    /\ UNCHANGED <<queue, buffer, master, slave, active, regs, slip>>

Hears(u) == uart[u].rx = "armed" /\ ~uart[u].de
Disarmed(u) == [uart EXCEPT ![u].rx = "ready"]

(* Mutant of ErrorItem: the callback does not wake the task.               *)
NoItem(u) == UNCHANGED queue

(* The transfer has ended; the task must know.                             *)
ErrorItem(u) == Put(u, "MB_ERROR_COMMAND")

(* A reception on huart7 that ends while the master does not wait for it.  *)
Untimely == uart.huart7.rx = "armed" /\ master.pc # "answer"

(* An answer arrives, intact or not.                                       *)
AnswerHeard(a) ==
    /\ Hears("huart7")
    /\ uart' = Disarmed("huart7")
    /\ slip' = [slip EXCEPT !.huart7 = @ \/ Untimely]
    /\ Put("huart7", "MB_ERROR_NO")
    /\ \E f \in {a, Garbage} : buffer' = [buffer EXCEPT !.huart7 = f]

Answer(a) ==
    /\ a \in line.due
    /\ line' = [line EXCEPT !.due = @ \ {a}]
    /\ AnswerHeard(a) \/ UNCHANGED <<uart, queue, buffer, slip>>
    /\ UNCHANGED <<master, slave, active, regs>>

(* Frames of other devices on the slave's line.  The event of a half       *)
(* filled buffer leaves the receiver armed for the rest of the frame.      *)
ShortFrame(kind) ==
    /\ Hears("huart5")
    /\ ~line.tail
    /\ uart' = Disarmed("huart5")
    /\ buffer' = [buffer EXCEPT !.huart5 = kind]
    /\ Put("huart5", "MB_ERROR_NO")
    /\ UNCHANGED <<master, slave, active, regs, line, slip>>

LongFrame ==
    /\ Hears("huart5")
    /\ ~line.tail
    /\ buffer' = [buffer EXCEPT !.huart5 = "other"]
    /\ line' = [line EXCEPT !.tail = TRUE]
    /\ slip' = [slip EXCEPT !.huart5 = TRUE]
    /\ Put("huart5", "MB_ERROR_NO")
    /\ UNCHANGED <<uart, master, slave, active, regs>>

RestOfFrame ==
    /\ line.tail
    /\ line' = [line EXCEPT !.tail = FALSE]
    /\ IF Hears("huart5")
       THEN /\ uart' = Disarmed("huart5")
            /\ buffer' = [buffer EXCEPT !.huart5 = "other"]
            /\ Put("huart5", "MB_ERROR_NO")
       ELSE UNCHANGED <<uart, buffer, queue>>
    /\ UNCHANGED <<master, slave, active, regs, slip>>

(* HAL_UART_ErrorCallback.  What has come in of a frame may have spoiled    *)
(* the buffer.  It turns off the driver of huart5 only.                    *)
Spoiled(f, u) ==
    IF u = "huart7" THEN [f EXCEPT !.huart7 = Garbage]
                    ELSE [f EXCEPT !.huart5 = "other"]

ErrorCallback(u) ==
    /\ ErrorItem(u)
    /\ \/ UNCHANGED buffer
       \/ uart[u].rx = "armed" /\ buffer' = Spoiled(buffer, u)
    /\ UNCHANGED <<master, slave, active, regs>>

(* A framing, noise or overrun error ends the reception.                   *)
LineError(u) ==
    /\ Hears(u)
    /\ uart' = Disarmed(u)
    /\ slip' = [slip EXCEPT !.huart7 = @ \/ (u = "huart7" /\ Untimely)]
    /\ ErrorCallback(u)
    /\ UNCHANGED line

(* A DMA error ends what is under way in either direction.                 *)
DmaError7 ==
    /\ uart.huart7.tx = "busy" \/ uart.huart7.rx = "armed"
    /\ Abort7
    /\ slip' = [slip EXCEPT !.huart7 = @ \/ Untimely]
    /\ ErrorCallback("huart7")

DmaError5 ==
    /\ uart.huart5.tx = "busy" \/ uart.huart5.rx = "armed"
    /\ uart' = [uart EXCEPT !.huart5 =
                   [tx |-> "ready", rx |-> "ready", de |-> FALSE]]
    /\ slip' = [slip EXCEPT !.huart5 = @ \/ uart.huart5.tx = "busy"]
    /\ ErrorCallback("huart5")
    /\ UNCHANGED line

Next ==
    \/ MasterTask \/ SlaveTask
    \/ \E u \in Uarts : TxCplt(u)
    \/ \E a \in Answers : Answer(a)
    \/ \E kind \in {"request", "other"} : ShortFrame(kind)
    \/ LongFrame \/ RestOfFrame
    \/ \E u \in Uarts : LineError(u)
    \/ DmaError7 \/ DmaError5

Spec == Init /\ [][Next]_vars

(* Both tasks have the same priority and share the processor; what is      *)
(* transmitted gets out.  Nothing is assumed of what is heard.             *)
FairSpec ==
    /\ Spec
    /\ WF_vars(MasterTask)
    /\ WF_vars(SlaveTask)
    /\ \A u \in Uarts : WF_vars(TxCplt(u))

-----------------------------------------------------------------------------
Items == {"empty", "MB_ERROR_NO", "MB_ERROR_COMMAND"}
Values == Sensors \cup {None, Crc}

UartType ==
    [tx : {"ready", "busy"}, rx : {"ready", "armed"}, de : BOOLEAN]

MasterType ==
    [pc : {"next", "delay", "fill", "transmit", "sent", "receive", "answer",
           "abort", "passed", "failed", "write0", "write1"},
     sensor : 0 .. DFR_SENSOR_NUM, tries : 0 .. 3, starting : BOOLEAN]

TypeOK ==
    /\ uart \in [Uarts -> UartType]
    /\ queue \in [Uarts -> Items]
    /\ buffer \in [huart7 : Requests \cup Answers \cup {Garbage},
                   huart5 : {"request", "other", "reply"}]
    /\ master \in MasterType
    /\ master.pc \notin {"next", "delay"} => master.sensor \in Sensors
    /\ slave \in {"arm", "wait", "handle", "send", "sending"}
    /\ active \in [Sensors -> BOOLEAN]
    /\ regs \in [Registers -> Values]
    /\ line \in [sent : Requests \cup Answers \cup {Garbage},
                 due : SUBSET Answers, tail : BOOLEAN]
    /\ slip \in [Uarts -> BOOLEAN]

(* The slave waits for its queue without a limit: whenever it does, its    *)
(* receiver is armed or the item is there, so the next frame wakes it.     *)
SlaveNeverDeaf ==
    slave = "wait" => uart.huart5.rx = "armed" \/ queue.huart5 # "empty"

(* As long as no frame has filled half its buffer and no error has met its  *)
(* transmissions, the slave's receiver is armed exactly while it waits: it *)
(* never reaches the abort of huart7, and the other bus is the master's    *)
(* alone.                                                                  *)
SlaveInStep ==
    ~slip.huart5 =>
        (uart.huart5.rx = "armed" <=> slave = "wait" /\ queue.huart5 = "empty")

(* As long as neither task has lost step, and whichever answers are lost,  *)
(* late, garbled or another sensor's: no item of a success is older than   *)
(* the wait it is taken in, one of an error is not older than the try and  *)
(* fails it; nothing is transmitted beyond the wait for it, and the buffer *)
(* is safe from the receiver from the check of a frame to the last value   *)
(* written.                                                                *)
InStep == ~slip.huart5 /\ ~slip.huart7

MasterInStep ==
    InStep =>
        /\ uart.huart7.tx = "busy" => master.pc = "sent"
        /\ uart.huart7.rx = "armed" => master.pc \in {"answer", "abort"}
        /\ master.pc = "answer" /\ queue.huart7 = "empty" =>
               uart.huart7.rx = "armed"
        /\ queue.huart7 = "MB_ERROR_NO" =>
               master.pc = "answer" /\ uart.huart7.rx = "ready"
        /\ queue.huart7 = "MB_ERROR_COMMAND" =>
               master.pc \in {"sent", "receive", "answer"}

TasksInStep == SlaveInStep /\ MasterInStep

(* And then a register is given only a value of the sensor that was asked, *)
(* from a whole answer for both registers.                                 *)
ValuesAreTheAskedSensors ==
    [][InStep' => \A i \in Registers :
         regs'[i] # regs[i] => regs'[i] = master.sensor]_vars

(* The poll comes round for ever, whatever the sensors and the slave do.   *)
PollingGoesOn == []<>(master.pc = "delay")
=============================================================================
