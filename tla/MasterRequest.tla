---------------------------- MODULE MasterRequest ----------------------------
(***************************************************************************)
(* Master_Request of ModBus.cpp: one Modbus RTU request on an RS-485 line. *)
(* A bus is one MB_Active_t: a UART, the DE pin of its line driver and the *)
(* two binary semaphores its interrupts release.  One task works on each   *)
(* bus: ReadData on huart5 (Master_Read_1), ProgrammingSens on huart4      *)
(* (Master_RW).  The tasks share one variable, the global resultSem.       *)
(*                                                                         *)
(* An action is the code between two points where another task or an       *)
(* interrupt can run and change something the request still reads.         *)
(***************************************************************************)
EXTENDS Naturals

CONSTANTS
    Buses,           \* the MB_Active_t environments, one task on each
    Killable,        \* the buses whose task osThreadTerminate may kill
    Sensors,         \* the sensors that can be asked
    LateInterrupts,  \* can an interrupt come between a deadline and its abort?
    LateReplies,     \* can a sensor answer after its request has returned?
    None,            \* an empty receive buffer, or no answer
    Garbled          \* bytes that fail CheckAnswerCRC

(* A reply remembers its sender and whether the request it answers is the  *)
(* one in progress.  No code reads either: the properties do.              *)
Reply == [from : Sensors, fresh : BOOLEAN]

ASSUME ConstantsAssumption ==
    /\ Killable \subseteq Buses
    /\ LateInterrupts \in BOOLEAN
    /\ LateReplies \in BOOLEAN
    /\ None \notin Reply
    /\ Garbled \notin Reply
    /\ None # Garbled

VARIABLES
    pc,       \* where the task of a bus is in Master_Request
    asked,    \* Tx_Buffer: the sensor the current request is addressed to
    buf,      \* Rx_Buffer
    tx,       \* huart->gState
    rx,       \* huart->RxState
    de,       \* the DE pin: who drives the line
    semTx,    \* tokens of TX_Compl_SemHandle / PR_TX_Compl_SemHandle
    semRx,    \* tokens of RX_Compl_SemHandle / PR_RX_Compl_SemHandle
    got,      \* what this task's last osSemaphoreAcquire returned
    resultSem,\* the global the tasks store it in, shared by all buses
    MB_ERR,   \* the status Master_Request returns
    answer,   \* what the caller took from Rx_Buffer after its checks
    line,     \* replies under way on the line
    lapse     \* what put the current request out of step.  No code reads it

vars == <<pc, asked, buf, tx, rx, de, semTx, semRx, got, resultSem, MB_ERR,
          answer, line, lapse>>

Points == {"idle", "send", "refused", "waitTx", "testTx", "startRx",
           "waitRx", "testRx", "return"}
Errors == {"NO", "DMA_SEND", "UART_SEND", "UART_RECIEVE", "DMA_RECIEVE"}
Statuses == {"osOK", "osErrorTimeout"}

(* The causes of a lapse: the request before left something behind; the    *)
(* reply filled half of the buffer; an interrupt came between a deadline   *)
(* and its abort; the task was killed; the other task has overwritten the  *)
(* status that is about to be tested.                                      *)
Causes == {"behind", "half", "late", "killed", "status"}

-----------------------------------------------------------------------------
(* MB_Master_Init has taken the four tokens the semaphores are created     *)
(* with, and no request has been made.                                     *)
Init ==
    /\ pc = [b \in Buses |-> "idle"]
    /\ asked \in [Buses -> Sensors]
    /\ buf = [b \in Buses |-> None]
    /\ tx = [b \in Buses |-> "ready"]
    /\ rx = [b \in Buses |-> "ready"]
    /\ de = [b \in Buses |-> "low"]
    /\ semTx = [b \in Buses |-> 0]
    /\ semRx = [b \in Buses |-> 0]
    /\ got = [b \in Buses |-> "osOK"]
    /\ resultSem = "osOK"
    /\ MB_ERR = [b \in Buses |-> "NO"]
    /\ answer = [b \in Buses |-> None]
    /\ line = [b \in Buses |-> {}]
    /\ lapse = [b \in Buses |-> {}]

Note(b, causes) == lapse' = [lapse EXCEPT ![b] = @ \cup causes]

(* Nothing is under way and no token is left.                              *)
Quiet(b) ==
    /\ tx[b] = "ready"
    /\ rx[b] = "ready"
    /\ semTx[b] = 0
    /\ semRx[b] = 0

Goto(b, p) == pc' = [pc EXCEPT ![b] = p]

(* Driver off: the writes of the DE pin on every way out of a transmission.*)
KeepLine(b) == UNCHANGED de
ReleaseLine(b) == de' = [de EXCEPT ![b] = "low"]

(* HAL_UART_AbortTransmit_IT and HAL_UART_AbortReceive_IT: the transfer is *)
(* over, no completion callback follows, the semaphores keep their tokens. *)
KeepTransmitting(b) == UNCHANGED tx
AbortTransmit(b) == tx' = [tx EXCEPT ![b] = "ready"]

KeepReceiving(b) == UNCHANGED rx
AbortReceive(b) == rx' = [rx EXCEPT ![b] = "ready"]

(* osSemaphoreRelease of a binary semaphore that may hold its token.       *)
CountToken(n) == n + 1
ReleaseToken(n) == 1

(* osSemaphoreAcquire ends without a token when its 200 ms are over.       *)
WaitForever(n) == FALSE
TimesOut(n) == n = 0

(* Master_Read_1 and Master_RW clear both buffers and write the request;   *)
(* Master_Request then turns the driver on.                                *)
Call(b, s) ==
    /\ pc[b] = "idle"
    /\ Goto(b, "send")
    /\ asked' = [asked EXCEPT ![b] = s]
    /\ buf' = [buf EXCEPT ![b] = None]
    /\ answer' = [answer EXCEPT ![b] = None]
    /\ MB_ERR' = [MB_ERR EXCEPT ![b] = "NO"]
    /\ de' = [de EXCEPT ![b] = "high"]
    /\ line' = [line EXCEPT ![b] = {[m EXCEPT !.fresh = FALSE] : m \in @}]
    /\ lapse' = [lapse EXCEPT ![b] = IF Quiet(b) THEN {} ELSE {"behind"}]
    /\ UNCHANGED <<tx, rx, semTx, semRx, got, resultSem>>

(* HAL_UART_Transmit_DMA starts the transmission of a ready UART.  It may  *)
(* refuse: always when the UART is busy, and when the DMA does not start.  *)
Transmit(b) ==
    /\ pc[b] = "send"
    /\ \/ /\ tx[b] = "ready"
          /\ tx' = [tx EXCEPT ![b] = "busy"]
          /\ Goto(b, "waitTx")
       \/ /\ Goto(b, "refused")
          /\ UNCHANGED tx
    /\ UNCHANGED <<asked, buf, rx, de, semTx, semRx, got, resultSem, MB_ERR,
                   answer, line, lapse>>

(* The transmission was refused: abort, release the line, return.          *)
TransmitRefused(b) ==
    /\ pc[b] = "refused"
    /\ Goto(b, "return")
    /\ MB_ERR' = [MB_ERR EXCEPT ![b] = "DMA_SEND"]
    /\ AbortTransmit(b)
    /\ ReleaseLine(b)
    /\ UNCHANGED <<asked, buf, rx, semTx, semRx, got, resultSem, answer,
                   line, lapse>>

(* osSemaphoreAcquire stores its status in the caller's register and in    *)
(* the global: the token if there is one, a timeout if there is none.      *)
Overwrites(b, c, status) ==
    c # b /\ pc[c] \in {"testTx", "testRx"} /\ got[c] # status

Acquired(b, status) ==
    /\ got' = [got EXCEPT ![b] = status]
    /\ resultSem' = status
    /\ lapse' = [c \in Buses |->
                    IF Overwrites(b, c, status) THEN lapse[c] \cup {"status"}
                                                ELSE lapse[c]]

IgnoreStatus(status) == FALSE
Failed(status) == status # "osOK"

AcquireTx(b) ==
    /\ pc[b] = "waitTx"
    /\ Goto(b, "testTx")
    /\ \/ /\ semTx[b] = 1
          /\ semTx' = [semTx EXCEPT ![b] = 0]
          /\ Acquired(b, "osOK")
       \/ /\ TimesOut(semTx[b])
          /\ Acquired(b, "osErrorTimeout")
          /\ UNCHANGED semTx
    /\ UNCHANGED <<asked, buf, tx, rx, de, semRx, MB_ERR, answer, line>>

(* The test right after the call reads the global or, optimised, the       *)
(* register the call returned in.                                          *)
TestTx(b) ==
    /\ pc[b] = "testTx"
    /\ \E status \in {got[b], resultSem} :
         \/ /\ ~Failed(status)
            /\ Goto(b, "startRx")
            /\ UNCHANGED <<tx, de, MB_ERR>>
         \/ /\ Failed(status)
            /\ MB_ERR' = [MB_ERR EXCEPT ![b] = "UART_SEND"]
            /\ AbortTransmit(b)
            /\ ReleaseLine(b)
            /\ Goto(b, "return")
    /\ UNCHANGED <<asked, buf, rx, semTx, semRx, got, resultSem, answer,
                   line, lapse>>

(* HAL_UARTEx_ReceiveToIdle_DMA, a tick after the transmission.  Nothing   *)
(* is aborted when it refuses.                                             *)
StartReceive(b) ==
    /\ pc[b] = "startRx"
    /\ \/ /\ rx[b] = "ready"
          /\ rx' = [rx EXCEPT ![b] = "armed"]
          /\ Goto(b, "waitRx")
          /\ UNCHANGED MB_ERR
       \/ /\ MB_ERR' = [MB_ERR EXCEPT ![b] = "DMA_RECIEVE"]
          /\ Goto(b, "return")
          /\ UNCHANGED rx
    /\ UNCHANGED <<asked, buf, tx, de, semTx, semRx, got, resultSem, answer,
                   line, lapse>>

AcquireRx(b) ==
    /\ pc[b] = "waitRx"
    /\ Goto(b, "testRx")
    /\ \/ /\ semRx[b] = 1
          /\ semRx' = [semRx EXCEPT ![b] = 0]
          /\ Acquired(b, "osOK")
       \/ /\ TimesOut(semRx[b])
          /\ Acquired(b, "osErrorTimeout")
          /\ UNCHANGED semRx
    /\ UNCHANGED <<asked, buf, tx, rx, de, semTx, MB_ERR, answer, line>>

(* A tick after the wait, so the status can only come from the global.     *)
TestRx(b) ==
    /\ pc[b] = "testRx"
    /\ Goto(b, "return")
    /\ \/ /\ ~Failed(resultSem)
          /\ UNCHANGED <<rx, MB_ERR>>
       \/ /\ Failed(resultSem)
          /\ MB_ERR' = [MB_ERR EXCEPT ![b] = "UART_RECIEVE"]
          /\ AbortReceive(b)
    /\ UNCHANGED <<asked, buf, tx, de, semTx, semRx, got, resultSem, answer,
                   line, lapse>>

(* CheckAnswerCRC: the function code and the CRC, never the address.  An   *)
(* empty buffer fails on the function code.                                *)
AnyAnswer(m) == TRUE
CheckAnswerCRC(m) == m \in Reply

(* The caller takes the data of a checked answer and reports any other     *)
(* one as a send error.  Unless replies can be late, none is left behind.  *)
Return(b) ==
    /\ pc[b] = "return"
    /\ Goto(b, "idle")
    /\ \/ /\ MB_ERR[b] = "NO"
          /\ CheckAnswerCRC(buf[b])
          /\ answer' = [answer EXCEPT ![b] = buf[b]]
          /\ UNCHANGED MB_ERR
       \/ /\ MB_ERR[b] = "NO"
          /\ ~CheckAnswerCRC(buf[b])
          /\ MB_ERR' = [MB_ERR EXCEPT ![b] = "UART_SEND"]
          /\ UNCHANGED answer
       \/ /\ MB_ERR[b] # "NO"
          /\ UNCHANGED <<MB_ERR, answer>>
    /\ line' = IF LateReplies THEN line ELSE [line EXCEPT ![b] = {}]
    /\ UNCHANGED <<asked, buf, tx, rx, de, semTx, semRx, got, resultSem,
                   lapse>>

(* Leaving the settings screen kills its task wherever it is.              *)
Terminate(b) ==
    /\ b \in Killable
    /\ pc[b] # "idle"
    /\ Goto(b, "idle")
    /\ Note(b, {"killed"})
    /\ UNCHANGED <<asked, buf, tx, rx, de, semTx, semRx, got, resultSem,
                   MB_ERR, answer, line>>

-----------------------------------------------------------------------------
(* The interrupts.                                                         *)

(* The task has missed the deadline of its wait and has not aborted yet.   *)
TimedOut(b, p) == pc[b] = p /\ got[b] # "osOK"
InTime(b, p) == LateInterrupts \/ ~TimedOut(b, p)
Tardy(b, p) == IF TimedOut(b, p) THEN {"late"} ELSE {}

(* Whose reply a transmission that ends now can bring: the current         *)
(* request's, or that of an earlier one still being sent when the buffers  *)
(* were cleared for the current one.                                       *)
Heard(b) ==
    IF pc[b] = "send" THEN [from : Sensors, fresh : {FALSE}]
                      ELSE {[from |-> asked[b], fresh |-> TRUE]}

(* The last byte is on the line.  The addressed sensor hears the request   *)
(* if the driver was on, and answers or not.                               *)
TxCpltCallback(b) ==
    /\ tx[b] = "busy"
    /\ InTime(b, "testTx")
    /\ tx' = [tx EXCEPT ![b] = "ready"]
    /\ ReleaseLine(b)
    /\ semTx' = [semTx EXCEPT ![b] = ReleaseToken(@)]
    /\ Note(b, Tardy(b, "testTx"))
    /\ \/ /\ de[b] = "high"
          /\ \E m \in Heard(b) : line' = [line EXCEPT ![b] = @ \cup {m}]
       \/ UNCHANGED line
    /\ UNCHANGED <<pc, asked, buf, rx, semRx, got, resultSem, MB_ERR, answer>>

(* An event of a reception by ReceiveToIdle releases a token, whatever its *)
(* Size.  The receiver is off while the driver is on.                      *)
Received(b, causes) ==
    /\ de[b] = "low"
    /\ semRx' = [semRx EXCEPT ![b] = ReleaseToken(@)]
    /\ Note(b, causes)

(* The bytes of a reply, or bytes that are not one, go to the buffer.      *)
TakeBytes(b) ==
    \E m \in line[b] \cup {Garbled} :
        /\ buf' = [buf EXCEPT ![b] = m]
        /\ line' = [line EXCEPT ![b] = @ \ {m}]

(* The line went idle after fewer than half of MAX_MB_BUFSIZE bytes, as    *)
(* after every reply that comes alone: the reception is over.              *)
RxIdle(b) ==
    /\ rx[b] = "armed"
    /\ InTime(b, "testRx")
    /\ TakeBytes(b)
    /\ rx' = [rx EXCEPT ![b] = "ready"]
    /\ Received(b, Tardy(b, "testRx"))

(* Half of the buffer is full, with a reply at its start or not: the       *)
(* receiver stays armed.                                                   *)
RxHalf(b) ==
    /\ rx[b] = "armed"
    /\ InTime(b, "testRx")
    /\ TakeBytes(b)
    /\ rx' = [rx EXCEPT ![b] = "half"]
    /\ Received(b, {"half"} \cup Tardy(b, "testRx"))

(* The line goes idle, or the buffer is full, after that: what came in the *)
(* second half is not looked at.                                           *)
RxRest(b) ==
    /\ rx[b] = "half"
    /\ InTime(b, "testRx")
    /\ rx' = [rx EXCEPT ![b] = "ready"]
    /\ Received(b, Tardy(b, "testRx"))
    /\ UNCHANGED <<buf, line>>

RxEventCallback(b) ==
    /\ RxIdle(b) \/ RxHalf(b) \/ RxRest(b)
    /\ UNCHANGED <<pc, asked, tx, de, semTx, got, resultSem, MB_ERR, answer>>

(* A framing, noise, overrun or DMA error ends both transfers; no token is *)
(* released, so the waiting request runs into its timeout.                 *)
ErrorCallback(b) ==
    /\ tx[b] = "busy" \/ rx[b] # "ready"
    /\ AbortTransmit(b)
    /\ rx' = [rx EXCEPT ![b] = "ready"]
    /\ ReleaseLine(b)
    /\ UNCHANGED <<pc, asked, buf, semTx, semRx, got, resultSem, MB_ERR,
                   answer, line, lapse>>

(* A reply that finds no receiver, or is destroyed on the line.            *)
LoseReply(b) ==
    /\ \E m \in line[b] : line' = [line EXCEPT ![b] = @ \ {m}]
    /\ UNCHANGED <<pc, asked, buf, tx, rx, de, semTx, semRx, got, resultSem,
                   MB_ERR, answer, lapse>>

-----------------------------------------------------------------------------
(* The statements of Master_Request and the return to its caller.          *)
Step(b) ==
    \/ Transmit(b) \/ TransmitRefused(b) \/ AcquireTx(b) \/ TestTx(b)
    \/ StartReceive(b) \/ AcquireRx(b) \/ TestRx(b) \/ Return(b)

Interrupt(b) ==
    TxCpltCallback(b) \/ RxEventCallback(b) \/ ErrorCallback(b) \/ LoseReply(b)

Next ==
    \E b \in Buses :
        \/ \E s \in Sensors : Call(b, s)
        \/ Step(b)
        \/ Terminate(b)
        \/ Interrupt(b)

Spec == Init /\ [][Next]_vars

(* The scheduler runs a ready task and the tick ends every timed wait: a   *)
(* request never stops in the middle.  Nothing is assumed of the caller,   *)
(* the hardware or the sensors.                                            *)
FairSpec == Spec /\ \A b \in Buses : WF_vars(Step(b))

-----------------------------------------------------------------------------
TypeOK ==
    /\ pc \in [Buses -> Points]
    /\ asked \in [Buses -> Sensors]
    /\ buf \in [Buses -> Reply \cup {None, Garbled}]
    /\ tx \in [Buses -> {"ready", "busy"}]
    /\ rx \in [Buses -> {"ready", "armed", "half"}]
    /\ de \in [Buses -> {"low", "high"}]
    /\ semTx \in [Buses -> {0, 1}]
    /\ semRx \in [Buses -> {0, 1}]
    /\ got \in [Buses -> Statuses]
    /\ resultSem \in Statuses
    /\ MB_ERR \in [Buses -> Errors]
    /\ answer \in [Buses -> Reply \cup {None}]
    /\ line \in [Buses -> SUBSET Reply]
    /\ lapse \in [Buses -> SUBSET Causes]

(* The driver is on only while the task is about to transmit or a          *)
(* transmission is under way whose end will turn it off: no way out of     *)
(* Master_Request leaves the line driven.  Only a killed task does, until  *)
(* the next request on its bus.                                            *)
DriverReleased ==
    \A b \in Buses : de[b] = "high" =>
        \/ tx[b] = "busy"
        \/ pc[b] \in {"send", "refused"}
        \/ pc[b] = "idle" /\ "killed" \in lapse[b]

(* Every request returns to its caller, also when the interrupt it waits   *)
(* for never comes.                                                        *)
EveryRequestReturns == \A b \in Buses : pc[b] # "idle" ~> pc[b] = "idle"

(* ---- The Causes are all the ways in which a request loses step with its *)
(* ---- UART, on any number of buses.                                      *)

(* Without a lapse nothing is left of a request when it has returned: the  *)
(* UART is ready in both directions, no token is waiting to be mistaken    *)
(* for the next one, the receiver does not write into a buffer that has    *)
(* gone out of scope, the line is released.                                *)
QuiescentBetweenRequests ==
    \A b \in Buses : pc[b] = "idle" /\ lapse[b] = {} =>
        Quiet(b) /\ de[b] = "low"

(* Without a lapse a request that reports MB_ERROR_NO did receive bytes:   *)
(* its success was not read from an old token.                             *)
SuccessMeansReception ==
    \A b \in Buses :
        pc[b] = "return" /\ MB_ERR[b] = "NO" /\ lapse[b] = {} =>
            buf[b] # None

(* A receiver that is an event behind its requests, or has had the event   *)
(* of half a buffer, is back in step after the first request that waits in *)
(* vain: its abort leaves neither a reception nor a token.                 *)
SilenceResynchronises ==
    \A b \in Buses :
        /\ pc[b] = "return"
        /\ MB_ERR[b] = "UART_RECIEVE"
        /\ lapse[b] \subseteq {"behind", "half"}
        => rx[b] = "ready" /\ semRx[b] = 0

(* The inductive invariant the three follow from: the UART, the semaphores *)
(* and the global status are where the task's position says they are.      *)
TxInStep(b) ==
    /\ pc[b] \notin {"waitTx", "testTx"} => tx[b] = "ready"
    /\ pc[b] # "waitTx" => semTx[b] = 0
    /\ pc[b] = "waitTx" /\ semTx[b] = 1 => tx[b] = "ready"
    /\ pc[b] = "testTx" /\ got[b] = "osOK" => tx[b] = "ready"
    /\ tx[b] = "ready" /\ pc[b] \notin {"send", "refused"} => de[b] = "low"

RxInStep(b) ==
    /\ rx[b] # "half"
    /\ pc[b] \notin {"waitRx", "testRx"} => rx[b] = "ready"
    /\ pc[b] # "waitRx" => semRx[b] = 0
    /\ pc[b] = "waitRx" /\ semRx[b] = 1 => rx[b] = "ready" /\ buf[b] # None
    /\ pc[b] = "testRx" /\ got[b] = "osOK" => rx[b] = "ready" /\ buf[b] # None
    /\ pc[b] = "return" /\ MB_ERR[b] = "NO" => buf[b] # None

StatusInStep(b) == pc[b] \in {"testTx", "testRx"} => resultSem = got[b]

InStep ==
    \A b \in Buses : lapse[b] = {} =>
        TxInStep(b) /\ RxInStep(b) /\ StatusInStep(b)

(* ---- What holds of one task on one bus whose interrupts meet their      *)
(* ---- deadlines and whose sensors answer in time or not at all, however  *)
(* ---- far the receiver is behind.                                        *)
SingleBus == \A a, b \in Buses : a = b
Punctual == ~LateInterrupts /\ ~LateReplies /\ Killable = {}

Ours(b) == [from |-> asked[b], fresh |-> TRUE]

(* Data come from the sensor that was asked, in answer to this request.    *)
AnswerIsOurs ==
    \A b \in Buses : answer[b] # None => answer[b] = Ours(b)

(* Its inductive invariant: what is on the line or in the buffer is of the *)
(* current request, for its transmission has ended before the next one.    *)
RepliesInStep(b) ==
    /\ line[b] \subseteq {Ours(b)}
    /\ pc[b] \in {"idle", "send"} => line[b] = {}
    /\ buf[b] \in {None, Garbled, Ours(b)}
    /\ answer[b] \in {None, Ours(b)}
    /\ pc[b] # "idle" => answer[b] = None

RepliesAreOurs ==
    \A b \in Buses : TxInStep(b) /\ StatusInStep(b) /\ RepliesInStep(b)

(* Under these conditions the module implements Transaction.               *)
Phase == [b \in Buses |-> IF pc[b] = "idle" THEN "idle" ELSE "busy"]
Data == [b \in Buses |-> IF answer[b] = None THEN None ELSE answer[b].from]

Abs == INSTANCE Transaction WITH phase <- Phase, answer <- Data

ImplementsTransaction == Abs!FairSpec
=============================================================================
