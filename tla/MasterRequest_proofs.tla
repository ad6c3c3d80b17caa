------------------------- MODULE MasterRequest_proofs -------------------------
(***************************************************************************)
(* Proofs about MasterRequest, for any number of buses and sensors.        *)
(***************************************************************************)
EXTENDS MasterRequest, TLAPS

(* The initial values have their types.                                    *)
LEMMA InitType == Init => TypeOK
<1> SUFFICES ASSUME Init PROVE TypeOK
  OBVIOUS
<1> QED
  BY DEF Init, TypeOK, Points, Statuses, Errors, Causes

(* A new request keeps the types; older replies stay replies.              *)
LEMMA CallType ==
  ASSUME NEW b \in Buses, NEW s \in Sensors, TypeOK, Call(b, s)
  PROVE  TypeOK'
<1>1. line' \in [Buses -> SUBSET Reply]
  <2>1. \A m \in Reply : [m EXCEPT !.fresh = FALSE] \in Reply
    BY DEF Reply
  <2>2. {[m EXCEPT !.fresh = FALSE] : m \in line[b]} \in SUBSET Reply
    BY <2>1 DEF TypeOK
  <2> QED
    BY <2>2 DEF TypeOK, Call
<1> QED
  BY <1>1 DEF TypeOK, Call, Goto, Points, Errors, Causes

(* So does every statement of Master_Request.                              *)
LEMMA StepType ==
  ASSUME NEW b \in Buses, TypeOK, Step(b)
  PROVE  TypeOK'
<1>1. CASE Transmit(b)
  BY <1>1 DEF TypeOK, Transmit, Goto, Points
<1>2. CASE TransmitRefused(b)
  BY <1>2 DEF TypeOK, TransmitRefused, Goto, Points, Errors, AbortTransmit,
              ReleaseLine
<1>3. CASE AcquireTx(b)
  BY <1>3 DEF TypeOK, AcquireTx, Goto, Points, Acquired, Statuses, Causes
<1>4. CASE TestTx(b)
  BY <1>4 DEF TypeOK, TestTx, Goto, Points, Errors, AbortTransmit, ReleaseLine
<1>5. CASE StartReceive(b)
  BY <1>5 DEF TypeOK, StartReceive, Goto, Points, Errors
<1>6. CASE AcquireRx(b)
  BY <1>6 DEF TypeOK, AcquireRx, Goto, Points, Acquired, Statuses, Causes
<1>7. CASE TestRx(b)
  BY <1>7 DEF TypeOK, TestRx, Goto, Points, Errors, AbortReceive
<1>8. CASE Return(b)
  BY <1>8 DEF TypeOK, Return, Goto, Points, Errors, CheckAnswerCRC
<1> QED
  BY <1>1, <1>2, <1>3, <1>4, <1>5, <1>6, <1>7, <1>8 DEF Step

(* So does the end of the task.                                            *)
LEMMA TerminateType ==
  ASSUME NEW b \in Buses, TypeOK, Terminate(b)
  PROVE  TypeOK'
BY DEF TypeOK, Terminate, Goto, Points, Note, Causes

(* So does every interrupt: releasing a binary semaphore that already has  *)
(* its token leaves one token.                                             *)
LEMMA InterruptType ==
  ASSUME NEW b \in Buses, TypeOK, Interrupt(b)
  PROVE  TypeOK'
<1>1. CASE TxCpltCallback(b)
  <2>1. Heard(b) \subseteq Reply
    <3>1. asked[b] \in Sensors
      BY DEF TypeOK
    <3>2. [from |-> asked[b], fresh |-> TRUE] \in Reply
      BY <3>1 DEF Reply
    <3>3. [from : Sensors, fresh : {FALSE}] \subseteq Reply
      BY DEF Reply
    <3> QED
      BY <3>2, <3>3 DEF Heard
  <2> QED
    BY <1>1, <2>1 DEF TypeOK, TxCpltCallback, ReleaseLine, ReleaseToken, Note,
                      Tardy, Causes
<1>2. CASE RxEventCallback(b)
  BY <1>2 DEF TypeOK, RxEventCallback, RxIdle, RxHalf, RxRest, TakeBytes,
              Received, ReleaseToken, Note, Tardy, Causes
<1>3. CASE ErrorCallback(b)
  BY <1>3 DEF TypeOK, ErrorCallback, AbortTransmit, ReleaseLine
<1>4. CASE LoseReply(b)
  BY <1>4 DEF TypeOK, LoseReply
<1> QED
  BY <1>1, <1>2, <1>3, <1>4 DEF Interrupt

(* The type invariant is inductive.                                        *)
LEMMA NextType == TypeOK /\ [Next]_vars => TypeOK'
<1> SUFFICES ASSUME TypeOK, [Next]_vars PROVE TypeOK'
  OBVIOUS
<1>1. CASE Next
  BY <1>1, CallType, StepType, TerminateType, InterruptType DEF Next
<1>2. CASE UNCHANGED vars
  BY <1>2 DEF TypeOK, vars
<1> QED
  BY <1>1, <1>2

(* Every variable keeps its type: in particular a semaphore never holds    *)
(* more than one token and a request never returns an undeclared error.    *)
THEOREM TypeCorrect == Spec => []TypeOK
BY InitType, NextType, PTL DEF Spec

-----------------------------------------------------------------------------
(* One step keeps DriverReleased: the driver is turned on by Call only, and *)
(* what Call leads to turns it off or leaves a transmission that will.     *)
LEMMA DriverStep ==
  ASSUME TypeOK, DriverReleased, Next
  PROVE  DriverReleased'
<1> USE DEF TypeOK, Goto
<1> DEFINE Kept(c) == \/ tx[c] = "busy"
                      \/ pc[c] \in {"send", "refused"}
                      \/ pc[c] = "idle" /\ "killed" \in lapse[c]
<1> SUFFICES ASSUME NEW c \in Buses, de'[c] = "high"
             PROVE  Kept(c)'
  BY DEF DriverReleased
<1>0. de[c] = "high" => Kept(c)
  BY DEF DriverReleased
<1>1. PICK b \in Buses : \/ \E s \in Sensors : Call(b, s)
                         \/ Step(b) \/ Terminate(b) \/ Interrupt(b)
  BY DEF Next
<1>2. ASSUME NEW s \in Sensors, Call(b, s)
      PROVE  Kept(c)'
  BY <1>0, <1>2 DEF Call
<1>3. CASE Transmit(b)
  BY <1>0, <1>3 DEF Transmit
<1>4. CASE TransmitRefused(b)
  BY <1>0, <1>4 DEF TransmitRefused, AbortTransmit, ReleaseLine
<1>5. CASE AcquireTx(b)
  BY <1>0, <1>5 DEF AcquireTx, Acquired
<1>6. CASE TestTx(b)
  BY <1>0, <1>6 DEF TestTx, AbortTransmit, ReleaseLine
<1>7. CASE StartReceive(b)
  BY <1>0, <1>7 DEF StartReceive
<1>8. CASE AcquireRx(b)
  BY <1>0, <1>8 DEF AcquireRx, Acquired
<1>9. CASE TestRx(b)
  BY <1>0, <1>9 DEF TestRx
<1>10. CASE Return(b)
  BY <1>0, <1>10 DEF Return
<1>11. CASE Terminate(b)
  BY <1>0, <1>11 DEF Terminate, Note
<1>12. CASE TxCpltCallback(b)
  BY <1>0, <1>12 DEF TxCpltCallback, ReleaseLine, Note
<1>13. CASE RxEventCallback(b)
  BY <1>0, <1>13 DEF RxEventCallback, RxIdle, RxHalf, RxRest, Received, Note
<1>14. CASE ErrorCallback(b)
  BY <1>0, <1>14 DEF ErrorCallback, AbortTransmit, ReleaseLine
<1>15. CASE LoseReply(b)
  BY <1>0, <1>15 DEF LoseReply
<1> QED
  BY <1>1, <1>2, <1>3, <1>4, <1>5, <1>6, <1>7, <1>8, <1>9, <1>10, <1>11,
     <1>12, <1>13, <1>14, <1>15 DEF Step, Interrupt

(* No way out of Master_Request, and no interrupt in the middle of it,     *)
(* leaves the driver of a bus on with no transmission to turn it off; a    *)
(* killed task does so until the next request at most.  The property is    *)
(* inductive as it stands.                                                 *)
THEOREM DriverAlwaysReleased == Spec => []DriverReleased
<1>1. Init => DriverReleased
  BY DEF Init, DriverReleased
<1>2. TypeOK /\ DriverReleased /\ [Next]_vars => DriverReleased'
  <2>1. UNCHANGED vars /\ DriverReleased => DriverReleased'
    BY DEF vars, DriverReleased
  <2> QED
    BY <2>1, DriverStep
<1> QED
  BY <1>1, <1>2, TypeCorrect, PTL DEF Spec

-----------------------------------------------------------------------------
(* What keeps a request in step, on any number of buses: a lapse is noted  *)
(* before it can show.                                                     *)
LEMMA InStepInit == Init => InStep
BY DEF Init, InStep, TxInStep, RxInStep, StatusInStep

(* A new request is in step when it finds the UART and the tokens at rest, *)
(* whatever the request before it was.                                     *)
LEMMA InStepCall ==
  ASSUME TypeOK, NEW b \in Buses, NEW s \in Sensors, Call(b, s),
         lapse'[b] = {}
  PROVE  (TxInStep(b) /\ RxInStep(b) /\ StatusInStep(b))'
<1>1. Quiet(b)
  BY DEF Call, TypeOK
<1> QED
  BY <1>1 DEF Call, Goto, TypeOK, Quiet, TxInStep, RxInStep, StatusInStep

(* The steps of other buses change of a bus no more than the global status, *)
(* and note it where it is about to be tested.                             *)
LEMMA InStepOther ==
  ASSUME TypeOK, NEW c \in Buses, NEW b \in Buses, b # c,
         \/ \E s \in Sensors : Call(b, s)
         \/ Step(b) \/ Terminate(b) \/ Interrupt(b),
         TxInStep(c) /\ RxInStep(c) /\ StatusInStep(c),
         lapse'[c] = {}
  PROVE  (TxInStep(c) /\ RxInStep(c) /\ StatusInStep(c))'
<1> USE DEF TypeOK
<1>1. /\ pc'[c] = pc[c] /\ tx'[c] = tx[c] /\ rx'[c] = rx[c] /\ de'[c] = de[c]
      /\ semTx'[c] = semTx[c] /\ semRx'[c] = semRx[c] /\ got'[c] = got[c]
      /\ MB_ERR'[c] = MB_ERR[c] /\ buf'[c] = buf[c]
  <2>1. CASE \E s \in Sensors : Call(b, s)
    BY <2>1 DEF Call, Goto
  <2>2. CASE Step(b)
    BY <2>2 DEF Step, Transmit, TransmitRefused, AcquireTx, TestTx,
         StartReceive, AcquireRx, TestRx, Return, Goto, Acquired,
         AbortTransmit, AbortReceive, ReleaseLine
  <2>3. CASE Terminate(b)
    BY <2>3 DEF Terminate, Goto
  <2>4. CASE Interrupt(b)
    BY <2>4 DEF Interrupt, TxCpltCallback, RxEventCallback, RxIdle, RxHalf,
         RxRest, Received, TakeBytes, ErrorCallback, LoseReply,
         AbortTransmit, ReleaseLine
  <2> QED
    BY <2>1, <2>2, <2>3, <2>4
<1>2. pc[c] \in {"testTx", "testRx"} => resultSem' = got[c]
  <2> SUFFICES ASSUME pc[c] \in {"testTx", "testRx"} PROVE resultSem' = got[c]
    OBVIOUS
  <2>1. resultSem = got[c]
    BY DEF StatusInStep
  <2>2. ASSUME NEW status, Acquired(b, status)
        PROVE  resultSem' = got[c]
    <3>1. ~Overwrites(b, c, status)
      BY <2>2 DEF Acquired
    <3> QED
      BY <2>2, <3>1 DEF Overwrites, Acquired
  <2>3. CASE AcquireTx(b) \/ AcquireRx(b)
    BY <2>2, <2>3 DEF AcquireTx, AcquireRx
  <2>4. CASE ~(AcquireTx(b) \/ AcquireRx(b))
    BY <2>1, <2>4 DEF Call, Step, Interrupt, Transmit, TransmitRefused,
         TestTx, StartReceive, TestRx, Return, Terminate, TxCpltCallback,
         RxEventCallback, ErrorCallback, LoseReply
  <2> QED
    BY <2>3, <2>4
<1> QED
  BY <1>1, <1>2 DEF TxInStep, RxInStep, StatusInStep

(* A request's own steps and interrupts, as long as none is a lapse.       *)
LEMMA InStepOwn ==
  ASSUME TypeOK, NEW b \in Buses, Step(b) \/ Terminate(b) \/ Interrupt(b),
         TxInStep(b) /\ RxInStep(b) /\ StatusInStep(b),
         lapse'[b] = {}
  PROVE  (TxInStep(b) /\ RxInStep(b) /\ StatusInStep(b))'
<1> USE ConstantsAssumption
    DEF TypeOK, Goto, TxInStep, RxInStep, StatusInStep
<1>1. CASE Transmit(b)
  BY <1>1 DEF Transmit
<1>2. CASE TransmitRefused(b)
  BY <1>2 DEF TransmitRefused, AbortTransmit, ReleaseLine
<1>3. CASE AcquireTx(b)
  BY <1>3 DEF AcquireTx, Acquired, TimesOut
<1>4. CASE TestTx(b)
  BY <1>4 DEF TestTx, Failed, AbortTransmit, ReleaseLine
<1>5. CASE StartReceive(b)
  BY <1>5 DEF StartReceive
<1>6. CASE AcquireRx(b)
  BY <1>6 DEF AcquireRx, Acquired, TimesOut
<1>7. CASE TestRx(b)
  BY <1>7 DEF TestRx, Failed, AbortReceive, Statuses
<1>8. CASE Return(b)
  BY <1>8 DEF Return
<1>9. CASE Terminate(b)
  BY <1>9 DEF Terminate, Note
<1>10. CASE TxCpltCallback(b)
  <2>1. ~TimedOut(b, "testTx")
    BY <1>10 DEF TxCpltCallback, Note, Tardy
  <2> QED
    BY <1>10, <2>1 DEF TxCpltCallback, ReleaseLine, ReleaseToken, TimedOut
<1>11. CASE RxIdle(b) /\ RxEventCallback(b)
  <2>1. ~TimedOut(b, "testRx")
    BY <1>11 DEF RxIdle, Received, Note, Tardy
  <2>2. buf'[b] # None
    BY <1>11 DEF RxIdle, TakeBytes
  <2> QED
    BY <1>11, <2>1, <2>2 DEF RxEventCallback, RxIdle, Received, ReleaseToken,
       TimedOut
<1>12. CASE RxHalf(b)
  BY <1>12 DEF RxHalf, Received, Note
<1>13. CASE RxRest(b)
  BY <1>13 DEF RxRest
<1>14. CASE ErrorCallback(b)
  BY <1>14 DEF ErrorCallback, AbortTransmit, ReleaseLine
<1>15. CASE LoseReply(b)
  BY <1>15 DEF LoseReply
<1> QED
  BY <1>1, <1>2, <1>3, <1>4, <1>5, <1>6, <1>7, <1>8, <1>9, <1>10, <1>11,
     <1>12, <1>13, <1>14, <1>15 DEF Step, Interrupt, RxEventCallback

(* Only a new request forgets a lapse.                                     *)
LEMMA LapseStays ==
  ASSUME TypeOK, NEW c \in Buses, NEW b \in Buses,
         \/ b # c /\ \E s \in Sensors : Call(b, s)
         \/ Step(b) \/ Terminate(b) \/ Interrupt(b)
  PROVE  lapse[c] \subseteq lapse'[c]
BY DEF TypeOK, Call, Step, Interrupt, Transmit, TransmitRefused, AcquireTx,
       TestTx, StartReceive, AcquireRx, TestRx, Return, Terminate,
       TxCpltCallback, RxEventCallback, RxIdle, RxHalf, RxRest, Received,
       ErrorCallback, LoseReply, Note, Acquired

(* One step keeps InStep.                                                  *)
LEMMA InStepStep ==
  ASSUME TypeOK, InStep, Next
  PROVE  InStep'
<1> SUFFICES ASSUME NEW c \in Buses, lapse'[c] = {}
             PROVE  (TxInStep(c) /\ RxInStep(c) /\ StatusInStep(c))'
  BY DEF InStep
<1>1. PICK b \in Buses : \/ \E s \in Sensors : Call(b, s)
                         \/ Step(b) \/ Terminate(b) \/ Interrupt(b)
  BY DEF Next
<1>2. CASE b = c /\ \E s \in Sensors : Call(b, s)
  BY <1>2, InStepCall
<1>3. CASE ~(b = c /\ \E s \in Sensors : Call(b, s))
  <2>1. lapse[c] \subseteq lapse'[c]
    BY <1>1, <1>3, LapseStays
  <2>2. TxInStep(c) /\ RxInStep(c) /\ StatusInStep(c)
    BY <2>1 DEF InStep
  <2>3. CASE b = c
    BY <1>1, <1>3, <2>2, <2>3, InStepOwn
  <2>4. CASE b # c
    BY <1>1, <2>2, <2>4, InStepOther
  <2> QED
    BY <2>3, <2>4
<1> QED
  BY <1>2, <1>3

(* On any number of buses, whatever the interrupts, the sensors, the other *)
(* tasks and the end of the settings screen do: a request whose UART,      *)
(* tokens or status are not where its task takes them to be has met one of *)
(* the five Causes.                                                        *)
THEOREM StaysInStep == Spec => []InStep
<1>1. TypeOK /\ InStep /\ [Next]_vars => InStep'
  <2>1. UNCHANGED vars /\ InStep => InStep'
    BY DEF vars, InStep, TxInStep, RxInStep, StatusInStep
  <2> QED
    BY <2>1, InStepStep
<1> QED
  BY <1>1, InStepInit, TypeCorrect, PTL DEF Spec

(* A request without a lapse leaves the UART ready, no token and nothing   *)
(* that is still being received into a dead buffer.                        *)
THEOREM QuiescentWithoutLapse == Spec => []QuiescentBetweenRequests
<1>1. TypeOK /\ InStep => QuiescentBetweenRequests
  BY DEF TypeOK, InStep, TxInStep, RxInStep, QuiescentBetweenRequests, Quiet
<1> QED
  BY <1>1, StaysInStep, TypeCorrect, PTL

(* Without a lapse MB_ERROR_NO is only returned for a request whose buffer *)
(* was written.                                                            *)
THEOREM SuccessAlwaysMeansReception == Spec => []SuccessMeansReception
<1>1. InStep => SuccessMeansReception
  BY DEF InStep, RxInStep, SuccessMeansReception
<1> QED
  BY <1>1, StaysInStep, PTL

-----------------------------------------------------------------------------
(* A receiver that is behind.  The causes it can recover from.             *)
Recoverable(b) == lapse[b] \subseteq {"behind", "half"}

(* The invariant of the recovery: a wait that ends in vain ends without a  *)
(* token, and the abort after it without a reception.                      *)
RecoveryInv(b) ==
    /\ pc[b] \notin {"idle", "return"} => MB_ERR[b] = "NO"
    /\ Recoverable(b) =>
         /\ pc[b] = "testRx" => resultSem = got[b]
         /\ pc[b] = "testRx" /\ got[b] # "osOK" => semRx[b] = 0
         /\ pc[b] = "return" /\ MB_ERR[b] = "UART_RECIEVE" =>
              rx[b] = "ready" /\ semRx[b] = 0

(* One step of a bus keeps its own RecoveryInv.                            *)
LEMMA RecoveryOwn ==
  ASSUME TypeOK, NEW b \in Buses, RecoveryInv(b),
         \/ \E s \in Sensors : Call(b, s)
         \/ Step(b) \/ Terminate(b) \/ Interrupt(b)
  PROVE  RecoveryInv(b)'
<1> USE DEF TypeOK, Goto, RecoveryInv, Recoverable
<1>0. ASSUME NEW s \in Sensors, Call(b, s)
      PROVE  RecoveryInv(b)'
  BY <1>0 DEF Call
<1>1. CASE Transmit(b)
  BY <1>1 DEF Transmit
<1>2. CASE TransmitRefused(b)
  BY <1>2 DEF TransmitRefused
<1>3. CASE AcquireTx(b)
  BY <1>3 DEF AcquireTx
<1>4. CASE TestTx(b)
  BY <1>4 DEF TestTx
<1>5. CASE StartReceive(b)
  BY <1>5 DEF StartReceive
<1>6. CASE AcquireRx(b)
  BY <1>6 DEF AcquireRx, Acquired, TimesOut, Statuses
<1>7. CASE TestRx(b)
  BY <1>7 DEF TestRx, Failed, AbortReceive, Statuses
<1>8. CASE Return(b)
  BY <1>8 DEF Return
<1>9. CASE Terminate(b)
  BY <1>9 DEF Terminate, Note
<1>10. CASE TxCpltCallback(b)
  BY <1>10 DEF TxCpltCallback, Note
<1>11. CASE RxEventCallback(b)
  <2>1. rx[b] # "ready"
    BY <1>11 DEF RxEventCallback, RxIdle, RxHalf, RxRest
  <2>2. \E more : lapse'[b] = lapse[b] \cup more
    BY <1>11 DEF RxEventCallback, RxIdle, RxHalf, RxRest, Received, Note
  <2>3. TimedOut(b, "testRx") => "late" \in lapse'[b]
    BY <1>11 DEF RxEventCallback, RxIdle, RxHalf, RxRest, Received, Note,
                 Tardy
  <2>4. UNCHANGED <<pc, got, resultSem, MB_ERR>>
    BY <1>11 DEF RxEventCallback
  <2> QED
    BY <2>1, <2>2, <2>3, <2>4 DEF TimedOut
<1>12. CASE ErrorCallback(b)
  BY <1>12 DEF ErrorCallback
<1>13. CASE LoseReply(b)
  BY <1>13 DEF LoseReply
<1> QED
  BY <1>0, <1>1, <1>2, <1>3, <1>4, <1>5, <1>6, <1>7, <1>8, <1>9, <1>10,
     <1>11, <1>12, <1>13 DEF Step, Interrupt

(* So does one of another bus, which can only disturb the status.          *)
LEMMA RecoveryOther ==
  ASSUME TypeOK, NEW c \in Buses, NEW b \in Buses, b # c, RecoveryInv(c),
         \/ \E s \in Sensors : Call(b, s)
         \/ Step(b) \/ Terminate(b) \/ Interrupt(b)
  PROVE  RecoveryInv(c)'
<1> USE DEF TypeOK
<1>1. /\ pc'[c] = pc[c] /\ rx'[c] = rx[c] /\ semRx'[c] = semRx[c]
      /\ got'[c] = got[c] /\ MB_ERR'[c] = MB_ERR[c]
  <2>1. CASE \E s \in Sensors : Call(b, s)
    BY <2>1 DEF Call, Goto
  <2>2. CASE Step(b)
    BY <2>2 DEF Step, Transmit, TransmitRefused, AcquireTx, TestTx,
         StartReceive, AcquireRx, TestRx, Return, Goto, Acquired, AbortReceive
  <2>3. CASE Terminate(b)
    BY <2>3 DEF Terminate, Goto
  <2>4. CASE Interrupt(b)
    BY <2>4 DEF Interrupt, TxCpltCallback, RxEventCallback, RxIdle, RxHalf,
         RxRest, Received, ErrorCallback, LoseReply
  <2> QED
    BY <2>1, <2>2, <2>3, <2>4
<1>2. lapse[c] \subseteq lapse'[c]
  BY LapseStays
<1>3. pc[c] = "testRx" /\ resultSem = got[c] =>
        resultSem' = got[c] \/ "status" \in lapse'[c]
  <2> SUFFICES ASSUME pc[c] = "testRx", resultSem = got[c]
               PROVE  resultSem' = got[c] \/ "status" \in lapse'[c]
    OBVIOUS
  <2>1. ASSUME NEW status, Acquired(b, status)
        PROVE  resultSem' = got[c] \/ "status" \in lapse'[c]
    BY <2>1 DEF Acquired, Overwrites
  <2>2. CASE AcquireTx(b) \/ AcquireRx(b)
    BY <2>1, <2>2 DEF AcquireTx, AcquireRx
  <2>3. CASE ~(AcquireTx(b) \/ AcquireRx(b))
    BY <2>3 DEF Call, Step, Interrupt, Transmit, TransmitRefused,
         TestTx, StartReceive, TestRx, Return, Terminate, TxCpltCallback,
         RxEventCallback, ErrorCallback, LoseReply
  <2> QED
    BY <2>2, <2>3
<1> QED
  BY <1>1, <1>2, <1>3 DEF RecoveryInv, Recoverable

(* A receiver that is behind by an event, or has had the event of half a   *)
(* buffer, catches up in the first request that waits in vain.             *)
THEOREM SilenceAlwaysResynchronises == Spec => []SilenceResynchronises
<1> DEFINE Inv == \A c \in Buses : RecoveryInv(c)
<1>1. Init => Inv
  BY DEF Init, RecoveryInv
<1>2. TypeOK /\ Inv /\ [Next]_vars => Inv'
  <2> SUFFICES ASSUME TypeOK, Inv, [Next]_vars, NEW c \in Buses
               PROVE  RecoveryInv(c)'
    OBVIOUS
  <2>1. CASE UNCHANGED vars
    BY <2>1 DEF vars, RecoveryInv, Recoverable
  <2>2. CASE Next
    <3>1. PICK b \in Buses : \/ \E s \in Sensors : Call(b, s)
                             \/ Step(b) \/ Terminate(b) \/ Interrupt(b)
      BY <2>2 DEF Next
    <3>2. CASE b = c
      BY <3>1, <3>2, RecoveryOwn
    <3>3. CASE b # c
      BY <3>1, <3>3, RecoveryOther
    <3> QED
      BY <3>2, <3>3
  <2> QED
    BY <2>1, <2>2
<1>3. Inv => SilenceResynchronises
  BY DEF RecoveryInv, Recoverable, SilenceResynchronises
<1> QED
  BY <1>1, <1>2, <1>3, TypeCorrect, PTL DEF Spec

-----------------------------------------------------------------------------
(* One task on one bus, no late interrupt and no reply that outlives its   *)
(* request: the transmission and the replies follow the task, however far  *)
(* the receiver is behind.                                                 *)
LEMMA RepliesInit == Init => RepliesAreOurs
<1> SUFFICES ASSUME Init, NEW b \in Buses
             PROVE  TxInStep(b) /\ StatusInStep(b) /\ RepliesInStep(b)
  BY DEF RepliesAreOurs
<1>1. TxInStep(b) /\ StatusInStep(b)
  BY DEF Init, TxInStep, StatusInStep
<1>2. RepliesInStep(b)
  BY DEF Init, RepliesInStep
<1> QED
  BY <1>1, <1>2

(* One step keeps RepliesAreOurs.  The single bus is needed for the global *)
(* status, the punctual interrupts for the token of the transmission, the  *)
(* replies for the line.                                                   *)
LEMMA RepliesStep ==
  ASSUME SingleBus, Punctual, TypeOK, RepliesAreOurs, Next
  PROVE  RepliesAreOurs'
<1> USE ConstantsAssumption
    DEF TypeOK, Goto, TxInStep, StatusInStep, RepliesInStep, Ours
<1>1. PICK b \in Buses : \/ \E s \in Sensors : Call(b, s)
                         \/ Step(b) \/ Terminate(b) \/ Interrupt(b)
  BY DEF Next
<1> SUFFICES (TxInStep(b) /\ StatusInStep(b) /\ RepliesInStep(b))'
  BY DEF SingleBus, RepliesAreOurs
<1>0. TxInStep(b) /\ StatusInStep(b) /\ RepliesInStep(b)
  BY DEF RepliesAreOurs
<1>2. ASSUME NEW s \in Sensors, Call(b, s)
      PROVE  (TxInStep(b) /\ StatusInStep(b) /\ RepliesInStep(b))'
  BY <1>0, <1>2 DEF Call
<1>3. CASE Transmit(b)
  BY <1>0, <1>3 DEF Transmit
<1>4. CASE TransmitRefused(b)
  BY <1>0, <1>4 DEF TransmitRefused, AbortTransmit, ReleaseLine
<1>5. CASE AcquireTx(b)
  BY <1>0, <1>5 DEF AcquireTx, Acquired, TimesOut
<1>6. CASE TestTx(b)
  BY <1>0, <1>6 DEF TestTx, Failed, AbortTransmit, ReleaseLine
<1>7. CASE StartReceive(b)
  BY <1>0, <1>7 DEF StartReceive
<1>8. CASE AcquireRx(b)
  BY <1>0, <1>8 DEF AcquireRx, Acquired
<1>9. CASE TestRx(b)
  BY <1>0, <1>9 DEF TestRx
<1>10. CASE Return(b)
  BY <1>0, <1>10 DEF Return, CheckAnswerCRC, Punctual
<1>11. CASE Terminate(b)
  BY <1>0, <1>11 DEF Terminate, Punctual
<1>12. CASE TxCpltCallback(b)
  BY <1>0, <1>12, ZenonT(60) DEF TxCpltCallback, ReleaseLine, ReleaseToken,
               InTime, TimedOut, Heard, Punctual
<1>13. CASE RxEventCallback(b)
  BY <1>0, <1>13 DEF RxEventCallback, RxIdle, RxHalf, RxRest, Received,
               TakeBytes
<1>14. CASE ErrorCallback(b)
  BY <1>0, <1>14 DEF ErrorCallback, AbortTransmit, ReleaseLine
<1>15. CASE LoseReply(b)
  BY <1>0, <1>15 DEF LoseReply
<1> QED
  BY <1>1, <1>2, <1>3, <1>4, <1>5, <1>6, <1>7, <1>8,
     <1>9, <1>10, <1>11, <1>12, <1>13, <1>14, <1>15 DEF Step, Interrupt

(* The driver, the token of the transmission, the line and the buffer are  *)
(* those of the current request.                                           *)
THEOREM RepliesStayOurs ==
  ASSUME SingleBus, Punctual
  PROVE  Spec => []RepliesAreOurs
<1>1. TypeOK /\ RepliesAreOurs /\ [Next]_vars => RepliesAreOurs'
  <2>1. UNCHANGED vars /\ RepliesAreOurs => RepliesAreOurs'
    BY DEF vars, RepliesAreOurs, TxInStep, StatusInStep, RepliesInStep, Ours
  <2> QED
    BY <2>1, RepliesStep
<1> QED
  BY <1>1, RepliesInit, TypeCorrect, PTL DEF Spec

(* A successful request has the data of the sensor it was addressed to.    *)
THEOREM AnswersAreOurs ==
  ASSUME SingleBus, Punctual
  PROVE  Spec => []AnswerIsOurs
<1>1. RepliesAreOurs => AnswerIsOurs
  BY DEF RepliesAreOurs, RepliesInStep, Ours, AnswerIsOurs
<1> QED
  BY <1>1, RepliesStayOurs, PTL

-----------------------------------------------------------------------------
(* The refinement: Call is Ask, Return is Succeed or Fail, and every other *)
(* step of Master_Request, an interrupt included, is a stutter.            *)
LEMMA AbsInit == Init => Abs!Init
BY DEF Init, Abs!Init, Phase, Data

(* A return to the caller is an answer or a failure of the abstraction.    *)
LEMMA AbsReturn ==
  ASSUME TypeOK, RepliesAreOurs, NEW b \in Buses, Return(b)
  PROVE  Abs!Succeed(b) \/ Abs!Fail(b)
<1> USE ConstantsAssumption DEF TypeOK, Goto
<1>1. /\ Phase[b] = "busy"
      /\ Phase' = [Phase EXCEPT ![b] = "idle"]
      /\ UNCHANGED asked
  BY DEF Return, Phase
<1>2. /\ buf[b] \in {None, Garbled, Ours(b)}
      /\ answer[b] = None
  BY DEF RepliesAreOurs, RepliesInStep, Return
<1>3. CASE MB_ERR[b] = "NO" /\ CheckAnswerCRC(buf[b])
  <2>1. buf[b] = Ours(b)
    BY <1>2, <1>3 DEF CheckAnswerCRC
  <2>2. answer' = [answer EXCEPT ![b] = Ours(b)]
    BY <1>3, <2>1 DEF Return
  <2>3. Ours(b) # None /\ Ours(b).from = asked[b]
    BY <1>3, <2>1 DEF Ours, CheckAnswerCRC
  <2>4. Data' = [Data EXCEPT ![b] = asked[b]]
    BY <2>2, <2>3 DEF Data
  <2> QED
    BY <1>1, <2>4 DEF Abs!Succeed
<1>4. CASE ~(MB_ERR[b] = "NO" /\ CheckAnswerCRC(buf[b]))
  <2>1. UNCHANGED answer
    BY <1>4 DEF Return
  <2> QED
    BY <1>1, <2>1 DEF Abs!Fail, Data
<1> QED
  BY <1>3, <1>4

(* The steps in between change neither the phase nor the answer.           *)
LEMMA AbsStutter ==
  ASSUME TypeOK, NEW b \in Buses,
         Interrupt(b) \/ (Step(b) /\ ~Return(b))
  PROVE  UNCHANGED <<Phase, asked, Data>>
<1>1. UNCHANGED <<asked, answer>>
  BY DEF Step, Interrupt, Transmit, TransmitRefused, AcquireTx, TestTx,
         StartReceive, AcquireRx, TestRx, TxCpltCallback, RxEventCallback,
         ErrorCallback, LoseReply
<1>2. \/ UNCHANGED pc
      \/ \E p \in Points \ {"idle"} : pc[b] # "idle" /\ Goto(b, p)
  BY DEF Step, Interrupt, Transmit, TransmitRefused, AcquireTx, TestTx,
         StartReceive, AcquireRx, TestRx, TxCpltCallback, RxEventCallback,
         ErrorCallback, LoseReply, Points
<1>3. UNCHANGED Phase
  BY <1>2 DEF Phase, Goto, TypeOK
<1> QED
  BY <1>1, <1>3 DEF Data

(* Every step maps to a step or a stutter.                                 *)
LEMMA AbsStep ==
  ASSUME SingleBus, Punctual, TypeOK, RepliesAreOurs, [Next]_vars
  PROVE  [Abs!Next]_<<Phase, asked, Data>>
<1>1. ASSUME NEW b \in Buses, NEW s \in Sensors, Call(b, s)
      PROVE  Abs!Ask(b, s)
  <2>1. Phase[b] = "idle" /\ Phase' = [Phase EXCEPT ![b] = "busy"]
    BY <1>1 DEF Call, Goto, Phase, TypeOK
  <2>2. Data' = [Data EXCEPT ![b] = None]
    BY <1>1 DEF Call, Data, TypeOK
  <2> QED
    BY <1>1, <2>1, <2>2 DEF Call, Abs!Ask
<1>2. CASE UNCHANGED vars
  BY <1>2 DEF vars, Phase, Data
<1>3. CASE Next
  <2>1. PICK b \in Buses : \/ \E s \in Sensors : Call(b, s)
                           \/ Step(b) \/ Terminate(b) \/ Interrupt(b)
    BY <1>3 DEF Next
  <2>2. ~Terminate(b)
    BY DEF Terminate, Punctual
  <2> QED
    BY <1>1, <2>1, <2>2, AbsReturn, AbsStutter DEF Abs!Next
<1> QED
  BY <1>2, <1>3

(* One task on one bus, with interrupts and sensors that keep to their     *)
(* times: Master_Request and its callers' checks implement Transaction.    *)
THEOREM RequestImplementsTransaction ==
  ASSUME SingleBus, Punctual
  PROVE  Spec => Abs!Spec
BY AbsInit, AbsStep, RepliesStayOurs, TypeCorrect, PTL DEF Spec, Abs!Spec
=============================================================================
