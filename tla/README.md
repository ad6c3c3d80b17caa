# A TLA+ model of the defroster firmware and its servers

The repository documents the control system of a defroster: an STM32 firmware
under FreeRTOS (CMSIS-RTOS2) and TouchGFX that polls temperature and humidity
sensors over Modbus RTU, a screen on which a sensor is given a new address and
speed, an earlier version of the firmware, and trials of a TCP server that is to
collect the data. This directory specifies the parts of it that run
concurrently or have to survive failures, checks them with TLC and proves what
matters most about the two versions of the firmware and the servers with TLAPS.

Short names below: `ModBus.cpp`, `Data.cpp`, `Model.cpp`, `Settings5View.cpp`,
`Settings5Presenter.cpp` are in `src/Проект дефростер/Александр/`, `MBtask.c` in
`src/Проект дефростер/Немиров/`, `TcpServer.cpp` in
`src/Протокол TCP-IP/TCPtest/`, `IocpServer.Cpp` in
`src/Протокол TCP-IP/TCPtest3/Server/`.

## 1. The system

### Inventory

| Component | State | Operations | What is hard | What makes it correct |
|---|---|---|---|---|
| **Modbus master request**: `Master_Request`, its HAL callbacks, its callers `Master_Read_1` and `Master_RW` (ModBus.cpp) | per bus: Tx/Rx buffer, `MB_ERR`, UART state, DE pin, two binary semaphores; one `resultSem` for all | transmit, wait for the end of it, receive, wait for the answer, check it, error paths | three interrupts race two timed waits, and half a buffer is an event too; two tasks share a status; the task may be killed; a sensor answers late, garbled or never | a request ends, with the data of the sensor that was asked or with an error; what makes it leave something behind is known, and does not last |
| **Sensor polling**: task `ReadData`, `DataTimerFunc`, `Sensor` (Data.cpp, ModBus.cpp), T and H in the Model (Model.cpp) | `TimeFromStart`, the ring of `TQ` measures, four counters and `Active` per sensor, an event flag, value and changed-flag per sensor | start-up with retries, a cycle per tick, record, publish, display | the timer ticks during a cycle; counter and ring wrap around; the display reads between two writes | ring and Model have the last measures, no change of the Model is lost |
| **Sensor programming**: task `ProgrammingSens` (`ProgrammingSensor`, `ScanSensor`, ModBus.cpp) | bus speed, `SensPortNumber`, `SensBaudRateIndex`, retry counter, request in the Model | scan every speed, show what was found, write address then speed, retry | the second of two writes fails after the first changed the sensor; the screen changes the Model between any two steps | task, Model and sensor agree; a request ends |
| **Screen Settings5** (Settings5View.cpp, Settings5Presenter.cpp) | chosen type, speed, address, open wheel, visibility of the write button, what is shown | open (creates the task), close (kills it), wheels with confirm and cancel, write, tick | kills a task anywhere; Model survives the view | shows what the Model has; offers a write only when there is a sensor |
| **Modbus CRC and frames** (MBtask.c; the same CRC in ModBus.cpp) | none | table-driven and bitwise CRC-16, request, check of an answer, reply | bounds of registers and buffer, byte orders | the two agree; a wrong bit is noticed; a reply fits and has what was asked |
| **First firmware** (MBtask.c) | per UART a receiver, a transmitter, a driver pin, a queue of one item and a buffer; `Active` per sensor; the registers | master task: poll with three tries; slave task: wait for a frame, reply | an answer races the 10 ms of a try; one task aborts the UART of the other; a half-buffer event ends no reception | a task's receiver is armed exactly while it waits, with no old item; a register gets values of the sensor asked; the slave never goes deaf |
| **Start-up of the first firmware** (main.c) | peripherals | generated initialisation | nothing | - |
| **TCP server** (TcpServer.cpp, TcpServerClient.cpp) | status, client list, a socket and status per client, the mutex of the list and one per client | start, stop, accept, wait for data, disconnect | two loops and a detached thread per event share the list; a read takes what there is of a message | a client is connected, served and freed once; stop returns |
| **IOCP server** (IocpServer.Cpp) | completion port, listening socket, list of contexts, `g_bEndServer`, `g_bRestart`, thread handles; a context and an operation per client | set-up, accept, echo, departure, CTRL-C / CTRL-BREAK, cleanup, restart | contexts without locks, used and freed by several threads; partial sends; a cleanup with a deadline; a list unlinked in any order; a console handler that changes two globals one by one | a context has one owner; it is freed when nobody uses it; the peer gets back what it sent; cleanup and restart end |
| **Simple servers** (SServer.cpp, SClient.cpp, TCPtest2) | a socket | one blocking accept, one client | nothing | - |
| **Thread_Queue.cpp** | - | a stub | - | - |
| **Touch and display library** (`src/Оборудование/...`) | third-party driver, not used by the firmware here | | | |

### How the parts interact

    one-second timer --event flag--> ReadData --Master_Request--> bus huart5 -- sensors
                                        |                 |
                                        | value, flag     | resultSem (shared!)
                                        v                 |
             display tick <-------- Model <--> ProgrammingSens --Master_Request--> bus huart4 -- one sensor
                  |                   ^              ^
                  v                   | request      | created / killed
             Settings5 (view, presenter) ------------+

`ReadData` and `ProgrammingSens` never call each other; they meet in the
scheduler (they share `resultSem`) and in the Model. A TouchGFX view handles
clicks and ticks in the GUI task and talks to the other tasks through the Model
alone: values and `Flag...` words without a lock. In the first firmware the two
tasks are joined by the registers (the master task writes what the slave task
sends) and, by a slip of the code, by `huart7`, which the slave task aborts. The
servers are programs of their own.

### Hazards

The list in PROJECT.json names what is hard to test at the line where it bites,
and the properties that would notice. A few have a note instead: the model has
the behaviour, but the code and its comments promise nothing that it breaks, or
the data concerned are abstracted (section 6).

## 2. Modules

| Module | Models | Uses |
|---|---|---|
| `Transaction` | what the callers of `Master_Request` rely on (abstract) | - |
| `MasterRequest` | `Master_Request`, callbacks, callers, kill | `Transaction` (INSTANCE, refinement) |
| `MasterRequest_proofs` | theorems about it | EXTENDS `MasterRequest` |
| `ReadData` | polling task, timer, ring, Model T/H | - |
| `ReadData_proofs` | theorems about it | EXTENDS `ReadData` |
| `ProgSensor` | programming task and the sensor | - |
| `Settings5` | the screen with that task | EXTENDS `ProgSensor` |
| `Settings5_proofs` | theorems about both | EXTENDS `Settings5` |
| `Sessions` | what the handlers of the TCP server rely on (abstract) | - |
| `TcpServer` | the TCP server: owner, acceptor, poll, detached threads | `Sessions` (INSTANCE, refinement) |
| `TcpServer_proofs` | theorems about it | EXTENDS `TcpServer` |
| `EchoService` | what the peers of an echo server rely on (abstract) | - |
| `IocpServer` | the echo server on an I/O completion port: main thread, workers, console handler | `EchoService` (INSTANCE, refinement) |
| `IocpServer_proofs` | the port, its workers and who holds a context | EXTENDS `IocpServer` |
| `IocpEcho_proofs` | types, what is echoed, owners of a context | EXTENDS `IocpServer_proofs` |
| `IocpService_proofs` | the refinement of `EchoService` | EXTENDS `IocpEcho_proofs` |
| `MBtask` | master and slave task of the first firmware, interrupts, both lines | - |
| `MBtask_proofs` | theorems about it | EXTENDS `MBtask` |
| `ModbusFrames` | its frames, byte by byte: both CRCs, request, check, reply | - |
| `MCMBtask` | `MBtask` with the bytes behind its abstract frames | EXTENDS `MBtask`, `ModbusFrames` |
| `MCMasterRequest`, `MCReadData`, `MCSettings5`, `MCTcpServer`, `MCIocpServer` | values of the constants, statements quoted from comments | EXTEND the above |

`ReadData` and `ProgSensor` take a request as one step with exactly the outcomes
`Transaction` allows (data of the sensor asked, or an error): `MasterRequest`
justifies that under the conditions of `RequestPunctual`, which include requests that are
behind; `RequestFaulty` and `RequestSharedStatus` show where the abstraction ends.

Operators whose comment begins "Mutant of" are used by no action. Each is a
plausible slip in the definition after it, and the properties are known to notice
it: for every property of a run, PROJECT.json names a mutant that violates it.

### MasterRequest

A bus is one `MB_Active_t`. An action is the code between two points where
another task or an interrupt can run and change what the request still reads:

| Action | Code (ModBus.cpp) |
|---|---|
| `Call` | `Master_Read_1` / `Master_RW` clear both buffers and write the frame; the driver is turned on |
| `Transmit`, `TransmitRefused` | `HAL_UART_Transmit_DMA` and the branch for its refusal |
| `AcquireTx`, `TestTx` | `resultSem = osSemaphoreAcquire(..., 200)` for the transmission; the test of it |
| `StartReceive` | `HAL_UARTEx_ReceiveToIdle_DMA` and the branch for its refusal |
| `AcquireRx`, `TestRx` | the second wait; `osDelay(1)`; the test of the global |
| `Return` | the caller's check of the status and of the answer (`CheckAnswerCRC`) |
| `Terminate` | `osThreadTerminate` of the programming task |
| `TxCpltCallback`, `ErrorCallback` | the HAL callbacks of a transmission and of an error |
| `RxEventCallback` | the HAL callback of a reception: an idle line ends it (`RxIdle`), half a buffer does not (`RxHalf`), an idle line or a full buffer then does (`RxRest`); each releases a token, for `Size` is not looked at |
| `LoseReply` | an answer nobody listens to |

The frame is abstracted to who was asked; a reply to its sender and whether it
answers the current request (`fresh`, a ghost). An answer the CRC rejects is
`Garbled`. `got` is the register the call returned in and `resultSem` the global:
the test right after the call may read either, the one after `osDelay` can only
read the global. `Transmit` and `StartReceive` may refuse at any time, for the
HAL also refuses when the DMA does not start.

The code has several ways to lose step with the UART, and prevents none of them. The
ghost `lapse` records which of them a request has met, and is empty again when a
request begins with nothing left over: `"half"`, the event of half a buffer; `"late"`,
an interrupt between a deadline and the abort after it; `"killed"`; `"status"`, the
other task's status in `resultSem`; `"behind"`, what the request before left. A
property that says "without a lapse" therefore says that there is no sixth way.

### ReadData

`InitRead`, `RetryRead`, `Decide`, `InitT`, `InitFlagT` are `MB_Master_Init`;
`StartCycle`, `CycleRead`, `CycleSkip`, `PublishT`, `FlagT`, `PublishH`, `FlagH`
the loop of `ReadDataFunc`; `DataTimerFunc` the timer; `Present` a tick of the
display. The value and the flag of `Model::setCurrentVal_T/H` are two steps, and
the display takes the flag and the value in one: the GUI task reads them in that
order, so a change between them only makes it read a newer value and finds the
flag set again. `Sensor_Read` records 0 for a failed request, as the code does;
`CounterOf` is its switch over the outcomes of `Master_Request`, with the branch that counts
nothing.
`history` is a ghost that no action reads.

### ProgSensor and Settings5

The task's actions are the accesses of the Model and the requests:
`SetAddressPR`, `SetBaudRatePR`, `SetFlagPR` (`Model::setCurrentVal_PR`, three
writes), `Switch` and `While` (`ProgrammingSensor`), `Scan` (one speed of
`ScanSensor`), `Test`, `ReadAddress`, `WriteAddress`, `WriteSpeed` (the writing
loop) and `Killed`. Of the screen: `setupScreen`, `tearDownScreen`, `OpenWheel`,
`Select`, `BTNConfirmClicked`, `BTNCancelClicked`, `BTNWriteClicked`, and the tick
in two parts, `Val_Addr_UpdateView` and `Val_BaudRate_UpdateView`.

Assumed of what the repository does not contain: the sensor hears a request at
its own speed and to its address or to 255; it may refuse a value, and answers
with what its register then holds; the request or the answer may be lost. Its
speed and address stay among those the user can choose from. A handler of the
generated `Settings5ViewBase` makes the write button hidden in a new view, and its
`setupScreen`, which confirm and cancel also call, changes nothing else. While
one wheel is open no other is. A killed task's locals return to their initial
values, which nothing reads before they are set.

### TcpServer

`Start`, `Stop` and `AcceptorJoined` are the owner (`stop` waits in `joinLoop` for the
acceptor, then for the poll); `Accept`, `Add("acceptor")` and `AcceptLoop` are
`handlingAcceptLoop`, `ConnectTo` and `Add("owner")` are `connectTo`; `BeginPass`, `Look`,
`Load`, `Recv` and `EndPass` are a pass of `waitingDataLoop` with
`Client::loadData`; `DataLock` and `DataHandled` the detached thread of a message;
`Release`, `DisconnectHndl`, `Erase` and `LeaveAgain` the detached threads of a
departure; `DisconnectBy` what `disconnectBy`, `disconnectAll` and the two `sendData` do
at one node of their walk; `Send` and `Leave` the peer.

The record `client[c]` is a connection with its node in the list, its fields, the
threads that work for it and the bytes under way. The order of the nodes is left
out: the poll visits those of its pass in any order. A message is four pieces, two of
its size and two of its data, and each `recv` takes those that are there, up to what it
asked for (`Taken`): a short read is in the model, for the size, whose other bytes are then
not initialised, and for the data, the rest of which is read as the next size. A number
read out of step is any number; with 0 there is no message. `build` chooses
between the expressions of `WIN()` and `NIX()`: on POSIX the `recv` of the data waits until
there is something (`MayReturn`) and `accept` is not ended by closing its socket; on
Windows the socket is still non-blocking when the data are read, and `accept` ends.

Undefined behaviour ends the program (`Crash`): a thread that comes back to its
reference or iterator and finds a null pointer or an erased node, and, as one of
two outcomes, an `erase` while another thread uses the list. The properties speak of
the program as long as it lives; that it may not is what `TcpServerTwice` and the
hazards say. A connection accepted in the moment the server closes is dropped
without being closed; the model merges `accept` with the test after it and does not
show that.

`Sessions` is what the author of the handlers may rely on while the program lives: a
connection has one session, which begins with the handler of the connection; its
messages are handled one at a time, never more of them whole than the peer sent; it
ends with the handler of the departure, once the connection has ended and no message
is being handled. `Session` maps the server to it: four pieces are a message, a message
is being handled while its thread is inside `access_mtx`, a crash breaks all sessions
off. The fields `stage` and `handled` of a connection are ghosts that no guard reads.

### IocpServer

`Restart` to `EndRun` are one turn of `while (g_bRestart)` in `main`: `ResetEndServer`, `CreatePort`,
`CreateThreads`, `CreateSocket`, `Bind`, then the accept loop `Accept` / `AcceptFails`,
`UpdateCompletionPort`, `CheckEndServer`, `PostRecv`, then the `__finally` block
`BeginCleanup`, `WaitForWorkers`, `CtxtListFree` (`EnterListFree`, `CloseNext`, `FreeNext`,
`LeaveListFree`) and `EndRun`. `TakePacket`, `TakeNull`, `Abandoned`, `TestEndServer`, `Serve`,
`CloseClient`, `CloseRaises`, `Log` are `WorkerThread`. `ConsoleEvent`, `TakeListen`, `ClearListen`,
`SetEndServer`, `CloseListen` are `CtrlHandler`, its last statements one by one. `Complete` is the system finishing an operation, `Peer` the other
end.

Every call that can fail does, each where it is called. That includes
`EnterCriticalSection`, whose exceptions the code catches (`EnterMayFail`): then `CtxtListAddTo`
adds nothing (754-762), `CloseClient` closes and frees nothing (656-664), `CtxtListFree` walks
no list (883-893). It does not in `CtxtListDeleteFrom` (801-809): its only caller is
`CloseClient`, which is in the section already, and an entry by the owner neither waits
nor allocates. `client[c]` is a connection,
its `PER_SOCKET_CONTEXT`, the one `PER_IO_CONTEXT` it has, and the operation under
way; bytes are numbered by their peer, so that an echo can be compared with what was
sent. `worker` is indexed by slot and run, for a worker of an earlier run may live
on when the wait of one second was too short. `pCtxtBack` and `pCtxtForward` are kept
as the code keeps them, and the head of the list with them.

A packet is taken from the port in any order; a failed wait stores no key, so the key
of the last packet is still in the variable (`Abandoned`). Using a pointer to a
freed context, or to a freed neighbour in the list, is undefined and ends the program
(`Crash`); so does the freed pointer that `CtxtAllocate` returns when its second
allocation fails. Properties speak of the program as long as it lives; `main.late`
says that a cleanup went on while a worker had not ended, and `main.left` that the run
of such a cleanup is over, its port closed. Both are ghosts. The three statements 356-358
are three steps because they matter: an event that takes a socket not yet made, and
sets `g_bEndServer` after `main` has tested it for a new client, leaves a server that accepts
while its workers end (`EventLost`).

`EchoService` is what a peer may rely on: its connection is made once and ends once, and
what comes back only grows, by the next bytes it sent. `State`, `Said` and `Returned` map
the server to it: a connection is its socket, and what was said and returned counts as
long as that is open.

### MBtask and ModbusFrames

`NextSensor` to `Write1` are `Start_MB_Master_Task` with `MB_Master_Request`: `Fill` a try,
`Transmit`, `WaitSent`, `StartReceive`, `TakeItem` or `TimesOut`, `Abort`, then
`Result` (the start-up's test of activity, or the check of the frame) and the two
registers one by one. `ArmSlave`, `AbortOther`, `TakeRequest`, `Handle`, `Send`, `Sent` are
`Start_MB_Slave_Task`. `TxCplt`, `AnswerHeard`, `ShortFrame`, `LongFrame`, `RestOfFrame`,
`LineError`, `DmaError7`, `DmaError5` are the callbacks, the last three `HAL_UART_ErrorCallback`
with the receiver armed or during a transmission; an answer can be lost, late until the next delay of a
second, garbled, or end with a line error.

A frame is its kind, its sensor and its number of registers. `slip` is a ghost that no
action reads: it records that a frame of half a buffer or more was heard by the slave,
that an error met the transmission of a reply, whose item the slave then takes for a
frame, or that a reception of the master ended when it was no longer waiting for it.

Assumptions, where the source leaves a choice. `MB_TransactionHandler` tests `len`,
which is not declared: it is taken for `slave_rec_byte_count`, which nothing else
reads. Both lines are half duplex, so who drives a line hears nothing. A HAL call
is one step. No sensor answers more than a second late. An abort does not turn the
driver off, as in the code.

`ModbusFrames` has the functions of the same file over bytes. `MCMBtask` brings the two
together: `FramesAreSound` says that the test of the bytes (`CheckAnswer`) gives for every
frame in the master's buffer what `Valid` of `MBtask` gives.

## 3. Runs

| Run | Instance | Shows |
|---|---|---|
| `RequestPunctual` | one bus, three sensors, no late interrupt, no reply that outlives its request; events of half a buffer, so that requests fall behind | what is on the line and in the buffer is of the request under way (`RepliesAreOurs`), so a request returns data of the sensor asked (`AnswerIsOurs`) and implements `Transaction`, liveness included (`ImplementsTransaction`), however far its receiver is behind |
| `RequestFaulty` | one bus whose task can be killed, two sensors, late interrupts and replies, events of half a buffer | the line driver is always released (`DriverReleased`) and every request returns (`EveryRequestReturns`); without a lapse a request is in step (`InStep`), leaves nothing behind (`QuiescentBetweenRequests`) and reports success only after a reception (`SuccessMeansReception`); a receiver that is behind is back in step after one request that waits in vain (`SilenceResynchronises`) |
| `ReadDataCycle` | a readable sensor and one of another type, ring of 2, counters modulo 2, time modulo 4 | ring, Model, activity and service of every tick |
| `Settings5Writes` | addresses 1 and 2, two speeds, the user wants address 2 and speed 1, retry counter modulo 5 | the display is current, the two writes meet the same sensor, success means the sensor has what the task knows, a request ends |
| `TcpServerThreads` | one accepted client that sends a message of four pieces and one the owner connects to, both builds, short reads | the server implements `Sessions` (`ImplementsSessions`): the handlers of a client are called in order, one message at a time, none during or after its departure, none of a whole message that was not sent; a departed client is erased and freed (`DepartureIsHandled`), `stop` gets past the acceptor (`AcceptorEnds`), the list is locked during a pass and only then (in `TypeOK`) |
| `IocpServerEcho` | two connections, one of which sends two bytes, two workers, buffers of two bytes, failed entries of the critical section, no console event | one owner per context (`OneOwner`), none freed in use (`HeldContextIsLive`) or with an operation under way (`NoFreeUnderway`), the peer gets back no more than it sent and that in order (`EchoIsFaithful`), and the server implements `EchoService` (`ImplementsEcho`) |
| `IocpServerRestart` | three connections, one worker, one event that may be CTRL-BREAK, so up to two runs | who has gone is freed (`DepartedIsFreed`), the walk of a cleanup frees the list (`ListedIsFreed`), a cleanup ends (`CleanupEnds`), an event that finds the listening socket ends the run (`EventEndsRun`) |
| `FirstFirmware` | two sensors; answers, long and short frames, errors at any time; frames over bounded bytes | the slave never goes deaf (`SlaveNeverDeaf`), the tasks stay in step (`TasksInStep`), registers get values of the sensor asked (`ValuesAreTheAskedSensors`), the poll comes round (`PollingGoesOn`), frames and CRCs are right (`FramesAreSound`) |

Four runs end with a counterexample. Each checks what a comment of the code says:

| Run | What the trace shows |
|---|---|
| `RequestSharedStatus` | both tasks wait for an answer; one times out, the other receives; each tests after `osDelay(1)` what the other stored in `resultSem`. A timed-out request returns `MB_ERROR_NO`, or a received one is aborted. |
| `Settings5LostSensor` | a press while the last scan fails starts a write at the last speed of the scan and to an address found earlier. |
| `TcpServerTwice` | a client disconnects while the handler of its message runs; two passes of the poll start two threads for the departure. The second will use a null pointer or an erased node. |
| `IocpServerList` | two clients; the one that connected last leaves: the head of the list keeps pointing to its freed context, through which the next client or the cleanup will go. |

The findings in PROJECT.json quote the comment and say what follows.

### Bounds, and why they are enough

* `MasterRequest` has no counters: its state is finite for any sets. One bus is
  the whole system for every property that does not concern `resultSem`, the only
  thing the buses share; two buses are what it takes to break it, and the run
  that does uses them. So the cause `"status"` does not occur in `RequestFaulty`; the
  theorems about lapses are for any number of buses and include it. Three sensors give
  an asked one, an earlier one and one that is neither.
* `RequestPunctual` is about a bus whose interrupts meet their deadlines and whose replies
  come before their request returns or not at all (`LateReplies` = FALSE). A request may
  return early, for noise or an earlier event can end its wait: that the reply then finds
  nobody is part of the assumption, not a fact about the code. With it, no reply is taken
  by a request it does not answer, although the code compares no address.
* `ReadDataCycle`: the ring wraps after two cycles and the time after four, so the
  runs reach every alignment of slot and counter. The ring relies on the range of
  `TimeFromStart` (2^32) being a multiple of `TQ` (16), which it is: the assumption
  `TimeRange % TQ = 0` says so, and with 2 and 4 the instance keeps it. Counters
  of range 2 wrap at every second count. One sensor that is read and one that is not exercise both
  branches of every loop. Two measures that share T and differ in H distinguish
  the two flags.
* `Settings5Writes`: two speeds are the least at which a scan can miss and hit
  and a write can move the sensor out of reach; two addresses give a right and a
  wrong one. The retry counter is compared with 3 and is a `uint8_t`; a range of 5
  keeps the value beyond 3 and the wrap. Larger choices of the user (all speeds,
  all three types) were checked with the same results and take minutes.

* `TcpServerThreads`: two clients are the least at which the poll stands on one node
  while another is erased and at which two departures race; one message of four
  pieces lets it be whole, cut off by a departure, cut in its size or its data by a read
  that comes too early, and read out of step after that. The second peer sends nothing, which keeps the run short: the threads of
  messages of different clients share nothing but the list.
* `IocpServerEcho`: two clients are the least at which the list has neighbours, at
  which two workers meet in the critical section, and at which one client's departure
  touches the other's context; two bytes and a buffer of two are the least at which a
  send can be partial and a read can be split. The second peer sends nothing but may
  close or reset, and connections come in either order. Two workers
  are the least that can race. Without console events the cleanup begins with a
  failure of `accept` or of a set-up call, which may come at any time.
* `IocpServerRestart`: one event makes two runs, with workers of the first alive in the
  second. Three clients are the least at which the departure of the first takes another
  than the first off the list (822-828), and with one worker every order of their packets
  is still there. The whole life of three clients is too long for TLC under liveness: the
  run begins either with the start of the server, and the third client alone, or where three
  have connected (`ThreeConnected`, a state that the server reaches), of whom the first and
  the third may leave. That every entry of the critical section succeeds is an assumption of
  this run, for a client whose close was skipped is never freed.
* `FirstFirmware`: two sensors give one asked and one that is late; the theorems hold
  for any number. The bytes: every message of one byte and those of up to four from
  five bytes for the CRCs (the table has 256 entries, all used); requests at, before
  and beyond every bound of the reply (0, 11, 126, 127, 65535 registers), each with
  every single wrong bit.

### Fairness

`FairSpec` assumes weak fairness of the task's own steps and of nothing else: the
scheduler runs a task that is ready and the tick ends every timed wait
(`osSemaphoreAcquire` with 200 ms, `osDelay`). It is not assumed that an interrupt
comes, that a sensor answers, that the user clicks or that the display ticks.
For the
TCP server each thread is run when it can, a thread that waits for `client_mutex` gets it
in one of the 50 ms sleeps of the poll (strong fairness of `Add("acceptor")`), and a
peer on which the poll waits (`WaitedFor`) sends something or leaves; without the last
the poll waits for ever on POSIX, with the mutex held, which is a hazard of its own. It
may also wait for a peer that is between two messages, when a short read has put the
stream out of step.
Nor does the timer have to tick: `TickIsServed` speaks of a tick that came.
For the IOCP server each thread runs when it can, an operation that can complete
does, and `WSAAccept` fails when its socket was closed; nothing is assumed of new
connections, peers and the console. For the first firmware each of the two tasks, of
equal priority, runs when it can, and what is transmitted gets out.

## 4. Proofs

`MasterRequest_proofs` holds, for any sets `Buses` and `Sensors`:

* without further assumptions, with half-buffer events, late interrupts and replies, killed
  tasks and a shared status: `TypeCorrect` (in particular a semaphore never has two
  tokens), `DriverAlwaysReleased` (inductive with it), `StaysInStep`, from which
  `QuiescentWithoutLapse` and `SuccessAlwaysMeansReception` follow, and
  `SilenceAlwaysResynchronises`.
* for one bus (`SingleBus`) with punctual interrupts and replies (`Punctual`), half-buffer
  events and requests that are behind included: `RepliesStayOurs`, from which
  `AnswersAreOurs` follows, and `RequestImplementsTransaction` (`Spec => Abs!Spec`; the fairness
  of `Transaction` is left to TLC).

The argument. What a request leaves behind and whether its success is a reception is not
inductive: it depends on what was armed in the UART three actions before. `InStep` adds,
for every point of a task without a lapse, which transfers may be active (`TxInStep`,
`RxInStep`: a token exists only while the task waits for it, and when it does the transfer
is over and the buffer filled) and that the global status is the task's own
(`StatusInStep`). Each action preserves each part or notes a cause. A timed-out wait is
followed by an abort: only an interrupt between the two can leave a token, which is the
cause `"late"`. The cause `"status"` is what makes `StatusInStep` hold with many buses.

The second group cannot rest on `RxInStep`, which half a buffer breaks. It rests on the
transmission alone: it is over before the next request is made (`TxInStep`, `StatusInStep`,
with one bus), so that only the present request is answered, and the line is clear when a
request is made (`RepliesInStep`); a receiver that is behind then only takes the bytes of
this request, or none. The refinement maps `Return` to `Succeed` or `Fail`, `Call` to `Ask`
and every other action to a stutter.

`MBtask_proofs` holds, for any number of sensors (`SensorsAssumption`: at least one, and
`None` and `Crc` are none of them):

* `TypeCorrect`, and `SlaveIsNeverDeaf`, which is inductive with it: every event that
  ends the slave's reception leaves an item, and the slave takes an item only to arm
  the receiver again.
* `BothStayInStep`. `SlaveInStep` alone is not inductive: `SlaveInv` adds that an item is
  there only while the slave waits, and that the rest of a frame is due only when its
  first half was heard. Given it, the slave never finds its receiver armed, so
  never aborts `huart7`, and `MasterInStep` is preserved: a reception ends in the wait
  it belongs to, or the abort after the wait ends it. An error during a transmission of
  the master leaves an item, which the same try takes for the end of its wait and fails;
  one during a reply of the slave is a slip.
* `WritesAreOfTheAskedSensor`, an action property. `WholeInv` adds what keeps the CRC of a
  start-up answer out of a register: while the master polls, every answer due,
  sent for or in its buffer is of two registers, since those for one are gone after
  the first delay, and between the check of a frame and the second write the buffer is
  safe, since the receiver is not armed (`MasterInStep`).

`ReadData_proofs` holds, for any number of sensors and their types, any length of the
ring and any ranges of the counters (`ConstantsAssumption`; of the numbers it says only
that `TQ` divides `TimeRange`, which is what makes the wrap-around of `TimeFromStart`
harmless: 2^32 and a power of two), every invariant that `ReadDataCycle` checks:

* `TypeCorrect`, inductive with `CountRX <= var`, and `AnnouncedAlways`, inductive with it.
* `StableAlways`. `StableInv` says for each point of `MB_Master_Init` what is decided, what
  is being decided (`failed = var - CountRX`) and what is still untouched.
* `ModelAlways` and `RingAlways` speak of the wait between cycles. `ModelInv` and `RingInv`
  say of any moment which sensors of the cycle are done. For the ring: in the start
  every tick is 0; afterwards the entries of the ticks before the present one are always
  there, and that of the present tick for the sensors already asked. A measure
  overwrites none of them, for the slots of `TQ` successive ticks differ (`TickSlots`, from
  `ModMod` and `ModDiffers`).

`Settings5_proofs` holds, for any addresses, speeds, choices of the user and range of
the retry counter above 4:

* `TypeCorrect`. That only an address of a sensor is ever written is not seen at the
  write: `ChosenIsWritten` follows it from the visible button through the Model to `WR`, across
  a screen that is closed and opened again in between.
* `AgreeAlways` and, from it, `SuccessAlways` (an action property; that a failed try
  moves the retry counter, also when it wraps, is `RetryFacts`).
* `DisplayAlways`, inductive with `HalfwayIsKnown`: what of the pair is set between the steps of
  `setCurrentVal_PR`, and that the address read in the first half of a tick is still the
  Model's in the second, or the flag is up again.

`TcpServer_proofs` holds, for any clients, either build and any number of messages:

* `TypeCorrect`, inductive with `ThreadInv`: a client that is being added is not in the
  list yet, the acceptor and the owner never add the same, and a server that may be
  started has no poll, so that a pass has the list for itself.
* `ServerImplementsSessions` (`Spec => Abstract!Spec`), crashes included. `Connected` maps to
  `Connect`, every fourth piece of a peer to `Send`, `DisconnectBy` and `Leave` to `End`,
  `DataLock` to `BeginWhole` or `BeginBroken`, `DataHandled` to `Finish`, `DisconnectHndl` to
  `Depart`, a crash to `BreakOff` and the rest to a stutter. Three parts of the invariant
  are needed. `NodeInv` lists the seven combinations of node, departure and last
  handler that occur, and says that a handler of a message is inside `access_mtx` only
  while the node has its client; the departure takes the same mutex before it releases
  the client. `CountInv` is the account of the pieces (`Told`): four times the messages
  handled as whole or waiting for it, and two for a size whose data are due, make no more
  than the pieces read, which are no more than those sent (`StreamInv`), so a thread that waits with a whole message has one that
  no handler was called for. It holds of a stream out of step too, after a short read or,
  on Windows, one too early: that loses messages and makes none. And a departure is started only of a
  connection that has ended.
* `HandlersAlwaysInOrder`, the action property `HandlersInOrder`, from the refinement: every
  step of `Sessions` but the one that breaks off keeps the order.

Three modules are about the IOCP server, for any connections, workers, buffers and
console events, with failed entries of the critical section or without (`NullAssumption`: a null pointer is no connection). Each rests on the
one before.

* `IocpServer_proofs`: `HeldAlwaysLive`, as long as no cleanup gave up its wait for the
  workers (`main.late`; the code reports the failure of the wait, `IocpServer.Cpp:253`, and
  frees the list all the same). The invariant `PortInv` ties a context to the port of its
  run (`ContextsInv`), each worker to that port while it works and to nothing before and
  after its run (`WorkersInv`), and keeps the key of a connection from everybody until its
  first read is posted (`KeysInv`); so a packet has one taker, and when the list is freed
  nobody holds a context of the run or of an earlier one.
* `IocpEcho_proofs`: `TypeCorrect` and `EchoAlwaysFaithful`, late cleanups included. Neither is
  inductive. `EchoInv` keeps an account of each context (`Account`): of the bytes
  received (`got`), those of the buffer (`total`), those counted as sent (`nsent`) and those
  returned; n bytes are moved but not looked at yet. The n are in the result of the
  operation, then in the packet, then in the variable of the worker that took it
  (`Takes`), and there is one such worker, also after a late cleanup: a worker that takes
  up an old key does so after a failed wait, and a failed wait serves nothing. The
  bounds of the counters, which `TypeOK` states, are part of it; the rest of `TypeOK` is
  `RunsInv`: each run but the first has a CTRL-BREAK of its own. No run repeats `TypeOK` of
  this module: the theorem says it for all of them.
* Also `OneOwnerAlways` and `UnderwayAlwaysLive`, to the end of a run whose cleanup gave up
  its wait (`main.left`). `OwnersInv` says what is left of `PortInv` in such a cleanup: the
  port is still there, so that workers take packets, one each (`Owned`), and `CtxtListFree`
  waits for each operation under way (`Underway`). With the port goes the first part: the
  wait of a worker that is left then fails and stores no key (`IocpServer.Cpp:499-504`), and
  the worker takes up the context of its last packet (523). The cleanup need not have freed
  that one: when the first of three clients leaves, the last is no longer on the list
  (`HeadWithout`, 822-828), and after CTRL-BREAK its peer and its operation are still there.
  So the two invariants end at `main.left` in the code as well as in the proof.
* `IocpService_proofs`: `ServerImplementsEcho` (`Spec => Service!Spec`), late cleanups and
  crashes included. `Accept` maps to `Connect`, a peer that sends to `Say`, `CompleteWrite` to
  `Return`, whatever closes an open socket (`CloseNext`, `EndRun`, `CloseClient`, a first read
  that fails) to `Close`, a crash to `Fail` and the rest to a stutter. `EchoInv` makes
  what is returned the next bytes; `MadeInv`, that the list and the main thread lead
  only to contexts that were made, keeps a connection from ending before it began.

Constants of `MasterRequest`: `ConstantsAssumption` says that `None` and `Garbled` are no replies and
that the two switches are Booleans.

## 5. Only model-checked

Liveness under fairness (`EveryRequestReturns`, the fairness part of
`ImplementsTransaction`, `TickIsServed`, `RequestEnds`, `DepartureIsHandled`,
`AcceptorEnds`, `DepartedIsFreed`, `ListedIsFreed`, `CleanupEnds`, `EventEndsRun`,
`PollingGoesOn`): the prover does not reach it, nor ENABLED. `FramesAreSound`: what the
folds over bytes compute for every input would take induction over data, and the bit
operations of the CRC are out of reach of a module with theorems. Every other invariant
and action property of the passing runs is a theorem.

`DepartedIsFreed` has two exceptions, which the code makes. A context that the departure of
others took off the list (822-828) is freed when its client leaves in the same run; if
the run ends first, its port is closed with its operation under way, and nothing
frees it. And all wait as long as an event is lost (`EventLost`).

## 6. Not modelled

* Wording, drawing, text buffers and layout of the screen; the bytes of a frame in
  the later firmware (its CRC is that of `ModbusFrames`).
* Preemption inside a handler of the GUI, except between the two reads of the tick.
* The counters of `Master_Read_1` are in `ReadData`, switch and default branch alike, but
  nothing is claimed of their sums.
* `Master_Request` inside `ReadData` and `ProgSensor` (it is one step there), so the
  effects of a lost step on the values are shown by `MasterRequest` alone.
* The LED task of the first firmware, which changes registers at random for a test of
  the display, and its counters of answers, which nothing reads; what a Modbus master
  on the slave's line makes of a reply.
* The command line and messages of the IOCP server, and its sample client
  `useSocket.cpp`.
* Generated start-up code, the touch library (third-party, not used by the firmware),
  the sample servers and clients, the empty `Thread_Queue.cpp`: no state worth a model.

## 7. What could follow

* Properties for behaviours that the models have and no comment forbids: the torn pair
  of two presses, the lost second press, a tick of the timer that is merged, a request
  left in the Model when the screen is closed, the registers of two sensors in one
  reply, a late reply taken for another sensor's, a console event that is lost.
