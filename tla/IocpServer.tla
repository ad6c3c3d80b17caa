------------------------------ MODULE IocpServer ------------------------------
(***************************************************************************)
(* The echo server on an I/O completion port (IocpServer.Cpp): the main    *)
(* thread that accepts clients, cleans up and starts again; the worker     *)
(* threads that take completion packets from the port; the handler of      *)
(* CTRL-C and CTRL-BREAK.                                                  *)
(*                                                                         *)
(* Nothing guards a context but that it has one operation under way: who   *)
(* takes the packet of that operation owns it.  The list of contexts is    *)
(* guarded by a critical section.  A step through a pointer to a freed     *)
(* context is undefined: it ends the program here.                         *)
(***************************************************************************)
EXTENDS Naturals, Sequences

CONSTANTS
    Clients,        \* the connections that may be made, each once
    ThreadCount,    \* g_dwThreadCount
    MAX_BUFF_SIZE,  \* bytes in the buffer of a context
    MaxBytes,       \* bounds the bytes each peer sends
    MaxEvents,      \* bounds the console events
    MaxBreaks,      \* how many of them may be CTRL-BREAK
    EnterMayFail    \* may EnterCriticalSection raise an exception?

ASSUME ConstantsAssumption ==
    /\ ThreadCount \in Nat \ {0}
    /\ MAX_BUFF_SIZE \in Nat \ {0}
    /\ MaxBytes \in [Clients -> Nat]
    /\ MaxEvents \in Nat
    /\ MaxBreaks \in 0 .. MaxEvents
    /\ EnterMayFail \in BOOLEAN

VARIABLES
    g,        \* the globals, named without their prefix
    main,     \* the main thread: where it is, and its locals
    kernel,   \* ports that are open, packets with a null key, open sockets
    worker,   \* the worker threads: where they are, and their locals
    client,   \* the connections: context, operation under way and peer
    ctrl,     \* the console handler, and what it may still be called for
    crashed   \* has the program run into undefined behaviour?

vars == <<g, main, kernel, worker, client, ctrl, crashed>>

(* A run is one turn of the loop that restarts the server.  A worker is    *)
(* named by its slot and its run, a port and a listening socket by a run.  *)
Runs == 1 .. MaxBreaks + 1
Workers == 1 .. ThreadCount
Threads == Workers \X Runs
Null == "NULL"
Invalid == 0

ASSUME NullAssumption == Null \notin Clients

NewClient ==
    [sock |-> "none",    \* its socket: none yet, open, closed
     ctx |-> "none",     \* its context: none yet, live, freed
     back |-> Null,      \* pCtxtBack: the context added before it
     forward |-> Null,   \* pCtxtForward: the one added after it
     port |-> 0,         \* the port its socket belongs to
     op |-> "read",      \* IOOperation
     total |-> 0,        \* nTotalBytes
     nsent |-> 0,        \* nSentBytes
     io |-> "none",      \* the operation: none, pending, done (its packet is
                         \* in the port)
     ok |-> TRUE,        \* did it succeed,
     size |-> 0,         \* and with how many bytes?
     got |-> 0,          \* bytes received by the server so far
     said |-> 0,         \* bytes sent by the peer so far
     echo |-> <<>>,      \* bytes the peer got back, each as its number
     peer |-> "up"]      \* has the peer closed or reset the connection?

NewWorker == [pc |-> "none", key |-> Null, ok |-> TRUE, size |-> 0]

(* The options of the command line decide about g_bVerbose.                *)
Init ==
    /\ g \in [Verbose : BOOLEAN, EndServer : {FALSE}, Restart : {TRUE},
              IOCP : {FALSE}, sdListen : {Invalid}, CtxtList : {Null},
              ThreadHandles : {[w \in Workers |-> Invalid]}]
    /\ main = [pc |-> "top", run |-> 0, sdAccept |-> Null, at |-> Null,
               next |-> Null, late |-> FALSE, left |-> FALSE]
    /\ kernel = [ports |-> {}, nulls |-> [r \in Runs |-> 0], listening |-> {}]
    /\ worker = [t \in Threads |-> NewWorker]
    /\ client = [c \in Clients |-> NewClient]
    /\ ctrl = [pc |-> "idle", sock |-> Invalid, events |-> 0, breaks |-> 0]
    /\ crashed = FALSE

(* The process ends, and with it its threads and all they knew.            *)
Crash ==
    /\ crashed' = TRUE
    /\ worker' = [t \in Threads |-> NewWorker]
    /\ client' = [c \in Clients |-> NewClient]
    /\ main' = [main EXCEPT !.pc = "done", !.sdAccept = Null, !.at = Null,
                            !.next = Null]
    /\ UNCHANGED <<g, kernel, ctrl>>

-----------------------------------------------------------------------------
(* The list of contexts.  CtxtListAddTo puts a context at the head, with   *)
(* the old head behind it.  Each function that enters the critical section *)
(* returns, with nothing done, when that raises an exception, as it could  *)
(* for want of memory before Windows Vista.  It cannot for a thread that   *)
(* is in it already: CtxtListDeleteFrom is only called by CloseClient, and *)
(* CtxtListFree calls that for each context, all inside.                   *)
Freed(c) == c # Null /\ client[c].ctx = "freed"
Broken(c) ==
    Freed(c) \/ Freed(client[c].back) \/ Freed(client[c].forward)

CtxtListAddTo(c) ==
    /\ client' = [d \in Clients |->
         CASE d = c -> [client[d] EXCEPT !.ctx = "live", !.port = main.run,
                                         !.back = g.CtxtList]
           [] d # c /\ d = g.CtxtList -> [client[d] EXCEPT !.forward = c]
           [] OTHER -> client[d]]
    /\ g' = [g EXCEPT !.CtxtList = c]

(* The exception in CtxtListAddTo: the context is in use, and on no list.  *)
NotAddedToList(c) ==
    /\ EnterMayFail
    /\ client' = [client EXCEPT ![c].ctx = "live", ![c].port = main.run]
    /\ UNCHANGED g

(* CtxtListDeleteFrom: the head of the list is set when the context has    *)
(* none behind it, not when it is the head.                                *)
HeadWithout(c) ==
    IF client[c].back = Null THEN client[c].forward ELSE g.CtxtList

FreedContext(r) ==
    [NewClient EXCEPT !.ctx = "freed", !.sock = "closed", !.port = r.port,
                      !.io = r.io, !.ok = r.ok, !.size = r.size]

CtxtListDeleteFrom(c) ==
    /\ client' = [d \in Clients |->
         CASE d = c -> FreedContext(client[d])
           [] d # c /\ d = client[c].back ->
                [client[d] EXCEPT !.forward = client[c].forward]
           [] d # c /\ d # client[c].back /\ d = client[c].forward ->
                [client[d] EXCEPT !.back = client[c].back]
           [] OTHER -> client[d]]
    /\ g' = [g EXCEPT !.CtxtList = HeadWithout(c)]

(* The main thread keeps the critical section while it frees the list; all *)
(* others enter and leave it in one step.                                  *)
CriticalSectionFree == main.pc \notin {"free", "freeWait"}

-----------------------------------------------------------------------------
(* main, one turn of while(g_bRestart).                                    *)
Goto(pc) == main' = [main EXCEPT !.pc = pc]

Restart ==
    /\ main.pc = "top"
    /\ main' = IF g.Restart THEN [main EXCEPT !.pc = "reset", !.run = @ + 1]
                            ELSE [main EXCEPT !.pc = "done"]
    /\ g' = [g EXCEPT !.Restart = FALSE]
    /\ UNCHANGED <<kernel, worker, client, ctrl, crashed>>

ResetEndServer ==
    /\ main.pc = "reset"
    /\ g' = [g EXCEPT !.EndServer = FALSE]
    /\ Goto("port")
    /\ UNCHANGED <<kernel, worker, client, ctrl, crashed>>

CreatePort ==
    /\ main.pc = "port"
    /\ \/ /\ g' = [g EXCEPT !.IOCP = TRUE]
          /\ kernel' = [kernel EXCEPT !.ports = @ \cup {main.run}]
          /\ Goto("threads")
       \/ Goto("finally") /\ UNCHANGED <<g, kernel>>
    /\ UNCHANGED <<worker, client, ctrl, crashed>>

(* The threads that start have nothing to do until a client connects; the  *)
(* first that cannot be created ends the run.                              *)
CreateThreads ==
    /\ main.pc = "threads"
    /\ \E n \in 0 .. ThreadCount :
         /\ worker' = [t \in Threads |->
                         IF t[1] <= n /\ t[2] = main.run
                         THEN [worker[t] EXCEPT !.pc = "wait"] ELSE worker[t]]
         /\ g' = [g EXCEPT !.ThreadHandles =
                    [w \in Workers |-> IF w <= n THEN main.run ELSE @[w]]]
         /\ Goto(IF n = ThreadCount THEN "socket" ELSE "finally")
    /\ UNCHANGED <<kernel, client, ctrl, crashed>>

(* CreateListenSocket, up to WSASocket and from bind on.                   *)
CreateSocket ==
    /\ main.pc = "socket"
    /\ \/ /\ g' = [g EXCEPT !.sdListen = main.run]
          /\ kernel' = [kernel EXCEPT !.listening = @ \cup {main.run}]
          /\ Goto("bind")
       \/ Goto("finally") /\ UNCHANGED <<g, kernel>>
    /\ UNCHANGED <<worker, client, ctrl, crashed>>

Bind ==
    /\ main.pc = "bind"
    /\ \/ /\ g.sdListen \in kernel.listening
          /\ Goto("accept")
       \/ Goto("finally")
    /\ UNCHANGED <<g, kernel, worker, client, ctrl, crashed>>

(* WSAAccept.  The handler of the console clears g_sdListen and closes the *)
(* socket; a call made before the one goes on until the other.  Any        *)
(* failure ends the run.                                                   *)
Accept(c) ==
    /\ main.pc = "accept"
    /\ client[c].sock = "none"
    /\ main.run \in kernel.listening
    /\ client' = [client EXCEPT ![c].sock = "open"]
    /\ main' = [main EXCEPT !.pc = "update", !.sdAccept = c]
    /\ UNCHANGED <<g, kernel, worker, ctrl, crashed>>

AcceptFails ==
    /\ main.pc = "accept"
    /\ main' = [main EXCEPT !.pc = "finally", !.sdAccept = Null]
    /\ UNCHANGED <<g, kernel, worker, client, ctrl, crashed>>

(* UpdateCompletionPort.  Without memory for its second structure          *)
(* CtxtAllocate returns the first, freed; it returns NULL without memory   *)
(* for the first, or without the critical section.  A failure to add the   *)
(* socket to the port is stored in g_hIOCP.                                *)
UpdateCompletionPort ==
    /\ main.pc = "update"
    /\ \/ Crash
       \/ /\ \/ UNCHANGED g
             \/ g' = [g EXCEPT !.IOCP = FALSE]
          /\ Goto("finally")
          /\ UNCHANGED <<kernel, worker, client, ctrl, crashed>>
       \/ /\ \/ ~Freed(g.CtxtList) /\ CtxtListAddTo(main.sdAccept)
             \/ NotAddedToList(main.sdAccept)
          /\ Goto("check")
          /\ UNCHANGED <<kernel, worker, ctrl, crashed>>

CheckEndServer ==
    /\ main.pc = "check"
    /\ Goto(IF g.EndServer THEN "finally" ELSE "recv")
    /\ UNCHANGED <<g, kernel, worker, client, ctrl, crashed>>

(* The first WSARecv.  An operation may fail at once when the connection   *)
(* is reset, and leaves no packet then.                                    *)
Alive(c) == client[c].sock = "open" /\ client[c].peer # "reset"
Posted(r) == [r EXCEPT !.io = "pending"]

PostRecv ==
    /\ main.pc = "recv"
    /\ LET c == main.sdAccept
       IN \/ /\ client' = [client EXCEPT ![c] = Posted(@)]
             /\ UNCHANGED g
          \/ ~Alive(c) /\ ~Broken(c) /\ CtxtListDeleteFrom(c)
          \/ ~Alive(c) /\ EnterMayFail /\ UNCHANGED <<g, client>>
    /\ Goto("accept")
    /\ UNCHANGED <<kernel, worker, ctrl, crashed>>

(* The finally block: a packet with a null key for every worker.           *)
BeginCleanup ==
    /\ main.pc = "finally"
    /\ g' = [g EXCEPT !.EndServer = TRUE]
    /\ kernel' = IF g.IOCP
                 THEN [kernel EXCEPT !.nulls[main.run] = ThreadCount]
                 ELSE kernel
    /\ Goto("wait")
    /\ UNCHANGED <<worker, client, ctrl, crashed>>

(* The wait for the threads fails when one of them was not created, and    *)
(* after a second.                                                         *)
Ended(w) ==
    /\ g.ThreadHandles[w] # Invalid
    /\ worker[<<w, g.ThreadHandles[w]>>].pc = "ended"
(* Mutant of AllEnded: the wait is for any one of the threads.             *)
AnyEnded == \E w \in Workers : Ended(w)

AllEnded == \A w \in Workers : Ended(w)

WaitForWorkers ==
    /\ main.pc = "wait"
    /\ \/ /\ AllEnded
          /\ g' = [g EXCEPT !.ThreadHandles = [w \in Workers |-> Invalid]]
          /\ Goto("enter")
       \/ /\ ~AllEnded
          /\ main' = [main EXCEPT !.pc = "enter", !.late = TRUE]
          /\ UNCHANGED g
    /\ UNCHANGED <<kernel, worker, client, ctrl, crashed>>

(* CtxtListFree: for each context in turn, close its socket, wait for the  *)
(* operation under way, free it.                                           *)
(* Mutant of CloseSocket: the socket is left open.                         *)
KeepSocket(r) == r

CloseSocket(r) == [r EXCEPT !.sock = "closed"]

EnterListFree ==
    /\ main.pc = "enter"
    /\ \/ main' = [main EXCEPT !.pc = "free", !.at = g.CtxtList]
       \/ EnterMayFail /\ Goto("endRun")
    /\ UNCHANGED <<g, kernel, worker, client, ctrl, crashed>>

(* Mutant of CloseNext: the walk goes on with the context ahead.           *)
CloseThenForward ==
    /\ main.pc = "free"
    /\ main.at # Null
    /\ ~Freed(main.at)
    /\ client' = [client EXCEPT ![main.at] = CloseSocket(@)]
    /\ main' = [main EXCEPT !.pc = "freeWait", !.next = client[main.at].forward]
    /\ UNCHANGED <<g, kernel, worker, ctrl, crashed>>

CloseNext ==
    /\ main.pc = "free"
    /\ main.at # Null
    /\ ~Freed(main.at)
    /\ client' = [client EXCEPT ![main.at] = CloseSocket(@)]
    /\ main' = [main EXCEPT !.pc = "freeWait", !.next = client[main.at].back]
    /\ UNCHANGED <<g, kernel, worker, ctrl, crashed>>

(* Mutant of HasOverlappedIoCompleted: nothing is waited for.              *)
NoWait(r) == TRUE

HasOverlappedIoCompleted(r) == r.io # "pending"

FreeNext ==
    /\ main.pc = "freeWait"
    /\ ~Broken(main.at)
    /\ HasOverlappedIoCompleted(client[main.at])
    /\ CtxtListDeleteFrom(main.at)
    /\ main' = [main EXCEPT !.pc = "free", !.at = main.next, !.next = Null]
    /\ UNCHANGED <<kernel, worker, ctrl, crashed>>

LeaveListFree ==
    /\ main.pc = "free"
    /\ main.at = Null
    /\ Goto("endRun")
    /\ UNCHANGED <<g, kernel, worker, client, ctrl, crashed>>

(* The port, the listening socket and sdAccept, which may be closed        *)
(* already, are closed.  A port whose handle was lost stays open.          *)
EndRun ==
    /\ main.pc = "endRun"
    /\ kernel' = [ports |-> IF g.IOCP THEN kernel.ports \ {main.run}
                                      ELSE kernel.ports,
                  nulls |-> IF g.IOCP THEN [kernel.nulls EXCEPT ![main.run] = 0]
                                      ELSE kernel.nulls,
                  listening |-> kernel.listening \ {g.sdListen}]
    /\ g' = [g EXCEPT !.IOCP = FALSE, !.sdListen = Invalid]
    /\ client' = [c \in Clients |-> IF c = main.sdAccept
                    THEN [client[c] EXCEPT !.sock = "closed"] ELSE client[c]]
    /\ main' = [main EXCEPT !.pc = "top", !.sdAccept = Null,
                            !.left = main.late]
    /\ UNCHANGED <<worker, ctrl, crashed>>

(* Steps of the main thread through a pointer to a freed context.          *)
MainUsesFreed ==
    /\ \/ main.pc = "update" /\ Freed(g.CtxtList)
       \/ main.pc = "recv" /\ ~Alive(main.sdAccept) /\ Broken(main.sdAccept)
       \/ main.pc = "free" /\ Freed(main.at)
       \/ main.pc = "freeWait" /\ Broken(main.at)
    /\ Crash

-----------------------------------------------------------------------------
(* WorkerThread: a packet is taken from the port, in any order here.       *)
TakePacket(t, c) ==
    /\ worker[t].pc = "wait"
    /\ t[2] \in kernel.ports
    /\ client[c].port = t[2]
    /\ client[c].io = "done"
    /\ worker' = [worker EXCEPT ![t] =
                    [pc |-> "test", key |-> c, ok |-> client[c].ok,
                     size |-> client[c].size]]
    /\ client' = [client EXCEPT ![c].io = "none", ![c].ok = TRUE,
                                ![c].size = 0]
    /\ UNCHANGED <<g, main, kernel, ctrl, crashed>>

End(t) == worker' = [worker EXCEPT ![t] = [NewWorker EXCEPT !.pc = "ended"]]

TakeNull(t) ==
    /\ worker[t].pc = "wait"
    /\ t[2] \in kernel.ports
    /\ kernel.nulls[t[2]] > 0
    /\ kernel' = [kernel EXCEPT !.nulls[t[2]] = @ - 1]
    /\ End(t)
    /\ UNCHANGED <<g, main, client, ctrl, crashed>>

(* A wait for a port that is closed fails and stores no key: that of the   *)
(* last packet is still there.                                             *)
Abandoned(t) ==
    /\ worker[t].pc = "wait"
    /\ t[2] \notin kernel.ports
    /\ IF worker[t].key = Null THEN End(t)
       ELSE worker' = [worker EXCEPT ![t].pc = "test", ![t].ok = FALSE]
    /\ UNCHANGED <<g, main, kernel, client, ctrl, crashed>>

(* The result of a packet is of no use once it was looked at; the key      *)
(* stays in its variable.                                                  *)
At(pc, c) == [NewWorker EXCEPT !.pc = pc, !.key = c]

(* Mutant of Dropped: a read of no bytes is served.                        *)
DroppedOnError(u) == ~u.ok

Dropped(u) == ~u.ok \/ u.size = 0

TestEndServer(t) ==
    /\ worker[t].pc = "test"
    /\ IF g.EndServer THEN End(t)
       ELSE worker' = [worker EXCEPT ![t].pc =
                         IF Dropped(worker[t]) THEN "close" ELSE "serve"]
    /\ UNCHANGED <<g, main, kernel, client, ctrl, crashed>>

(* What was read is to be sent; what was sent in part is sent on; what was *)
(* sent is followed by the next read.                                      *)
AllSent(r) == r.nsent >= r.total

(* Mutant of NextOperation: of the parts of a send only the last counts.   *)
LastPartOnly(r, size) ==
    IF r.op = "read"
    THEN [r EXCEPT !.op = "write", !.total = size, !.nsent = 0]
    ELSE LET w == [r EXCEPT !.nsent = size]
         IN IF AllSent(w) THEN [w EXCEPT !.op = "read"] ELSE w

NextOperation(r, size) ==
    IF r.op = "read"
    THEN [r EXCEPT !.op = "write", !.total = size, !.nsent = 0]
    ELSE LET w == [r EXCEPT !.nsent = @ + size]
         IN IF AllSent(w) THEN [w EXCEPT !.op = "read"] ELSE w

(* Where a worker goes on after it posted an operation, which may still be *)
(* pending when the call returns.                                          *)
(* Mutant of AfterPost: a pending operation is taken for a failed one.     *)
PendingIsFailure(verbose) == "close"

AfterPost(verbose) == IF verbose THEN "log" ELSE "wait"

Serve(t) ==
    /\ worker[t].pc = "serve"
    /\ LET c == worker[t].key
           r == NextOperation(client[c], worker[t].size)
           continue(pc) == worker' = [worker EXCEPT ![t] = At(pc, c)]
       IN /\ ~Freed(c)
          /\ \/ /\ client[c].sock = "open"
                /\ client' = [client EXCEPT ![c] = Posted(r)]
                /\ continue(AfterPost(g.Verbose))
             \/ /\ ~Alive(c)
                /\ client' = [client EXCEPT ![c] = r]
                /\ continue("close")
    /\ UNCHANGED <<g, main, kernel, ctrl, crashed>>

CloseClient(t) ==
    /\ worker[t].pc = "close"
    /\ CriticalSectionFree
    /\ ~Broken(worker[t].key)
    /\ CtxtListDeleteFrom(worker[t].key)
    /\ worker' = [worker EXCEPT ![t] = At("wait", worker[t].key)]
    /\ UNCHANGED <<main, kernel, ctrl, crashed>>

(* Without the critical section the connection stays as it is, with no     *)
(* operation under way.                                                    *)
CloseRaises(t) ==
    /\ worker[t].pc = "close"
    /\ EnterMayFail
    /\ worker' = [worker EXCEPT ![t] = At("wait", worker[t].key)]
    /\ UNCHANGED <<g, main, kernel, client, ctrl, crashed>>

(* The verbose message reads the socket of a context given away.           *)
Log(t) ==
    /\ worker[t].pc = "log"
    /\ worker' = [worker EXCEPT ![t].pc = "wait"]
    /\ UNCHANGED <<g, main, kernel, client, ctrl, crashed>>

WorkerUsesFreed(t) ==
    /\ \/ worker[t].pc \in {"serve", "log"} /\ Freed(worker[t].key)
       \/ /\ worker[t].pc = "close"
          /\ CriticalSectionFree
          /\ Broken(worker[t].key)
    /\ Crash

-----------------------------------------------------------------------------
(* The system completes an operation: with some of the bytes, with none    *)
(* when the peer has closed, or with an error when the connection is gone. *)
Completed(r, size) == [r EXCEPT !.io = "done", !.ok = TRUE, !.size = size]

CompleteRead(c) ==
    /\ client[c].op = "read"
    /\ Alive(c)
    /\ LET r == client[c]
           ready == r.said - r.got
       IN \/ \E n \in 1 .. MAX_BUFF_SIZE :
               /\ n <= ready
               /\ client' = [client EXCEPT
                    ![c] = [Completed(r, n) EXCEPT !.got = @ + n]]
          \/ /\ ready = 0 /\ r.peer = "closed"
             /\ client' = [client EXCEPT ![c] = Completed(r, 0)]

(* The buffer holds the bytes received last; a send is of those from the   *)
(* first that was not sent.                                                *)
(* Mutant of SendFrom: each send is of the buffer from its start.          *)
SendFromStart(r) == r.got - r.total

SendFrom(r) == r.got - r.total + r.nsent

CompleteWrite(c) ==
    /\ client[c].op = "write"
    /\ Alive(c)
    /\ LET r == client[c]
       IN \E n \in 1 .. r.total - r.nsent :
            client' = [client EXCEPT ![c] =
              [Completed(r, n) EXCEPT
                 !.echo = @ \o [i \in 1 .. n |-> SendFrom(r) + i]]]

CompleteAborted(c) ==
    /\ ~Alive(c)
    /\ client' = [client EXCEPT ![c].io = "done", ![c].ok = FALSE,
                                ![c].size = 0]

Complete(c) ==
    /\ client[c].io = "pending"
    /\ CompleteRead(c) \/ CompleteWrite(c) \/ CompleteAborted(c)
    /\ UNCHANGED <<g, main, kernel, worker, ctrl, crashed>>

(* The peer sends a byte, closes the connection or resets it.              *)
Peer(c) ==
    /\ client[c].sock = "open"
    /\ \/ /\ client[c].peer = "up" /\ client[c].said < MaxBytes[c]
          /\ client' = [client EXCEPT ![c].said = @ + 1]
       \/ /\ client[c].peer = "up"
          /\ client' = [client EXCEPT ![c].peer = "closed"]
       \/ /\ client[c].peer # "reset"
          /\ client' = [client EXCEPT ![c].peer = "reset"]
    /\ UNCHANGED <<g, main, kernel, worker, ctrl, crashed>>

-----------------------------------------------------------------------------
(* CtrlHandler, in a thread of its own; one event at a time.               *)
ConsoleEvent ==
    /\ ctrl.pc = "idle"
    /\ ctrl.events < MaxEvents
    /\ \/ /\ UNCHANGED g
          /\ ctrl' = [ctrl EXCEPT !.pc = "take", !.events = @ + 1]
       \/ /\ ctrl.breaks < MaxBreaks
          /\ g' = [g EXCEPT !.Restart = TRUE]
          /\ ctrl' = [ctrl EXCEPT !.pc = "take", !.events = @ + 1,
                                  !.breaks = @ + 1]
    /\ UNCHANGED <<main, kernel, worker, client, crashed>>

TakeListen ==
    /\ ctrl.pc = "take"
    /\ ctrl' = [ctrl EXCEPT !.pc = "clear", !.sock = g.sdListen]
    /\ UNCHANGED <<g, main, kernel, worker, client, crashed>>

(* It may clear a socket that the main thread created in between.          *)
ClearListen ==
    /\ ctrl.pc = "clear"
    /\ ctrl' = [ctrl EXCEPT !.pc = "flag"]
    /\ g' = [g EXCEPT !.sdListen = Invalid]
    /\ UNCHANGED <<main, kernel, worker, client, crashed>>

SetEndServer ==
    /\ ctrl.pc = "flag"
    /\ ctrl' = [ctrl EXCEPT !.pc = "close"]
    /\ g' = [g EXCEPT !.EndServer = TRUE]
    /\ UNCHANGED <<main, kernel, worker, client, crashed>>

(* Mutant of CloseListen: what is closed is g_sdListen, cleared already.   *)
CloseCleared ==
    /\ ctrl.pc = "close"
    /\ kernel' = [kernel EXCEPT !.listening = @ \ {g.sdListen}]
    /\ ctrl' = [ctrl EXCEPT !.pc = "idle", !.sock = Invalid]
    /\ UNCHANGED <<g, main, worker, client, crashed>>

CloseListen ==
    /\ ctrl.pc = "close"
    /\ kernel' = [kernel EXCEPT !.listening = @ \ {ctrl.sock}]
    /\ ctrl' = [ctrl EXCEPT !.pc = "idle", !.sock = Invalid]
    /\ UNCHANGED <<g, main, worker, client, crashed>>

-----------------------------------------------------------------------------
Running == ~crashed /\ main.pc # "done"

MainThread ==
    \/ Restart \/ ResetEndServer \/ CreatePort \/ CreateThreads
    \/ CreateSocket \/ Bind \/ UpdateCompletionPort \/ CheckEndServer
    \/ PostRecv \/ BeginCleanup \/ WaitForWorkers \/ EnterListFree
    \/ CloseNext \/ FreeNext \/ LeaveListFree \/ EndRun \/ MainUsesFreed

WorkerThread(t) ==
    \/ (\E c \in Clients : TakePacket(t, c)) \/ TakeNull(t) \/ Abandoned(t)
    \/ TestEndServer(t) \/ Serve(t) \/ CloseClient(t)
    \/ CloseRaises(t) \/ Log(t) \/ WorkerUsesFreed(t)

CtrlHandler == TakeListen \/ ClearListen \/ SetEndServer \/ CloseListen

Next ==
    /\ Running
    /\ \/ MainThread \/ AcceptFails \/ ConsoleEvent \/ CtrlHandler
       \/ \E t \in Threads : WorkerThread(t)
       \/ \E c \in Clients : Accept(c) \/ Complete(c) \/ Peer(c)

Spec == Init /\ [][Next]_vars

(* Every thread runs when it can; WSAAccept fails when the socket it was   *)
(* called for is closed; an operation that can complete does.  Nothing is  *)
(* assumed of new connections, of peers and of the console.                *)
Fairness ==
    /\ WF_vars(Running /\ MainThread)
    /\ WF_vars(Running /\ main.run \notin kernel.listening /\ AcceptFails)
    /\ WF_vars(Running /\ CtrlHandler)
    /\ \A t \in Threads : WF_vars(Running /\ WorkerThread(t))
    /\ \A c \in Clients : WF_vars(Running /\ Complete(c))

FairSpec == Spec /\ Fairness

-----------------------------------------------------------------------------
Listens == Runs \cup {Invalid}
Keys == Clients \cup {Null}

ClientType ==
    [sock : {"none", "open", "closed"}, ctx : {"none", "live", "freed"},
     back : Keys, forward : Keys, port : Nat, op : {"read", "write"},
     total : 0 .. MAX_BUFF_SIZE, nsent : 0 .. MAX_BUFF_SIZE,
     io : {"none", "pending", "done"}, ok : BOOLEAN,
     size : 0 .. MAX_BUFF_SIZE, got : Nat, said : Nat, echo : Seq(Nat),
     peer : {"up", "closed", "reset"}]

WorkerType ==
    [pc : {"none", "wait", "test", "serve", "close", "log", "ended"},
     key : Keys, ok : BOOLEAN, size : 0 .. MAX_BUFF_SIZE]

TypeOK ==
    /\ g \in [Verbose : BOOLEAN, EndServer : BOOLEAN, Restart : BOOLEAN,
              IOCP : BOOLEAN, sdListen : Listens, CtxtList : Keys,
              ThreadHandles : [Workers -> Listens]]
    /\ main \in [pc : {"top", "reset", "port", "threads", "socket", "bind",
                       "accept", "update", "check", "recv", "finally", "wait",
                       "enter", "free", "freeWait", "endRun", "done"},
                 run : 0 .. MaxBreaks + 1, sdAccept : Keys, at : Keys,
                 next : Keys, late : BOOLEAN, left : BOOLEAN]
    /\ kernel \in [ports : SUBSET Runs, nulls : [Runs -> Nat],
                   listening : SUBSET Runs]
    /\ worker \in [Threads -> WorkerType]
    /\ client \in [Clients -> ClientType]
    /\ ctrl \in [pc : {"idle", "take", "clear", "flag", "close"},
                 sock : Listens, events : 0 .. MaxEvents,
                 breaks : 0 .. MaxBreaks]
    /\ crashed \in BOOLEAN

(* A context has one owner: the system while its operation is under way,   *)
(* the port that has its packet, or the one worker that took the packet.   *)
(* It is what makes the unguarded use of a context by several threads      *)
(* right.  It ends with a run that ended while workers were still at work: *)
(* their port is closed then, and each takes what it had last once more.   *)
Holds(t, c) ==
    worker[t].key = c /\ worker[t].pc \in {"test", "serve", "close"}

OneOwner ==
    ~main.left =>
        \A c \in Clients : \A t \in Threads : Holds(t, c) =>
            /\ client[c].io = "none"
            /\ \A u \in Threads : Holds(u, c) => u = t

(* A worker uses its context without a lock: the main thread frees none    *)
(* that is in use, unless its wait of a second for the workers was over    *)
(* too early.                                                              *)
HeldContextIsLive ==
    ~main.late =>
        \A t \in Threads : \A c \in Clients :
            Holds(t, c) => client[c].ctx = "live"

(* The structure of an operation under way is never freed, neither by a    *)
(* worker nor by a cleanup, in time or not, until such a run has ended.    *)
NoFreeUnderway ==
    ~main.left =>
        \A c \in Clients :
            client[c].io = "pending" => client[c].ctx = "live"

(* What a peer gets back is what it sent, in order and once, whatever      *)
(* parts it was received and sent in and whichever workers did it.         *)
EchoIsFaithful ==
    \A c \in Clients :
        /\ Len(client[c].echo) <= client[c].said
        /\ client[c].echo = [i \in 1 .. Len(client[c].echo) |-> i]

(* The contexts that a walk of the list meets.                             *)
OnList(c) ==
    \A met \in SUBSET Clients :
        (/\ g.CtxtList \in met \cup {Null}
         /\ \A d \in met : client[d].back \in met \cup {Null}) => c \in met

(* An event that found no listening socket yet, and raised the flag when   *)
(* main had gone past its test for the last client: workers end at their   *)
(* next packet, and main waits for one more client.                        *)
EventLost ==
    /\ main.pc = "accept" /\ main.run \in kernel.listening
    /\ g.EndServer /\ ctrl.pc = "idle"

(* A client that has gone is closed and its context freed, by a worker or  *)
(* by the end of its run, when every entry of the critical section         *)
(* succeeds.  There are two exceptions: a context that the removal of      *)
(* others had taken off the list is left behind when its run ends, and not *)
(* before; all wait when an event is lost.                                 *)
DepartedIsFreed ==
    \A c \in Clients :
        client[c].ctx = "live" /\ client[c].peer # "up" ~>
            \/ client[c].ctx = "freed" \/ ~Running
            \/ client[c].port < main.run \/ EventLost

(* The walk of a cleanup frees every context that is on the list when it   *)
(* begins, though each removal changes the list it walks.                  *)
ListedIsFreed ==
    \A c \in Clients :
        main.pc = "free" /\ main.at = g.CtxtList /\ OnList(c) ~>
            client[c].ctx = "freed" \/ ~Running

(* A cleanup comes to an end, whatever operations are under way.           *)
CleanupEnds == main.pc = "finally" ~> main.pc = "top" \/ ~Running

(* CTRL-C and CTRL-BREAK end a run that accepts clients.                   *)
EventEndsRun ==
    \A r \in Runs :
        main.pc = "accept" /\ main.run = r /\ ctrl.pc = "close"
            /\ ctrl.sock = r ~> main.pc = "finally" \/ ~Running

(* The echo service that the server provides: what has come of a           *)
(* connection, as long as it is open.  With the process all are closed.    *)
Open(c) == client[c].sock = "open"

State == [c \in Clients |-> IF crashed THEN "closed" ELSE client[c].sock]
Said == [c \in Clients |-> IF Open(c) THEN client[c].said ELSE 0]
Returned == [c \in Clients |-> IF Open(c) THEN client[c].echo ELSE <<>>]

Service == INSTANCE EchoService
             WITH state <- State, said <- Said, returned <- Returned

(* The server implements the service: through partial operations, hand-    *)
(* overs between workers, departures, cleanups and restarts each open      *)
(* connection is a faithful echo of its own, and ends once.                *)
ImplementsEcho == Service!Spec
=============================================================================
