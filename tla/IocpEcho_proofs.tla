---------------------------- MODULE IocpEcho_proofs ----------------------------
(***************************************************************************)
(* Theorems about what IocpServer does with the bytes and the contexts of  *)
(* its connections, for any connections, workers, buffers and console      *)
(* events, late cleanups included: the types, that each peer gets back     *)
(* what it sent, and that a context has one owner and is not freed while   *)
(* its operation is under way.                                             *)
(*                                                                         *)
(* The sums are kept between three threads: who completes an operation     *)
(* leaves its size with the packet, a worker carries it until it looks at  *)
(* the context, and what is posted next starts from there.  EchoInv says   *)
(* what the counters of a context amount to at each of these points;       *)
(* OwnersInv, at the end, says who may use a context when the wait for the *)
(* workers was given up, from which on PortInv says nothing of it.         *)
(***************************************************************************)
EXTENDS IocpServer_proofs

(* A context that was not used yet.                                        *)
Unused(r) ==
    /\ r.op = "read" /\ r.total = 0 /\ r.nsent = 0 /\ r.size = 0
    /\ r.got = 0 /\ r.echo = <<>>

(* The account of a context, n bytes of whose last operation were not      *)
(* looked at yet: all that was read before is sent.                        *)
Account(r, n) ==
    IF r.op = "read" THEN Len(r.echo) + n = r.got
    ELSE /\ r.nsent + n <= r.total
         /\ Len(r.echo) = r.got - r.total + r.nsent + n

(* The bytes are those the peer sent, from the first and in order.         *)
Faithful(e) == e = [i \in 1 .. Len(e) |-> i]

ContextOK(r) ==
    /\ r.total \in 0 .. MAX_BUFF_SIZE /\ r.nsent \in 0 .. MAX_BUFF_SIZE
    /\ r.size \in 0 .. MAX_BUFF_SIZE
    /\ r.got \in Nat /\ r.said \in Nat /\ r.echo \in Seq(Nat)
    /\ Len(r.echo) <= r.got /\ r.got <= r.said
    /\ Faithful(r.echo)
    /\ r.ctx = "none" => Unused(r) /\ r.io = "none"
    /\ r.ctx = "freed" => r.sock = "closed"
    /\ r.ctx = "live" /\ r.io = "done" => Account(r, r.size)
    /\ r.ctx = "live" /\ r.io = "pending" => Account(r, 0)

(* A worker has taken the packet of a context, and will serve it if the    *)
(* server goes on: it alone knows how many bytes were moved.               *)
Takes(t, c) ==
    /\ worker[t].key = c
    /\ \/ worker[t].pc = "serve"
       \/ worker[t].pc = "test" /\ worker[t].ok

Taken(t, c) ==
    /\ client[c].io = "none"
    /\ client[c].ctx = "live" => Account(client[c], worker[t].size)
    /\ \A u \in Threads : Takes(u, c) => u = t

(* What holds of a connection, of its context and of who has taken it.     *)
EchoAt(c) ==
    /\ ContextOK(client[c])
    /\ client[c].ctx = "none" => \A t \in Threads : worker[t].key # c
    /\ main.pc = "update" /\ main.sdAccept = c => client[c].ctx = "none"
    /\ main.pc \in {"check", "recv"} /\ main.sdAccept = c =>
           Unused(client[c])
    /\ \A t \in Threads : Takes(t, c) => Taken(t, c)

SizesInv == \A t \in Threads : worker[t].size \in 0 .. MAX_BUFF_SIZE

EchoInv == SizesInv /\ \A c \in Clients : EchoAt(c)

-----------------------------------------------------------------------------
(* What ContextOK needs to know of a record that has changed.              *)
LEMMA ContextKept ==
  ASSUME NEW r, NEW s, ContextOK(r),
         s.ctx = "freed" => s.sock = "closed", s.ctx = r.ctx, s.io = r.io,
         SameBytes(r, s)
  PROVE  ContextOK(s)
BY DEF ContextOK, Account, Unused, SameBytes

(* An account is of the counters only.                                     *)
LEMMA AccountKept ==
  ASSUME NEW r, NEW s, NEW n, Account(r, n), SameBytes(r, s)
  PROVE  Account(s, n)
BY DEF Account, SameBytes

(* A connection that a step does not touch keeps its account, if the step  *)
(* lets nobody take it.                                                    *)
LEMMA EchoKept ==
  ASSUME NEW c \in Clients, EchoAt(c), Same(c),
         main'.pc \in {"update", "check", "recv"} /\ main'.sdAccept = c =>
             /\ main.sdAccept = c
             /\ \/ main.pc = main'.pc
                \/ main.pc = "check" /\ main'.pc = "recv",
         \A t \in Threads :
             /\ worker'[t].key = c => worker[t].key = c
             /\ Takes(t, c)' => Takes(t, c) /\ worker'[t].size = worker[t].size
  PROVE  EchoAt(c)'
<1>1. ContextOK(client'[c])
  BY ContextKept DEF EchoAt, Same, ContextOK
<1>2. ASSUME NEW t \in Threads, Takes(t, c)' PROVE Taken(t, c)'
  <2>1. Takes(t, c) /\ Taken(t, c) /\ worker'[t].size = worker[t].size
    BY <1>2 DEF EchoAt
  <2>2. client'[c].ctx = "live" => Account(client'[c], worker'[t].size)
    BY <2>1, AccountKept DEF Taken, Same
  <2>3. \A u \in Threads : Takes(u, c)' => u = t
    BY <2>1 DEF Taken
  <2> QED
    BY <2>1, <2>2, <2>3 DEF Taken, Same
<1>3. Unused(client[c]) => Unused(client'[c])
  BY DEF Unused, Same, SameBytes
<1> QED
  BY <1>1, <1>2, <1>3 DEF EchoAt, Same

-----------------------------------------------------------------------------
(* The steps that touch no connection: of the main thread between two      *)
(* points of a run, of the console,                                        *)
LEMMA EchoQuietSteps ==
  ASSUME PortInv, EchoInv, UNCHANGED <<client, worker>>,
         \/ Restart \/ ResetEndServer \/ CreatePort \/ CreateSocket \/ Bind
         \/ AcceptFails \/ CheckEndServer \/ BeginCleanup \/ WaitForWorkers
         \/ EnterListFree \/ LeaveListFree \/ ConsoleEvent \/ CtrlHandler
         \/ main.pc = "update" /\ Goto("finally")
         \/ UNCHANGED vars
  PROVE  EchoInv'
<1>1. \/ main'.pc \notin {"update", "check", "recv"}
      \/ UNCHANGED main
      \/ /\ main.pc = "check" /\ main'.pc = "recv"
         /\ main'.sdAccept = main.sdAccept
  <2>1. main \in [pc : {"top", "reset", "port", "threads", "socket", "bind",
                       "accept", "update", "check", "recv", "finally", "wait",
                       "enter", "free", "freeWait", "endRun", "done"},
                  run : Nat, sdAccept : Keys, at : Keys, next : Keys,
                  late : BOOLEAN, left : BOOLEAN]
    BY DEF PortInv, Shape
  <2>. USE DEF Goto
  <2>2. CASE \/ Restart \/ ResetEndServer \/ CreatePort \/ CreateSocket
             \/ Bind
             \/ main.pc = "update" /\ Goto("finally")
    BY <2>1, <2>2 DEF Restart, ResetEndServer, CreatePort, CreateSocket, Bind
  <2>3. CASE \/ AcceptFails \/ CheckEndServer \/ BeginCleanup
             \/ WaitForWorkers \/ EnterListFree \/ LeaveListFree
    BY <2>1, <2>3 DEF AcceptFails, CheckEndServer, BeginCleanup,
         WaitForWorkers, EnterListFree, LeaveListFree
  <2>4. CASE ConsoleEvent \/ CtrlHandler \/ UNCHANGED vars
    BY <2>4 DEF ConsoleEvent, CtrlHandler, TakeListen, ClearListen,
         SetEndServer, CloseListen, vars
  <2> QED
    BY <2>2, <2>3, <2>4
<1>2. \A t \in Threads, c \in Clients : Takes(t, c)' <=> Takes(t, c)
  BY DEF Takes
<1>3. \A c \in Clients : Same(c)
  BY DEF Same, SameBytes
<1>4. ASSUME NEW c \in Clients PROVE EchoAt(c)'
  BY <1>1, <1>2, <1>3, EchoKept DEF EchoInv
<1> QED
  BY <1>4 DEF EchoInv, SizesInv

(* of the threads that start,                                              *)
LEMMA EchoCreateThreads ==
  ASSUME PortInv, EchoInv, CreateThreads PROVE EchoInv'
<1>1. /\ UNCHANGED client
      /\ main'.pc \notin {"update", "check", "recv"}
  BY DEF CreateThreads, Goto, PortInv, Shape
<1>2. ASSUME NEW t \in Threads
      PROVE  /\ worker'[t].key = worker[t].key
             /\ worker'[t].ok = worker[t].ok
             /\ worker'[t].size = worker[t].size
             /\ worker'[t].pc \in {worker[t].pc, "wait"}
  <2>1. worker[t] \in Workmen
    BY Fields DEF PortInv
  <2>2. worker'[t] = worker[t] \/ worker'[t] = [worker[t] EXCEPT !.pc = "wait"]
    BY DEF CreateThreads
  <2> QED
    BY <2>1, <2>2 DEF Workmen
<1>3. ASSUME NEW c \in Clients PROVE EchoAt(c)'
  <2>1. Same(c)
    BY <1>1 DEF Same, SameBytes
  <2>2. \A t \in Threads : Takes(t, c)' => Takes(t, c)
    BY <1>2 DEF Takes
  <2> QED
    BY <1>1, <1>2, <2>1, <2>2, EchoKept DEF EchoInv
<1> QED
  BY <1>2, <1>3 DEF EchoInv, SizesInv

(* and of a worker that goes on with what it has, or ends.                 *)
LEMMA EchoAlone ==
  ASSUME PortInv, EchoInv, NEW t \in Threads, UNCHANGED <<client, main>>,
         NEW u \in Workmen, worker' = [worker EXCEPT ![t] = u],
         u.key \in {worker[t].key, Null}, u.size \in 0 .. MAX_BUFF_SIZE,
         \/ u.pc \notin {"test", "serve"}
         \/ u.pc = "test" /\ ~u.ok
         \/ u.pc = "serve" /\ worker[t].pc = "test" /\ worker[t].ok
              /\ u.size = worker[t].size
  PROVE  EchoInv'
<1>1. /\ worker'[t] = u
      /\ \A v \in Threads : v # t => worker'[v] = worker[v]
  BY DEF PortInv, Shape
<1>2. ASSUME NEW c \in Clients PROVE EchoAt(c)'
  <2>1. Same(c)
    BY DEF Same, SameBytes
  <2>2. c # Null
    BY NullAssumption
  <2>3. ASSUME NEW v \in Threads
        PROVE  /\ worker'[v].key = c => worker[v].key = c
               /\ Takes(v, c)' => /\ Takes(v, c)
                                  /\ worker'[v].size = worker[v].size
    <3>1. CASE v = t
      BY <1>1, <2>2, <3>1 DEF Takes
    <3>2. CASE v # t
      BY <1>1, <3>2 DEF Takes
    <3> QED
      BY <3>1, <3>2
  <2> QED
    BY <2>1, <2>3, EchoKept DEF EchoInv
<1> QED
  BY <1>1, <1>2 DEF EchoInv, SizesInv

(* Where it does.                                                          *)
LEMMA EchoAloneSteps ==
  ASSUME PortInv, EchoInv, NEW t \in Threads,
         \/ TakeNull(t) \/ Abandoned(t) \/ TestEndServer(t) \/ Log(t)
         \/ CloseRaises(t)
  PROVE  EchoInv'
<1>0. /\ worker[t] \in Workmen /\ UNCHANGED <<client, main>>
      /\ worker[t].size \in 0 .. MAX_BUFF_SIZE
      /\ worker \in [Threads -> Workmen]
  BY Fields
     DEF PortInv, Shape, EchoInv, SizesInv, TakeNull, Abandoned,
         TestEndServer, Log, CloseRaises
<1>. DEFINE ended == [NewWorker EXCEPT !.pc = "ended"]
<1>1. CASE End(t)
  <2>1. /\ ended \in Workmen /\ ended.key = Null /\ ended.pc = "ended"
        /\ ended.size = 0
    BY EndedType DEF NewWorker
  <2>2. worker' = [worker EXCEPT ![t] = ended]
    BY <1>1 DEF End
  <2>3. 0 \in 0 .. MAX_BUFF_SIZE
    BY ConstantsAssumption
  <2>. HIDE DEF ended
  <2> QED
    BY <1>0, <2>1, <2>2, <2>3, EchoAlone
<1>2. CASE worker' = [worker EXCEPT ![t].pc = "test", ![t].ok = FALSE]
  <2>. DEFINE u == [worker[t] EXCEPT !.pc = "test", !.ok = FALSE]
  <2>1. /\ u \in Workmen /\ u.key = worker[t].key /\ u.pc = "test" /\ ~u.ok
        /\ u.size = worker[t].size
    BY <1>0 DEF Workmen
  <2>2. worker' = [worker EXCEPT ![t] = u]
    BY <1>0, <1>2
  <2>. HIDE DEF u
  <2> QED
    BY <1>0, <2>1, <2>2, EchoAlone
<1>3. ASSUME NEW p \in {"close", "serve", "wait"},
             worker' = [worker EXCEPT ![t].pc = p],
             p = "serve" => worker[t].pc = "test" /\ worker[t].ok
      PROVE  EchoInv'
  <2>. DEFINE u == [worker[t] EXCEPT !.pc = p]
  <2>1. /\ u \in Workmen /\ u.key = worker[t].key /\ u.pc = p
        /\ u.size = worker[t].size
    BY <1>0 DEF Workmen
  <2>2. worker' = [worker EXCEPT ![t] = u]
    BY <1>0, <1>3
  <2>. HIDE DEF u
  <2> QED
    BY <1>0, <1>3, <2>1, <2>2, EchoAlone
<1>4. CASE TakeNull(t)
  BY <1>1, <1>4 DEF TakeNull
<1>5. CASE Abandoned(t)
  BY <1>1, <1>2, <1>5 DEF Abandoned
<1>6. CASE TestEndServer(t)
  BY <1>1, <1>3, <1>6 DEF TestEndServer, Dropped
<1>7. CASE Log(t)
  BY <1>3, <1>7 DEF Log
<1>8. CASE CloseRaises(t)
  <2>. DEFINE u == At("wait", worker[t].key)
  <2>1. u \in Workmen /\ u.key = worker[t].key /\ u.pc = "wait"
    BY <1>0, AtType DEF Points, Workmen
  <2>2. u.size = 0 /\ 0 \in 0 .. MAX_BUFF_SIZE
    BY ConstantsAssumption DEF At, NewWorker
  <2>3. worker' = [worker EXCEPT ![t] = u] /\ worker[t].pc = "close"
    BY <1>8 DEF CloseRaises
  <2>. HIDE DEF u
  <2> QED
    BY <1>0, <2>1, <2>2, <2>3, EchoAlone
<1> QED
  BY <1>4, <1>5, <1>6, <1>7, <1>8

-----------------------------------------------------------------------------
(* A step at one connection: what is left to show is what holds of that.   *)
LEMMA EchoTouched ==
  ASSUME EchoInv, NEW c \in Clients, EchoAt(c)',
         \A d \in Clients : d # c => Same(d),
         \/ main'.pc \notin {"update", "check", "recv"}
         \/ main'.sdAccept = c
         \/ UNCHANGED main,
         \A t \in Threads :
             \/ worker'[t] = worker[t]
             \/ worker'[t].key = c /\ worker'[t].size \in 0 .. MAX_BUFF_SIZE
  PROVE  EchoInv'
<1>1. ASSUME NEW d \in Clients, d # c PROVE EchoAt(d)'
  BY <1>1, EchoKept DEF EchoInv, Takes
<1> QED
  BY <1>1 DEF EchoInv, SizesInv

(* The workers are not concerned: who has taken the connection needs its   *)
(* account.                                                                *)
LEMMA EchoUntaken ==
  ASSUME EchoInv, NEW c \in Clients, UNCHANGED worker,
         ContextOK(client'[c]),
         client'[c].ctx = "none" => client[c].ctx = "none",
         main'.pc \notin {"update", "check", "recv"} \/ UNCHANGED main,
         main.sdAccept = c /\ main'.pc = "update" =>
             client'[c].ctx = "none",
         main.sdAccept = c /\ main'.pc \in {"check", "recv"} =>
             Unused(client'[c]),
         \A t \in Threads : Takes(t, c) =>
             /\ client'[c].io = "none"
             /\ client'[c].ctx = "live" =>
                  Account(client'[c], worker[t].size)
  PROVE  EchoAt(c)'
<1>1. ASSUME NEW t \in Threads, Takes(t, c)' PROVE Taken(t, c)'
  <2>1. \A u \in Threads : Takes(u, c)' <=> Takes(u, c)
    BY DEF Takes
  <2> QED
    BY <1>1, <2>1 DEF Taken, EchoInv, EchoAt
<1>2. client'[c].ctx = "none" => \A t \in Threads : worker'[t].key # c
  BY DEF EchoInv, EchoAt
<1> QED
  BY <1>1, <1>2 DEF EchoAt

(* A connection is accepted,                                               *)
LEMMA EchoAccept ==
  ASSUME PortInv, EchoInv, NEW c \in Clients, Accept(c) PROVE EchoInv'
<1>. DEFINE r == [client[c] EXCEPT !.sock = "open"]
<1>1. /\ UNCHANGED worker
      /\ client[c].sock = "none" /\ main'.pc = "update"
      /\ main'.sdAccept = c /\ client' = [client EXCEPT ![c] = r]
  BY DEF Accept, PortInv, Shape
<1>2. Idle(c) /\ client[c].ctx = "none"
  BY <1>1 DEF PortInv, KeysInv
<1>3. /\ r \in Connections /\ r.io = client[c].io
      /\ r.ctx = client[c].ctx /\ SameBytes(client[c], r)
  BY Fields, ZenonT(60) DEF PortInv, Connections, SameBytes
<1>. HIDE DEF r
<1>4. client'[c] = r /\ \A d \in Clients : d # c => Same(d)
  BY <1>1, <1>3, OneConnection DEF PortInv
<1>5. ContextOK(client'[c])
  BY <1>2, <1>3, <1>4, ContextKept DEF EchoInv, EchoAt
<1>6. EchoAt(c)'
  BY <1>1, <1>2, <1>3, <1>4, <1>5 DEF EchoAt, Takes, Idle
<1> QED
  BY <1>1, <1>4, <1>6, EchoTouched

(* gets its context,                                                       *)
LEMMA EchoUpdate ==
  ASSUME PortInv, EchoInv, UpdateCompletionPort, ~Crash PROVE EchoInv'
<1>1. CASE Goto("finally") /\ UNCHANGED <<worker, client>>
  BY <1>1, EchoQuietSteps DEF UpdateCompletionPort
<1>2. CASE /\ \/ CtxtListAddTo(main.sdAccept)
              \/ NotAddedToList(main.sdAccept)
           /\ Goto("check")
           /\ UNCHANGED worker
  <2>1. PICK c \in Clients : c = main.sdAccept
    BY DEF UpdateCompletionPort, PortInv, KeysInv
  <2>2. /\ main.pc = "update" /\ main'.pc = "check" /\ main'.sdAccept = c
        /\ Idle(c) /\ client[c].ctx = "none" /\ ContextOK(client[c])
    BY <1>2, <2>1
       DEF UpdateCompletionPort, Goto, PortInv, Shape, KeysInv, EchoInv,
           EchoAt
  <2>3. /\ client'[c].io = client[c].io /\ client'[c].ctx = "live"
        /\ SameBytes(client[c], client'[c])
        /\ \A d \in Clients : d # c => Same(d)
    BY <1>2, <2>1, ListAdd, ListNotAdded DEF PortInv
  <2>4. ContextOK(client'[c]) /\ Unused(client'[c])
    BY <2>2, <2>3 DEF ContextOK, Unused, SameBytes, Idle
  <2>5. EchoAt(c)'
    BY <1>2, <2>2, <2>3, <2>4 DEF EchoAt, Takes, Idle
  <2> QED
    BY <1>2, <2>2, <2>3, <2>5, EchoTouched
<1> QED
  BY <1>1, <1>2 DEF UpdateCompletionPort

(* A context that is freed owes nothing any more.                          *)
LEMMA FreedOK ==
  ASSUME NEW r \in Connections, ContextOK(r)
  PROVE  /\ ContextOK(FreedContext(r)) /\ FreedContext(r).ctx = "freed"
         /\ FreedContext(r).io = r.io
<1>. DEFINE s == FreedContext(r)
<1>1. NewClient \in Connections /\ NewClient.total = 0
      /\ NewClient.nsent = 0 /\ NewClient.got = 0 /\ NewClient.said = 0
      /\ NewClient.echo = <<>>
  BY NewShape DEF NewClient
<1>2. /\ s.ctx = "freed" /\ s.sock = "closed" /\ s.io = r.io
      /\ s.size = r.size /\ s.total = 0 /\ s.nsent = 0 /\ s.got = 0
      /\ s.said = 0 /\ s.echo = <<>>
  BY <1>1 DEF FreedContext, Connections
<1>3. Faithful(<<>>) /\ <<>> \in Seq(Nat) /\ Len(<<>>) = 0
  BY DEF Faithful
<1>4. 0 \in 0 .. MAX_BUFF_SIZE
  BY ConstantsAssumption
<1>. HIDE DEF s
<1>5. ContextOK(s)
  BY <1>2, <1>3, <1>4 DEF ContextOK
<1> QED
  BY <1>2, <1>5 DEF s

(* and its first operation, or is freed at once.                           *)
LEMMA EchoPostRecv ==
  ASSUME PortInv, EchoInv, PostRecv PROVE EchoInv'
<1>1. PICK c \in Clients : c = main.sdAccept
  BY DEF PostRecv, PortInv, KeysInv
<1>2. /\ main.pc = "recv" /\ main'.pc = "accept" /\ UNCHANGED worker
      /\ Idle(c) /\ client[c].ctx = "live" /\ ContextOK(client[c])
      /\ Unused(client[c]) /\ client[c] \in Connections
  BY <1>1, Fields
     DEF PostRecv, Goto, PortInv, Shape, KeysInv, EchoInv, EchoAt
<1>3. /\ ContextOK(client'[c]) /\ client'[c].ctx # "none"
      /\ \A d \in Clients : d # c => Same(d)
  <2>1. CASE client' = [client EXCEPT ![c] = Posted(@)]
    <3>. DEFINE r == Posted(client[c])
    <3>1. client' = [client EXCEPT ![c] = r]
      BY <2>1 DEF PortInv, Shape
    <3>2. /\ r \in Connections /\ r.io = "pending" /\ r.ctx = client[c].ctx
          /\ r.sock = client[c].sock /\ SameBytes(client[c], r)
      BY <1>2 DEF Connections, Posted, SameBytes
    <3>. HIDE DEF r
    <3>3. ContextOK(r)
      BY <1>2, <3>2 DEF ContextOK, SameBytes, Unused, Account
    <3> QED
      BY <1>2, <3>1, <3>2, <3>3, OneConnection DEF PortInv
  <2>2. CASE CtxtListDeleteFrom(c)
    BY <1>2, <2>2, ListDelete, FreedOK DEF PortInv
  <2>3. CASE UNCHANGED <<g, client>>
    BY <1>2, <2>3 DEF Same, SameBytes
  <2> QED
    BY <1>1, <2>1, <2>2, <2>3 DEF PostRecv
<1>4. EchoAt(c)'
  BY <1>2, <1>3 DEF EchoAt, Idle, Takes
<1> QED
  BY <1>2, <1>3, <1>4, EchoTouched

(* The cleanup closes its socket,                                          *)
LEMMA EchoCloseNext ==
  ASSUME PortInv, EchoInv, CloseNext PROVE EchoInv'
<1>1. PICK c \in Clients : c = main.at
  BY Fields DEF CloseNext, PortInv, Keys
<1>. DEFINE r == CloseSocket(client[c])
<1>2. /\ UNCHANGED worker /\ main'.pc = "freeWait"
      /\ client' = [client EXCEPT ![c] = r]
      /\ client[c] \in Connections /\ EchoAt(c)
  BY <1>1, Fields DEF CloseNext, PortInv, Shape, EchoInv
<1>3. /\ r \in Connections /\ r.sock = "closed" /\ r.io = client[c].io
      /\ r.ctx = client[c].ctx /\ SameBytes(client[c], r)
  BY <1>2 DEF Connections, CloseSocket, SameBytes
<1>. HIDE DEF r
<1>4. client'[c] = r /\ \A d \in Clients : d # c => Same(d)
  BY <1>2, <1>3, OneConnection DEF PortInv
<1>5. ContextOK(client'[c])
  BY <1>2, <1>3, <1>4, ContextKept DEF EchoAt
<1>6. EchoAt(c)'
  BY <1>2, <1>3, <1>4, <1>5, EchoUntaken, AccountKept DEF EchoAt, Taken
<1> QED
  BY <1>2, <1>4, <1>6, EchoTouched

(* frees its context,                                                      *)
LEMMA EchoFreeNext ==
  ASSUME PortInv, EchoInv, FreeNext PROVE EchoInv'
<1>1. PICK c \in Clients : c = main.at
  BY DEF FreeNext, PortInv, KeysInv
<1>2. /\ UNCHANGED worker /\ main'.pc = "free"
      /\ CtxtListDeleteFrom(c) /\ client[c] \in Connections /\ EchoAt(c)
  BY <1>1, Fields DEF FreeNext, PortInv, Shape, EchoInv
<1>3. /\ ContextOK(client'[c]) /\ client'[c].ctx = "freed"
      /\ client'[c].io = client[c].io
      /\ \A d \in Clients : d # c => Same(d)
  BY <1>2, ListDelete, FreedOK DEF PortInv, EchoAt
<1>4. EchoAt(c)'
  BY <1>2, <1>3, EchoUntaken DEF EchoAt, Taken
<1> QED
  BY <1>2, <1>3, <1>4, EchoTouched

(* and closes the socket that was accepted last.                           *)
LEMMA EchoEndRun ==
  ASSUME PortInv, EchoInv, EndRun PROVE EchoInv'
<1>1. /\ UNCHANGED worker /\ main'.pc = "top"
      /\ client' = [c \in Clients |-> IF c = main.sdAccept
                    THEN [client[c] EXCEPT !.sock = "closed"] ELSE client[c]]
  BY DEF EndRun, PortInv, Shape
<1>2. ASSUME NEW c \in Clients PROVE EchoAt(c)'
  <2>. DEFINE r == [client[c] EXCEPT !.sock = "closed"]
  <2>1. client[c] \in Connections /\ EchoAt(c)
    BY <1>2, Fields DEF PortInv, EchoInv
  <2>2. /\ r.sock = "closed" /\ r.io = client[c].io
        /\ r.ctx = client[c].ctx /\ SameBytes(client[c], r)
    BY <2>1 DEF Connections, SameBytes
  <2>3. client'[c] = client[c] \/ client'[c] = r
    BY <1>1
  <2>. HIDE DEF r
  <2>4. /\ client'[c].io = client[c].io /\ client'[c].ctx = client[c].ctx
        /\ SameBytes(client[c], client'[c])
        /\ client'[c].ctx = "freed" => client'[c].sock = "closed"
    BY <2>1, <2>2, <2>3 DEF SameBytes, EchoAt, ContextOK
  <2>5. ContextOK(client'[c])
    BY <2>1, <2>4, ContextKept DEF EchoAt
  <2>6. ASSUME NEW t \in Threads, Takes(t, c)
        PROVE  /\ client'[c].io = "none"
               /\ client'[c].ctx = "live" =>
                    Account(client'[c], worker[t].size)
    <3>1. Taken(t, c)
      BY <2>1, <2>6 DEF EchoAt
    <3> QED
      BY <2>4, <3>1, AccountKept DEF Taken
  <2> QED
    BY <1>1, <2>4, <2>5, <2>6, EchoUntaken
<1> QED
  BY <1>1, <1>2 DEF EchoInv, SizesInv

(* A connection that was not made, and a worker that has not started.      *)
LEMMA NewEcho ==
  /\ ContextOK(NewClient) /\ NewClient.ctx = "none"
  /\ NewWorker.pc = "none" /\ NewWorker.key = Null
  /\ NewWorker.size \in 0 .. MAX_BUFF_SIZE
<1>1. /\ NewClient.ctx = "none" /\ NewClient.io = "none"
      /\ NewClient.op = "read" /\ NewClient.total = 0
      /\ NewClient.nsent = 0 /\ NewClient.size = 0 /\ NewClient.got = 0
      /\ NewClient.said = 0 /\ NewClient.echo = <<>>
      /\ NewWorker.pc = "none" /\ NewWorker.key = Null /\ NewWorker.size = 0
  BY DEF NewClient, NewWorker
<1>2. Faithful(<<>>) /\ <<>> \in Seq(Nat) /\ Len(<<>>) = 0
  BY DEF Faithful
<1>3. 0 \in 0 .. MAX_BUFF_SIZE
  BY ConstantsAssumption
<1> QED
  BY <1>1, <1>2, <1>3 DEF ContextOK, Unused

(* So it is at the start,                                                  *)
LEMMA EchoInit == Init => EchoInv
<1>. SUFFICES ASSUME Init PROVE EchoInv
  OBVIOUS
<1>1. /\ \A t \in Threads : worker[t] = NewWorker
      /\ \A c \in Clients : client[c] = NewClient
      /\ main.pc = "top"
  BY DEF Init
<1> QED
  BY <1>1, NewEcho, NullAssumption DEF EchoInv, SizesInv, EchoAt, Takes

(* and after a crash.                                                      *)
LEMMA EchoCrash ==
  ASSUME PortInv, Crash PROVE EchoInv'
<1>1. /\ \A t \in Threads : worker'[t] = NewWorker
      /\ \A c \in Clients : client'[c] = NewClient
      /\ main'.pc = "done"
  BY DEF Crash, PortInv, Shape
<1> QED
  BY <1>1, NewEcho, NullAssumption DEF EchoInv, SizesInv, EchoAt, Takes

-----------------------------------------------------------------------------
(* What is appended to a faithful echo from where it ends.                 *)
LEMMA FaithfulAppend ==
  ASSUME NEW e \in Seq(Nat), Faithful(e), NEW n \in Nat
  PROVE  LET f == e \o [i \in 1 .. n |-> Len(e) + i]
         IN  f \in Seq(Nat) /\ Len(f) = Len(e) + n /\ Faithful(f)
<1>. DEFINE m == Len(e)
            x == [i \in 1 .. n |-> m + i]
            f == e \o x
<1>1. m \in Nat
  OBVIOUS
<1>2. \A i \in 1 .. n : m + i \in Nat
  BY <1>1
<1>3. x \in Seq(Nat) /\ Len(x) = n
  BY <1>2
<1>4. f \in Seq(Nat) /\ Len(f) = m + n
  BY <1>3
<1>5. ASSUME NEW i \in 1 .. m + n PROVE f[i] = i
  <2>1. CASE i <= m
    <3>1. f[i] = e[i]
      BY <1>1, <1>3, <2>1
    <3>2. e[i] = i
      BY <2>1 DEF Faithful
    <3> QED
      BY <3>1, <3>2
  <2>2. CASE i > m
    <3>1. i - m \in 1 .. n
      BY <1>1, <2>2
    <3>2. f[i] = x[i - m]
      BY <1>1, <1>3, <2>2, <3>1
    <3>3. x[i - m] = m + (i - m)
      BY <3>1
    <3> QED
      BY <1>1, <3>2, <3>3
  <2> QED
    BY <1>1, <2>1, <2>2
<1>6. Faithful(f)
  <2>1. f = [i \in 1 .. Len(f) |-> f[i]]
    BY <1>4
  <2>. HIDE DEF f
  <2> QED
    BY <1>4, <1>5, <2>1 DEF Faithful
<1> QED
  BY <1>4, <1>6

(* A step at one connection that no worker has taken, or that leaves the   *)
(* account alone.                                                          *)
LEMMA EchoOutside ==
  ASSUME PortInv, EchoInv, NEW c \in Clients, NEW r \in Connections,
         client' = [client EXCEPT ![c] = r], UNCHANGED <<main, worker>>,
         ContextOK(r), r.ctx = client[c].ctx,
         \/ client[c].io = "pending"
         \/ /\ r.io = client[c].io /\ r.op = client[c].op
            /\ r.total = client[c].total /\ r.nsent = client[c].nsent
            /\ r.size = client[c].size /\ r.got = client[c].got
            /\ r.echo = client[c].echo
  PROVE  EchoInv'
<1>1. client'[c] = r /\ \A d \in Clients : d # c => Same(d)
  BY OneConnection DEF PortInv
<1>2. EchoAt(c)
  BY DEF EchoInv
<1>3. EchoAt(c)'
  <2>1. CASE client[c].io = "pending"
    <3>1. \A t \in Threads : ~Takes(t, c)
      BY <1>2, <2>1 DEF EchoAt, Taken
    <3>2. ~(main.pc \in {"check", "recv"} /\ main.sdAccept = c)
      BY <2>1 DEF PortInv, KeysInv, Idle
    <3> QED
      BY <1>1, <1>2, <3>1, <3>2, EchoUntaken DEF EchoAt
  <2>2. CASE /\ r.io = client[c].io /\ r.op = client[c].op
             /\ r.total = client[c].total /\ r.nsent = client[c].nsent
             /\ r.size = client[c].size /\ r.got = client[c].got
             /\ r.echo = client[c].echo
    <3>1. \A n : Account(client[c], n) => Account(r, n)
      BY <2>2 DEF Account
    <3>2. Unused(client[c]) => Unused(r)
      BY <2>2 DEF Unused
    <3> QED
      BY <1>1, <1>2, <2>2, <3>1, <3>2, EchoUntaken DEF EchoAt, Taken
  <2> QED
    BY <2>1, <2>2
<1> QED
  BY <1>1, <1>3, EchoTouched

(* What a peer does,                                                       *)
LEMMA EchoPeer ==
  ASSUME PortInv, EchoInv, NEW c \in Clients, Peer(c) PROVE EchoInv'
<1>. DEFINE s == [client[c] EXCEPT !.said = @ + 1]
            p(x) == [client[c] EXCEPT !.peer = x]
<1>0. /\ client[c] \in Connections /\ UNCHANGED <<main, worker>>
      /\ ContextOK(client[c])
  BY Fields DEF PortInv, Peer, EchoInv, EchoAt
<1>1. /\ s \in Connections /\ s.said = client[c].said + 1
      /\ s.sock = client[c].sock /\ s.ctx = client[c].ctx
      /\ s.io = client[c].io /\ s.op = client[c].op
      /\ s.total = client[c].total /\ s.nsent = client[c].nsent
      /\ s.size = client[c].size /\ s.got = client[c].got
      /\ s.echo = client[c].echo
  <2>1. client[c].said + 1 \in Int
    BY <1>0 DEF Connections
  <2> QED
    BY <1>0, <2>1 DEF Connections
<1>2. ASSUME NEW x \in {"closed", "reset"}
      PROVE  /\ p(x) \in Connections /\ p(x).sock = client[c].sock
             /\ p(x).ctx = client[c].ctx /\ p(x).io = client[c].io
             /\ SameBytes(client[c], p(x))
  BY <1>0 DEF Connections, SameBytes
<1>3. \/ client' = [client EXCEPT ![c] = s]
      \/ client' = [client EXCEPT ![c] = p("closed")]
      \/ client' = [client EXCEPT ![c] = p("reset")]
  BY DEF Peer, PortInv, Shape
<1>. HIDE DEF s, p
<1>4. CASE client' = [client EXCEPT ![c] = s]
  <2>1. ContextOK(s)
    BY <1>0, <1>1 DEF ContextOK, Unused, Account
  <2> QED
    BY <1>0, <1>1, <1>4, <2>1, EchoOutside
<1>5. ASSUME NEW x \in {"closed", "reset"},
             client' = [client EXCEPT ![c] = p(x)]
      PROVE  EchoInv'
  <2>1. ContextOK(p(x))
    BY <1>0, <1>2, ContextKept DEF ContextOK
  <2> QED
    BY <1>0, <1>2, <1>5, <2>1, EchoOutside DEF SameBytes
<1> QED
  BY <1>3, <1>4, <1>5

(* A context with an operation under way whose socket is open is live.     *)
LEMMA LiveUnderway ==
  ASSUME PortInv, EchoInv, NEW c \in Clients, client[c].io = "pending",
         client[c].sock = "open"
  PROVE  client[c].ctx = "live"
BY Fields DEF PortInv, EchoInv, EchoAt, ContextOK, Connections

(* and what the system does to an operation under way: it receives bytes,  *)
LEMMA EchoRead ==
  ASSUME PortInv, EchoInv, NEW c \in Clients, client[c].io = "pending",
         CompleteRead(c), UNCHANGED <<main, worker>>
  PROVE  EchoInv'
<1>0. /\ client[c] \in Connections /\ client[c].op = "read"
      /\ ContextOK(client[c]) /\ client[c].ctx = "live"
  BY Fields, LiveUnderway DEF PortInv, CompleteRead, Alive, EchoInv, EchoAt
<1>1. PICK n \in 0 .. MAX_BUFF_SIZE :
        /\ n <= client[c].said - client[c].got
        /\ \/ client' = [client EXCEPT
                ![c] = [Completed(client[c], n) EXCEPT !.got = @ + n]]
           \/ n = 0 /\ client' = [client EXCEPT ![c] = Completed(client[c], 0)]
  <2>1. 0 \in 0 .. MAX_BUFF_SIZE
    BY ConstantsAssumption
  <2>2. 1 .. MAX_BUFF_SIZE \subseteq 0 .. MAX_BUFF_SIZE
    BY ConstantsAssumption
  <2>3. client[c].said - client[c].got = 0 =>
           0 <= client[c].said - client[c].got
    OBVIOUS
  <2> QED
    BY <2>1, <2>2, <2>3 DEF CompleteRead
<1>. DEFINE d == Completed(client[c], n)
            r == [d EXCEPT !.got = @ + n]
            b == TRUE
            x == "done"
<1>2. n \in Int /\ x \in {"none", "pending", "done"} /\ b \in BOOLEAN
  BY <1>1, ConstantsAssumption
<1>3. d = [client[c] EXCEPT !.io = x, !.ok = b, !.size = n]
  BY DEF Completed
<1>. HIDE DEF b, x
<1>4. /\ d \in Connections /\ d.io = x /\ d.size = n
      /\ d.sock = client[c].sock /\ d.ctx = client[c].ctx
      /\ d.op = client[c].op /\ d.total = client[c].total
      /\ d.nsent = client[c].nsent /\ d.got = client[c].got
      /\ d.said = client[c].said /\ d.echo = client[c].echo
  BY <1>0, <1>2, <1>3, ZenonT(60) DEF Connections
<1>. HIDE DEF d
<1>5. /\ r \in Connections /\ r.io = x /\ r.size = n
      /\ r.sock = client[c].sock /\ r.ctx = client[c].ctx
      /\ r.op = client[c].op /\ r.total = client[c].total
      /\ r.nsent = client[c].nsent /\ r.got = client[c].got + n
      /\ r.said = client[c].said /\ r.echo = client[c].echo
  <2>1. d.got + n \in Int
    BY <1>2, <1>4 DEF Connections
  <2> QED
    BY <1>4, <2>1 DEF Connections
<1>. HIDE DEF r
<1>6. Account(client[c], 0) /\ client[c].got \in Nat /\ client[c].said \in Nat
      /\ Len(client[c].echo) \in Nat
  BY <1>0 DEF ContextOK
<1>7. ContextOK(r)
  <2>1. /\ r.got \in Nat /\ r.got <= r.said /\ Len(r.echo) <= r.got
        /\ Account(r, r.size)
    BY <1>0, <1>1, <1>5, <1>6 DEF Account
  <2> QED
    BY <1>0, <1>1, <1>5, <2>1 DEF ContextOK, x
<1>8. n = 0 => ContextOK(d)
  BY <1>0, <1>1, <1>4, <1>6, ConstantsAssumption
     DEF ContextOK, Account, x
<1>9. CASE client' = [client EXCEPT ![c] = r]
  BY <1>0, <1>5, <1>7, <1>9, EchoOutside
<1>10. CASE n = 0 /\ client' = [client EXCEPT ![c] = d]
  BY <1>0, <1>4, <1>8, <1>10, EchoOutside
<1> QED
  BY <1>1, <1>9, <1>10 DEF r, d

(* it sends bytes,                                                         *)
LEMMA EchoWrite ==
  ASSUME PortInv, EchoInv, NEW c \in Clients, client[c].io = "pending",
         CompleteWrite(c), UNCHANGED <<main, worker>>
  PROVE  EchoInv'
<1>0. /\ client[c] \in Connections /\ client[c].op = "write"
      /\ ContextOK(client[c]) /\ client[c].ctx = "live"
  BY Fields, LiveUnderway DEF PortInv, CompleteWrite, Alive, EchoInv, EchoAt
<1>1. /\ Account(client[c], 0) /\ client[c].total \in 0 .. MAX_BUFF_SIZE
      /\ client[c].nsent \in 0 .. MAX_BUFF_SIZE /\ client[c].got \in Nat
      /\ client[c].said \in Nat /\ client[c].echo \in Seq(Nat)
      /\ Len(client[c].echo) \in Nat /\ Faithful(client[c].echo)
      /\ MAX_BUFF_SIZE \in Nat
  BY <1>0, ConstantsAssumption DEF ContextOK
<1>2. SendFrom(client[c]) = Len(client[c].echo)
  BY <1>0, <1>1 DEF Account, SendFrom
<1>. DEFINE e(n) == client[c].echo
                      \o [i \in 1 .. n |-> Len(client[c].echo) + i]
            d(n) == Completed(client[c], n)
            r(n) == [d(n) EXCEPT !.echo = e(n)]
            b == TRUE
            x == "done"
<1>3. PICK n \in 1 .. client[c].total - client[c].nsent :
        client' = [client EXCEPT ![c] = r(n)]
  <2>1. PICK n \in 1 .. client[c].total - client[c].nsent :
          client' = [client EXCEPT ![c] =
            [d(n) EXCEPT
               !.echo = @ \o [i \in 1 .. n |-> SendFrom(client[c]) + i]]]
    BY DEF CompleteWrite
  <2>2. d(n).echo = client[c].echo
    BY <1>0 DEF Completed, Connections
  <2> QED
    BY <1>2, <2>1, <2>2
<1>4. /\ n \in Nat /\ n \in Int /\ n <= client[c].total - client[c].nsent
      /\ n \in 0 .. MAX_BUFF_SIZE
      /\ x \in {"none", "pending", "done"} /\ b \in BOOLEAN
  BY <1>1, <1>3
<1>5. /\ e(n) \in Seq(Nat) /\ Len(e(n)) = Len(client[c].echo) + n
      /\ Faithful(e(n))
  BY <1>1, <1>4, FaithfulAppend
<1>6. e(n) \in Seq(Int)
  BY <1>5
<1>7. d(n) = [client[c] EXCEPT !.io = x, !.ok = b, !.size = n]
  BY DEF Completed
<1>. HIDE DEF b, x, e
<1>8. /\ d(n) \in Connections /\ d(n).io = x /\ d(n).size = n
      /\ d(n).sock = client[c].sock /\ d(n).ctx = client[c].ctx
      /\ d(n).op = client[c].op /\ d(n).total = client[c].total
      /\ d(n).nsent = client[c].nsent /\ d(n).got = client[c].got
      /\ d(n).said = client[c].said
  BY <1>0, <1>4, <1>7, ZenonT(60) DEF Connections
<1>. HIDE DEF d
<1>9. /\ r(n) \in Connections /\ r(n).io = x /\ r(n).size = n
      /\ r(n).sock = client[c].sock /\ r(n).ctx = client[c].ctx
      /\ r(n).op = client[c].op /\ r(n).total = client[c].total
      /\ r(n).nsent = client[c].nsent /\ r(n).got = client[c].got
      /\ r(n).said = client[c].said /\ r(n).echo = e(n)
  BY <1>6, <1>8 DEF Connections
<1>. HIDE DEF r
<1>10. ContextOK(r(n))
  <2>1. /\ Len(client[c].echo) = client[c].got - client[c].total
                                    + client[c].nsent + 0
        /\ client[c].nsent + 0 <= client[c].total
    BY <1>0, <1>1 DEF Account
  <2>2. /\ client[c].nsent + n <= client[c].total
        /\ Len(e(n)) = client[c].got - client[c].total + client[c].nsent + n
        /\ Len(e(n)) <= client[c].got
    <3>1. /\ client[c].total \in Int /\ client[c].nsent \in Int
          /\ client[c].got \in Int /\ Len(client[c].echo) \in Int
          /\ n \in Int /\ n <= client[c].total - client[c].nsent
          /\ Len(e(n)) = Len(client[c].echo) + n
      BY <1>1, <1>4, <1>5
    <3> QED
      BY <2>1, <3>1
  <2>3. Account(r(n), r(n).size) /\ Len(r(n).echo) <= r(n).got
    BY <1>0, <1>9, <2>2 DEF Account
  <2> QED
    BY <1>0, <1>4, <1>5, <1>9, <2>3 DEF ContextOK, x
<1> QED
  BY <1>0, <1>3, <1>9, <1>10, EchoOutside

(* or it reports that the connection is gone.                              *)
LEMMA EchoAborted ==
  ASSUME PortInv, EchoInv, NEW c \in Clients, client[c].io = "pending",
         CompleteAborted(c), UNCHANGED <<main, worker>>
  PROVE  EchoInv'
<1>. DEFINE n == 0
            b == FALSE
            x == "done"
            r == [client[c] EXCEPT !.io = x, !.ok = b, !.size = n]
<1>0. /\ client[c] \in Connections /\ ContextOK(client[c])
      /\ client' = [client EXCEPT ![c] = r]
      /\ n \in Int /\ x \in {"none", "pending", "done"} /\ b \in BOOLEAN
  <2>1. client[c] \in Connections /\ ContextOK(client[c])
    BY Fields DEF PortInv, EchoInv, EchoAt
  <2>2. client' = [client EXCEPT ![c] = r]
    BY DEF PortInv, Shape, CompleteAborted
  <2> QED
    BY <2>1, <2>2
<1>1. n \in 0 .. MAX_BUFF_SIZE
  BY ConstantsAssumption
<1>. HIDE DEF n, b, x
<1>2. /\ r \in Connections /\ r.io = x /\ r.size = n
      /\ r.sock = client[c].sock /\ r.ctx = client[c].ctx
      /\ r.op = client[c].op /\ r.total = client[c].total
      /\ r.nsent = client[c].nsent /\ r.got = client[c].got
      /\ r.said = client[c].said /\ r.echo = client[c].echo
  BY <1>0 DEF Connections
<1>. HIDE DEF r
<1>3. ContextOK(r)
  BY <1>0, <1>1, <1>2 DEF ContextOK, Account, Unused, x, n
<1> QED
  BY <1>0, <1>2, <1>3, EchoOutside

(* These are all.                                                          *)
LEMMA EchoComplete ==
  ASSUME PortInv, EchoInv, NEW c \in Clients, Complete(c) PROVE EchoInv'
BY EchoRead, EchoWrite, EchoAborted DEF Complete

-----------------------------------------------------------------------------
(* A worker takes a packet: only it knows the size now.                    *)
LEMMA EchoTakePacket ==
  ASSUME PortInv, EchoInv, NEW t \in Threads, NEW c \in Clients,
         TakePacket(t, c)
  PROVE  EchoInv'
<1>. DEFINE r == [client[c] EXCEPT !.io = "none", !.ok = TRUE, !.size = 0]
            q(n) == [client[c] EXCEPT !.io = "none", !.ok = TRUE, !.size = n]
<1>0. /\ client[c] \in Connections /\ client[c].io = "done" /\ EchoAt(c)
      /\ client[c].ctx # "none" /\ UNCHANGED main
      /\ client' = [client EXCEPT ![c] = r]
      /\ worker'[t].pc = "test" /\ worker'[t].key = c
      /\ worker'[t].size = client[c].size
      /\ \A v \in Threads : v # t => worker'[v] = worker[v]
  <2>1. /\ client[c] \in Connections /\ EchoAt(c)
        /\ client[c].io = "done" /\ UNCHANGED main
    BY Fields DEF PortInv, TakePacket, EchoInv
  <2>2. client[c].ctx # "none"
    BY <2>1 DEF EchoAt, ContextOK
  <2>3. client' = [client EXCEPT ![c] = r]
    BY DEF PortInv, Shape, TakePacket
  <2>4. /\ worker'[t].pc = "test" /\ worker'[t].key = c
        /\ worker'[t].size = client[c].size
        /\ \A v \in Threads : v # t => worker'[v] = worker[v]
    BY DEF PortInv, Shape, TakePacket
  <2> QED
    BY <2>1, <2>2, <2>3, <2>4
<1>1. /\ r \in Connections /\ r.io = "none" /\ r.size = 0
      /\ r.sock = client[c].sock /\ r.ctx = client[c].ctx
      /\ r.op = client[c].op /\ r.total = client[c].total
      /\ r.nsent = client[c].nsent /\ r.got = client[c].got
      /\ r.said = client[c].said /\ r.echo = client[c].echo
  <2>. DEFINE n == 0
              b == TRUE
              x == "none"
              s == [client[c] EXCEPT !.io = x, !.ok = b, !.size = n]
  <2>1. n \in Int /\ x \in {"none", "pending", "done"} /\ b \in BOOLEAN
    OBVIOUS
  <2>0. client[c] \in Connections
    BY <1>0
  <2>. HIDE DEF n, b, x
  <2>2. /\ s \in Connections /\ s.io = x /\ s.size = n
        /\ s.sock = client[c].sock /\ s.ctx = client[c].ctx
        /\ s.op = client[c].op /\ s.total = client[c].total
        /\ s.nsent = client[c].nsent /\ s.got = client[c].got
        /\ s.said = client[c].said /\ s.echo = client[c].echo
    BY <2>0, <2>1 DEF Connections
  <2> QED
    BY <2>2 DEF n, b, x
<1>. HIDE DEF r
<1>2. client'[c] = r /\ \A d \in Clients : d # c => Same(d)
  BY <1>0, <1>1, OneConnection DEF PortInv
<1>3. ContextOK(r)
  <2>1. 0 \in 0 .. MAX_BUFF_SIZE
    BY ConstantsAssumption
  <2> QED
    BY <1>0, <1>1, <2>1 DEF EchoAt, ContextOK
<1>4. r.ctx = "live" => Account(r, client[c].size)
  BY <1>0, <1>1 DEF EchoAt, ContextOK, Account
<1>5. \A v \in Threads : Takes(v, c)' => v = t
  BY <1>0 DEF EchoAt, Takes, Taken
<1>6. EchoAt(c)'
  <2>1. ~(main'.pc \in {"update", "check", "recv"} /\ main'.sdAccept = c)
    BY <1>0 DEF PortInv, KeysInv, Idle
  <2>2. \A v \in Threads : Takes(v, c)' => Taken(v, c)'
    BY <1>0, <1>1, <1>2, <1>4, <1>5 DEF Taken
  <2> QED
    BY <1>0, <1>1, <1>2, <1>3, <2>1, <2>2 DEF EchoAt
<1>7. client[c].size \in 0 .. MAX_BUFF_SIZE
  BY <1>0 DEF EchoAt, ContextOK
<1> QED
  BY <1>0, <1>2, <1>6, <1>7, EchoTouched

(* A worker that has nothing to say about a context any more.              *)
LEMMA EchoGivenUp ==
  ASSUME PortInv, EchoInv, NEW t \in Threads, NEW c \in Clients,
         NEW p \in Points \ {"test", "serve"}, UNCHANGED main,
         worker[t].key = c, worker' = [worker EXCEPT ![t] = At(p, c)],
         ContextOK(client'[c]), client'[c].ctx # "none",
         \A d \in Clients : d # c => Same(d),
         \A v \in Threads : v # t /\ Takes(v, c) =>
             /\ client'[c].io = "none"
             /\ client'[c].ctx # "live"
  PROVE  EchoInv'
<1>1. /\ At(p, c).key = c /\ At(p, c).pc = p
      /\ At(p, c).size \in 0 .. MAX_BUFF_SIZE
  <2>1. NewWorker \in Workmen /\ NewWorker.size \in 0 .. MAX_BUFF_SIZE
    BY NewShape, NewEcho
  <2>2. c \in Keys
    BY DEF Keys
  <2> QED
    BY <2>1, <2>2 DEF At, Workmen, Points
<1>2. /\ worker'[t] = At(p, c)
      /\ \A v \in Threads : v # t => worker'[v] = worker[v]
  BY DEF PortInv, Shape
<1>3. ~Takes(t, c)'
  BY <1>1, <1>2 DEF Takes
<1>4. \A v \in Threads : Takes(v, c)' => v # t /\ Takes(v, c)
  BY <1>2, <1>3 DEF Takes
<1>5. ~(main'.pc \in {"update", "check", "recv"} /\ main'.sdAccept = c)
  BY DEF PortInv, KeysInv, Idle
<1>6. \A v \in Threads : Takes(v, c)' => Taken(v, c)'
  BY <1>4 DEF Taken, EchoInv, EchoAt
<1>7. EchoAt(c)'
  BY <1>5, <1>6 DEF EchoAt
<1> QED
  BY <1>1, <1>2, <1>7, EchoTouched

(* What a worker makes of the counters of a context it has taken: what was *)
(* read is to be sent, what was sent in part is sent on.                   *)
LEMMA NextAccount ==
  ASSUME NEW r \in Connections, NEW n \in 0 .. MAX_BUFF_SIZE,
         ContextOK(r), r.ctx = "live", r.io = "none", Account(r, n)
  PROVE  LET q == NextOperation(r, n)
         IN  /\ q \in Connections /\ ContextOK(q) /\ Account(q, 0)
             /\ q.ctx = r.ctx /\ q.io = r.io /\ q.sock = r.sock
             /\ q.said = r.said /\ q.echo = r.echo
<1>. DEFINE w == [r EXCEPT !.nsent = @ + n]
            x == "write"
            y == "read"
            m == 0
            s == [r EXCEPT !.op = x, !.total = n, !.nsent = m]
            v == [w EXCEPT !.op = y]
            q == NextOperation(r, n)
<1>0. /\ n \in Int /\ m \in Int /\ x \in {"read", "write"}
      /\ y \in {"read", "write"} /\ r.nsent + n \in Int
      /\ m \in 0 .. MAX_BUFF_SIZE
  BY ConstantsAssumption DEF Connections
<1>1. /\ r.total \in Int /\ r.nsent \in Int /\ r.got \in Nat
      /\ r.echo \in Seq(Nat) /\ Len(r.echo) \in Nat /\ r.nsent >= 0
      /\ r.total <= MAX_BUFF_SIZE /\ MAX_BUFF_SIZE \in Nat
      /\ r.op = x \/ r.op = y
  <2>1. MAX_BUFF_SIZE \in Nat
    BY ConstantsAssumption
  <2>2. r.op \in {"read", "write"}
    BY DEF Connections
  <2> QED
    BY <2>1, <2>2 DEF ContextOK
<1>2. q = IF r.op = y THEN s ELSE IF w.nsent >= w.total THEN v ELSE w
  BY DEF NextOperation, AllSent
<1>. HIDE DEF m, x, y
<1>3. /\ s \in Connections /\ s.op = x /\ s.total = n /\ s.nsent = m
      /\ s.io = r.io /\ s.ctx = r.ctx /\ s.size = r.size
      /\ s.got = r.got /\ s.said = r.said /\ s.echo = r.echo
      /\ s.sock = r.sock
  BY <1>0 DEF Connections
<1>4. /\ w \in Connections /\ w.op = r.op /\ w.total = r.total
      /\ w.nsent = r.nsent + n
      /\ w.io = r.io /\ w.ctx = r.ctx /\ w.size = r.size
      /\ w.got = r.got /\ w.said = r.said /\ w.echo = r.echo
      /\ w.sock = r.sock
  BY <1>0 DEF Connections
<1>. HIDE DEF w
<1>5. /\ v \in Connections /\ v.op = y /\ v.total = r.total
      /\ v.nsent = r.nsent + n
      /\ v.io = r.io /\ v.ctx = r.ctx /\ v.size = r.size
      /\ v.got = r.got /\ v.said = r.said /\ v.echo = r.echo
      /\ v.sock = r.sock
  BY <1>0, <1>4 DEF Connections
<1>. HIDE DEF s, v, q
<1>6. x # y /\ x = "write" /\ y = "read" /\ m = 0
  BY DEF x, y, m
<1>7. CASE r.op = y
  <2>1. q = s
    BY <1>2, <1>7
  <2>2. Len(r.echo) + n = r.got
    BY <1>6, <1>7 DEF Account
  <2>3. Account(s, 0)
    BY <1>0, <1>1, <1>3, <1>6, <2>2 DEF Account
  <2>4. ContextOK(s)
    BY <1>0, <1>3 DEF ContextOK
  <2> QED
    BY <1>3, <2>1, <2>3, <2>4 DEF q
<1>8. CASE r.op # y
  <2>1. /\ r.nsent + n <= r.total
        /\ Len(r.echo) = r.got - r.total + r.nsent + n
    BY <1>1, <1>6, <1>8 DEF Account
  <2>2. r.nsent + n \in 0 .. MAX_BUFF_SIZE
    BY <1>0, <1>1, <2>1
  <2>3. CASE w.nsent >= w.total
    <3>1. q = v /\ r.nsent + n = r.total
      BY <1>0, <1>1, <1>2, <1>4, <1>8, <2>1, <2>3
    <3>2. Account(v, 0)
      BY <1>0, <1>1, <1>5, <1>6, <2>1, <3>1 DEF Account
    <3>3. ContextOK(v)
      BY <1>5, <2>2 DEF ContextOK
    <3> QED
      BY <1>5, <3>1, <3>2, <3>3 DEF q
  <2>4. CASE ~(w.nsent >= w.total)
    <3>1. q = w
      BY <1>2, <1>8, <2>4
    <3>2. Account(w, 0)
      <4>1. /\ w.op # "read" /\ w.nsent + 0 <= w.total
            /\ Len(w.echo) = w.got - w.total + w.nsent + 0
        <5>1. w.op # "read"
          BY <1>4, <1>6, <1>8
        <5>2. /\ r.nsent + n + 0 <= r.total
              /\ Len(r.echo) = r.got - r.total + (r.nsent + n) + 0
          BY <1>0, <1>1, <2>1
        <5> QED
          BY <1>4, <5>1, <5>2
      <4> QED
        BY <4>1 DEF Account
    <3>3. ContextOK(w)
      BY <1>4, <2>2 DEF ContextOK
    <3> QED
      BY <1>4, <3>1, <3>2, <3>3 DEF q
  <2> QED
    BY <2>3, <2>4
<1> QED
  BY <1>7, <1>8 DEF q

(* So the next operation starts where the last one ended, or the           *)
(* connection is found to be gone.                                         *)
LEMMA ServeEffect ==
  ASSUME PortInv, EchoInv, NEW t \in Threads, Serve(t),
         NEW c \in Clients, c = worker[t].key
  PROVE  /\ client[c].ctx = "live" /\ client[c].io = "none"
         /\ \A v \in Threads : Takes(v, c) => v = t
         /\ \E r \in Connections, p \in Points \ {"test", "serve"} :
              /\ client' = [client EXCEPT ![c] = r]
              /\ worker' = [worker EXCEPT ![t] = At(p, c)]
              /\ ContextOK(r) /\ r.ctx = "live"
              /\ p = "close" => r.io = "none"
              /\ r.sock = client[c].sock /\ r.said = client[c].said
              /\ r.echo = client[c].echo
<1>. DEFINE q == NextOperation(client[c], worker[t].size)
            r == Posted(q)
<1>2. /\ worker[t].pc = "serve"
      /\ client[c] \in Connections /\ EchoAt(c) /\ Takes(t, c)
      /\ worker[t].size \in 0 .. MAX_BUFF_SIZE
      /\ client[c].ctx # "freed" /\ client[c].ctx # "none"
  BY Fields, NullAssumption
     DEF PortInv, Serve, EchoInv, EchoAt, SizesInv, Takes, Freed
<1>3. /\ client[c].ctx = "live" /\ client[c].io = "none"
      /\ Account(client[c], worker[t].size) /\ ContextOK(client[c])
      /\ \A v \in Threads : Takes(v, c) => v = t
  BY <1>2 DEF Connections, EchoAt, Taken
<1>4. /\ q \in Connections /\ ContextOK(q) /\ Account(q, 0)
      /\ q.ctx = "live" /\ q.io = "none" /\ q.sock = client[c].sock
      /\ q.said = client[c].said /\ q.echo = client[c].echo
  BY <1>2, <1>3, NextAccount
<1>. HIDE DEF q
<1>5. /\ r \in Connections /\ r.io = "pending" /\ r.ctx = "live"
      /\ r.sock = q.sock /\ SameBytes(q, r)
  BY <1>4 DEF Posted, Connections, SameBytes
<1>. HIDE DEF r
<1>6. ContextOK(r) /\ r.said = q.said /\ r.echo = q.echo
  BY <1>4, <1>5, AccountKept DEF ContextOK, SameBytes
<1>7. \/ /\ client' = [client EXCEPT ![c] = r]
         /\ worker' = [worker EXCEPT ![t] = At(AfterPost(g.Verbose), c)]
      \/ /\ client' = [client EXCEPT ![c] = q]
         /\ worker' = [worker EXCEPT ![t] = At("close", c)]
  BY DEF Serve, q, r
<1>8. /\ AfterPost(g.Verbose) \in Points \ {"test", "serve"}
      /\ AfterPost(g.Verbose) # "close"
      /\ "close" \in Points \ {"test", "serve"}
  BY DEF AfterPost, Points
<1>9. CASE client' = [client EXCEPT ![c] = r]
           /\ worker' = [worker EXCEPT ![t] = At(AfterPost(g.Verbose), c)]
  BY <1>3, <1>4, <1>5, <1>6, <1>8, <1>9
<1>10. CASE client' = [client EXCEPT ![c] = q]
            /\ worker' = [worker EXCEPT ![t] = At("close", c)]
  BY <1>3, <1>4, <1>8, <1>10
<1> QED
  BY <1>7, <1>9, <1>10

(* Either way the worker has no account of it any more,                    *)
LEMMA EchoServe ==
  ASSUME PortInv, EchoInv, NEW t \in Threads, Serve(t) PROVE EchoInv'
<1>1. PICK c \in Clients : c = worker[t].key
  BY DEF PortInv, KeysInv, Serve
<1>2. \A v \in Threads : Takes(v, c) => v = t
  BY <1>1, ServeEffect
<1>3. PICK r \in Connections, p \in Points \ {"test", "serve"} :
        /\ client' = [client EXCEPT ![c] = r]
        /\ worker' = [worker EXCEPT ![t] = At(p, c)]
        /\ ContextOK(r) /\ r.ctx = "live"
  BY <1>1, ServeEffect
<1>4. client'[c] = r /\ \A d \in Clients : d # c => Same(d)
  BY <1>3, OneConnection DEF PortInv
<1>5. /\ ContextOK(client'[c]) /\ client'[c].ctx # "none"
      /\ worker[t].key = c /\ UNCHANGED main
      /\ \A v \in Threads : v # t => ~Takes(v, c)
      /\ worker' = [worker EXCEPT ![t] = At(p, c)]
  BY <1>1, <1>2, <1>3, <1>4 DEF Serve
<1> QED
  BY <1>4, <1>5, EchoGivenUp

(* or the context is freed.                                                *)
LEMMA EchoClose ==
  ASSUME PortInv, EchoInv, NEW t \in Threads, CloseClient(t) PROVE EchoInv'
<1>1. PICK c \in Clients : c = worker[t].key
  BY DEF PortInv, KeysInv, CloseClient
<1>2. /\ CtxtListDeleteFrom(c) /\ UNCHANGED main
      /\ worker' = [worker EXCEPT ![t] = At("wait", c)]
      /\ client[c] \in Connections /\ ContextOK(client[c]) /\ EchoAt(c)
  BY <1>1, Fields DEF CloseClient, PortInv, EchoInv, EchoAt
<1>3. /\ client'[c] = FreedContext(client[c])
      /\ \A d \in Clients : d # c => Same(d)
  BY <1>2, ListDelete DEF PortInv
<1>4. /\ ContextOK(client'[c]) /\ client'[c].ctx = "freed"
      /\ client'[c].io = client[c].io
  BY <1>2, <1>3, FreedOK
<1>5. "wait" \in Points \ {"test", "serve"}
  BY DEF Points
<1>6. \A v \in Threads : Takes(v, c) => client'[c].io = "none"
  BY <1>2, <1>4 DEF EchoAt, Taken
<1> QED
  BY <1>1, <1>2, <1>3, <1>4, <1>5, <1>6, EchoGivenUp

-----------------------------------------------------------------------------
(* No step breaks the accounts.                                            *)
LEMMA EchoStep ==
  ASSUME PortInv, EchoInv, [Next]_vars PROVE EchoInv'
<1>1. CASE Crash
  BY <1>1, EchoCrash
<1>2. CASE ~Crash
  <2>1. CASE MainThread
    <3>1. CASE \/ Restart \/ ResetEndServer \/ CreatePort \/ CreateSocket
               \/ Bind \/ CheckEndServer \/ BeginCleanup \/ WaitForWorkers
               \/ EnterListFree \/ LeaveListFree
      <4>1. UNCHANGED <<client, worker>>
        BY <3>1 DEF Restart, ResetEndServer, CreatePort, CreateSocket, Bind,
             CheckEndServer, BeginCleanup, WaitForWorkers, EnterListFree,
             LeaveListFree
      <4> QED
        BY <3>1, <4>1, EchoQuietSteps
    <3>2. CASE CreateThreads
      BY <3>2, EchoCreateThreads
    <3>3. CASE UpdateCompletionPort
      BY <1>2, <3>3, EchoUpdate
    <3>4. CASE PostRecv
      BY <3>4, EchoPostRecv
    <3>5. CASE CloseNext
      BY <3>5, EchoCloseNext
    <3>6. CASE FreeNext
      BY <3>6, EchoFreeNext
    <3>7. CASE EndRun
      BY <3>7, EchoEndRun
    <3>8. CASE MainUsesFreed
      BY <1>2, <3>8 DEF MainUsesFreed
    <3> QED
      BY <2>1, <3>1, <3>2, <3>3, <3>4, <3>5, <3>6, <3>7, <3>8
         DEF MainThread
  <2>2. CASE AcceptFails \/ ConsoleEvent \/ CtrlHandler \/ UNCHANGED vars
    <3>1. UNCHANGED <<client, worker>>
      BY <2>2 DEF AcceptFails, ConsoleEvent, CtrlHandler, TakeListen,
           ClearListen, SetEndServer, CloseListen, vars
    <3> QED
      BY <2>2, <3>1, EchoQuietSteps
  <2>3. ASSUME NEW t \in Threads, WorkerThread(t) PROVE EchoInv'
    <3>1. CASE \E c \in Clients : TakePacket(t, c)
      BY <3>1, EchoTakePacket
    <3>2. CASE \/ TakeNull(t) \/ Abandoned(t) \/ TestEndServer(t) \/ Log(t)
               \/ CloseRaises(t)
      BY <3>2, EchoAloneSteps
    <3>3. CASE Serve(t)
      BY <3>3, EchoServe
    <3>4. CASE CloseClient(t)
      BY <3>4, EchoClose
    <3>5. CASE WorkerUsesFreed(t)
      BY <1>2, <3>5 DEF WorkerUsesFreed
    <3> QED
      BY <2>3, <3>1, <3>2, <3>3, <3>4, <3>5 DEF WorkerThread
  <2>4. ASSUME NEW c \in Clients, Accept(c) \/ Complete(c) \/ Peer(c)
        PROVE  EchoInv'
    BY <2>4, EchoAccept, EchoComplete, EchoPeer
  <2> QED
    BY <2>1, <2>2, <2>3, <2>4 DEF Next
<1> QED
  BY <1>1, <1>2

(* They hold always.                                                       *)
LEMMA EchoInvAlways == Spec => []EchoInv
BY PortInvAlways, EchoInit, EchoStep, PTL DEF Spec

-----------------------------------------------------------------------------
(* The rest of the types: there are no more runs than the console asked    *)
(* for, so that a port and a socket can be named by their run.             *)
RunsInv ==
    /\ main.run + (IF g.Restart THEN 1 ELSE 0) <= ctrl.breaks + 1
    /\ main.pc \notin {"top", "done"} => main.run \in Runs
    /\ g.sdListen \in Listens /\ g.ThreadHandles \in [Workers -> Listens]
    /\ kernel.ports \in SUBSET Runs /\ kernel.listening \in SUBSET Runs
    /\ kernel.nulls \in [Runs -> Nat]
    /\ ctrl \in [pc : {"idle", "take", "clear", "flag", "close"},
                 sock : Listens,
                 events : 0 .. MaxEvents, breaks : 0 .. MaxBreaks]

(* It is so at the start.                                                  *)
LEMMA RunsInit == Init => RunsInv
<1>. SUFFICES ASSUME Init PROVE RunsInv
  OBVIOUS
<1>1. /\ main.run = 0 /\ main.pc = "top" /\ ctrl.breaks = 0
      /\ g.sdListen = Invalid /\ kernel.ports = {} /\ kernel.listening = {}
      /\ kernel.nulls = [r \in Runs |-> 0]
      /\ g.ThreadHandles = [w \in Workers |-> Invalid]
  BY DEF Init
<1>2. Invalid \in Listens /\ 0 \in 0 .. MaxEvents /\ 0 \in 0 .. MaxBreaks
  BY ConstantsAssumption DEF Listens, Invalid
<1>3. ctrl \in [pc : {"idle", "take", "clear", "flag", "close"},
                 sock : Listens,
                events : 0 .. MaxEvents, breaks : 0 .. MaxBreaks]
  BY <1>2 DEF Init
<1> QED
  BY <1>1, <1>2, <1>3 DEF RunsInv

(* Most steps change nothing of it.                                        *)
LEMMA RunsKept ==
  ASSUME RunsInv, UNCHANGED <<kernel, ctrl>>,
         g'.Restart = g.Restart, g'.sdListen = g.sdListen,
         g'.ThreadHandles = g.ThreadHandles, main'.run = main.run,
         main'.pc \in {"top", "done"} \/ main.pc \notin {"top", "done"}
  PROVE  RunsInv'
BY DEF RunsInv

(* No step breaks it.                                                      *)
LEMMA RunsStep ==
  ASSUME PortInv, RunsInv, [Next]_vars PROVE RunsInv'
<1>0. /\ main \in [pc : {"top", "reset", "port", "threads", "socket", "bind",
                       "accept", "update", "check", "recv", "finally", "wait",
                       "enter", "free", "freeWait", "endRun", "done"},
                   run : Nat, sdAccept : Keys, at : Keys, next : Keys,
                   late : BOOLEAN, left : BOOLEAN]
      /\ g \in [Verbose : BOOLEAN, EndServer : BOOLEAN, Restart : BOOLEAN,
                IOCP : BOOLEAN, sdListen : Nat, CtxtList : Keys,
                ThreadHandles : [Workers -> Nat]]
      /\ kernel \in [ports : SUBSET Nat, nulls : [Runs -> Int],
                     listening : SUBSET Nat]
  BY DEF PortInv, Shape
<1>1. /\ ctrl.breaks \in 0 .. MaxBreaks /\ ctrl.events \in 0 .. MaxEvents
      /\ ctrl.sock \in Listens /\ main.run \in Nat
      /\ MaxBreaks \in Nat /\ MaxEvents \in Nat
      /\ Runs \subseteq Listens /\ Invalid \in Listens
      /\ ThreadCount \in Nat
  BY <1>0, ConstantsAssumption DEF RunsInv, Listens
<1>2. CASE \/ Crash \/ UNCHANGED vars \/ MainUsesFreed
           \/ \E t \in Threads : WorkerUsesFreed(t)
  BY <1>0, <1>2, RunsKept
     DEF Crash, vars, MainUsesFreed, WorkerUsesFreed
<1>3. CASE \/ CheckEndServer \/ EnterListFree \/ CloseNext \/ LeaveListFree
           \/ Bind \/ AcceptFails \/ \E c \in Clients : Accept(c)
  BY <1>0, <1>3, RunsKept, ZenonT(60)
     DEF CheckEndServer, EnterListFree, CloseNext, LeaveListFree, Bind,
         AcceptFails, Accept, Goto
<1>4. CASE \/ FreeNext \/ PostRecv \/ ResetEndServer
           \/ UpdateCompletionPort /\ ~Crash
  BY <1>0, <1>4, RunsKept, ZenonT(60)
     DEF FreeNext, PostRecv, ResetEndServer, UpdateCompletionPort, Goto,
         CtxtListAddTo, NotAddedToList, CtxtListDeleteFrom
<1>5. CASE Restart
  <2>1. /\ UNCHANGED <<kernel, ctrl>> /\ ~g'.Restart
        /\ g'.sdListen = g.sdListen /\ g'.ThreadHandles = g.ThreadHandles
    BY <1>0, <1>5 DEF Restart
  <2>2. \/ g.Restart /\ main'.run = main.run + 1
        \/ ~g.Restart /\ main'.run = main.run /\ main'.pc = "done"
    BY <1>0, <1>5 DEF Restart
  <2>3. main'.run <= ctrl.breaks + 1
    BY <1>1, <2>2 DEF RunsInv
  <2>4. g.Restart => main'.run \in Runs
    BY <1>1, <2>2, <2>3 DEF Runs
  <2>5. main'.run + 0 <= ctrl.breaks + 1
    BY <1>1, <2>2, <2>3
  <2> QED
    BY <2>1, <2>2, <2>4, <2>5 DEF RunsInv
<1>6. CASE CreatePort
  <2>1. /\ main.run \in Runs /\ main'.run = main.run /\ UNCHANGED ctrl
        /\ g'.Restart = g.Restart /\ g'.sdListen = g.sdListen
        /\ g'.ThreadHandles = g.ThreadHandles
        /\ kernel'.ports \in {kernel.ports, kernel.ports \cup {main.run}}
        /\ kernel'.nulls = kernel.nulls
        /\ kernel'.listening = kernel.listening
    BY <1>0, <1>6 DEF CreatePort, Goto, RunsInv
  <2> QED
    BY <2>1 DEF RunsInv
<1>7. CASE CreateThreads
  <2>1. PICK n \in 0 .. ThreadCount :
          /\ g' = [g EXCEPT !.ThreadHandles =
                     [w \in Workers |-> IF w <= n THEN main.run ELSE @[w]]]
          /\ Goto(IF n = ThreadCount THEN "socket" ELSE "finally")
    BY <1>7 DEF CreateThreads
  <2>. DEFINE h == [w \in Workers |->
                      IF w <= n THEN main.run ELSE g.ThreadHandles[w]]
  <2>2. main.run \in Runs /\ main'.run = main.run /\ UNCHANGED <<kernel, ctrl>>
    BY <1>0, <1>7, <2>1 DEF CreateThreads, Goto, RunsInv
  <2>3. h \in [Workers -> Listens]
    BY <1>1, <2>2 DEF RunsInv
  <2>4. g' = [g EXCEPT !.ThreadHandles = h]
    BY <2>1
  <2>. HIDE DEF h
  <2>5. /\ g'.Restart = g.Restart /\ g'.sdListen = g.sdListen
        /\ g'.ThreadHandles = h
    BY <1>0, <2>4
  <2> QED
    BY <2>2, <2>3, <2>5 DEF RunsInv
<1>8. CASE CreateSocket
  <2>1. /\ main.run \in Runs /\ main'.run = main.run /\ UNCHANGED ctrl
        /\ g'.Restart = g.Restart /\ g'.sdListen \in {g.sdListen, main.run}
        /\ g'.ThreadHandles = g.ThreadHandles
        /\ kernel'.listening \in
             {kernel.listening, kernel.listening \cup {main.run}}
        /\ kernel'.nulls = kernel.nulls /\ kernel'.ports = kernel.ports
    BY <1>0, <1>8 DEF CreateSocket, Goto, RunsInv
  <2> QED
    BY <1>1, <2>1 DEF RunsInv
<1>9. CASE BeginCleanup
  <2>1. /\ main.run \in Runs /\ main'.run = main.run /\ UNCHANGED ctrl
        /\ g'.Restart = g.Restart /\ g'.sdListen = g.sdListen
        /\ g'.ThreadHandles = g.ThreadHandles
        /\ kernel'.ports = kernel.ports
        /\ kernel'.listening = kernel.listening
        /\ kernel'.nulls \in
             {kernel.nulls, [kernel.nulls EXCEPT ![main.run] = ThreadCount]}
    BY <1>0, <1>9 DEF BeginCleanup, Goto, RunsInv
  <2>2. [kernel.nulls EXCEPT ![main.run] = ThreadCount] \in [Runs -> Nat]
    BY <1>1, <2>1 DEF RunsInv
  <2> QED
    BY <2>1, <2>2 DEF RunsInv
<1>10. CASE WaitForWorkers
  <2>1. /\ main.run \in Runs /\ main'.run = main.run
        /\ UNCHANGED <<kernel, ctrl>>
        /\ g'.Restart = g.Restart /\ g'.sdListen = g.sdListen
        /\ \/ g'.ThreadHandles = g.ThreadHandles
           \/ g'.ThreadHandles = [w \in Workers |-> Invalid]
    <3>1. CASE AllEnded
      BY <1>0, <1>10, <3>1 DEF WaitForWorkers, Goto, RunsInv
    <3>2. CASE ~AllEnded
      BY <1>0, <1>10, <3>2 DEF WaitForWorkers, Goto, RunsInv
    <3> QED
      BY <3>1, <3>2
  <2> QED
    BY <1>1, <2>1 DEF RunsInv
<1>11. CASE EndRun
  <2>1. /\ main.run \in Runs /\ main'.run = main.run /\ UNCHANGED ctrl
        /\ main'.pc = "top"
        /\ g'.Restart = g.Restart /\ g'.sdListen = Invalid
        /\ g'.ThreadHandles = g.ThreadHandles
        /\ kernel'.ports \subseteq kernel.ports
        /\ kernel'.listening \subseteq kernel.listening
        /\ kernel'.nulls \in
             {kernel.nulls, [kernel.nulls EXCEPT ![main.run] = 0]}
    BY <1>0, <1>11 DEF EndRun, RunsInv
  <2>2. [kernel.nulls EXCEPT ![main.run] = 0] \in [Runs -> Nat]
    BY <2>1 DEF RunsInv
  <2> QED
    BY <1>1, <2>1, <2>2 DEF RunsInv
<1>12. CASE ConsoleEvent
  <2>1. /\ UNCHANGED <<main, kernel>> /\ g'.sdListen = g.sdListen
        /\ g'.ThreadHandles = g.ThreadHandles
        /\ ctrl' \in [pc : {"idle", "take", "clear", "flag", "close"},
                 sock : Listens,
                      events : 0 .. MaxEvents, breaks : 0 .. MaxBreaks]
    <3>1. ctrl.events + 1 \in 0 .. MaxEvents
      BY <1>1, <1>12 DEF ConsoleEvent
    <3>2. ctrl.breaks < MaxBreaks => ctrl.breaks + 1 \in 0 .. MaxBreaks
      BY <1>1
    <3>3. /\ UNCHANGED <<main, kernel>>
          /\ g' \in {g, [g EXCEPT !.Restart = TRUE]}
          /\ \/ ctrl' = [ctrl EXCEPT !.pc = "take", !.events = @ + 1]
             \/ /\ ctrl.breaks < MaxBreaks
                /\ ctrl' = [ctrl EXCEPT !.pc = "take", !.events = @ + 1,
                                        !.breaks = @ + 1]
      BY <1>12 DEF ConsoleEvent
    <3> QED
      BY <1>0, <3>1, <3>2, <3>3, ZenonT(60) DEF RunsInv
  <2>2. \/ g'.Restart = g.Restart /\ ctrl'.breaks = ctrl.breaks
        \/ ctrl'.breaks = ctrl.breaks + 1
    BY <1>0, <1>12 DEF ConsoleEvent, RunsInv
  <2>3. main'.run + (IF g'.Restart THEN 1 ELSE 0) <= ctrl'.breaks + 1
    BY <1>1, <2>1, <2>2 DEF RunsInv
  <2> QED
    BY <2>1, <2>3 DEF RunsInv
<1>13. CASE TakeListen \/ ClearListen \/ SetEndServer
  <2>1. /\ UNCHANGED <<main, kernel>> /\ g'.sdListen \in {g.sdListen, Invalid}
        /\ g'.ThreadHandles = g.ThreadHandles /\ g'.Restart = g.Restart
        /\ \/ ctrl' = [ctrl EXCEPT !.pc = "clear", !.sock = g.sdListen]
           \/ ctrl' = [ctrl EXCEPT !.pc = "flag"]
           \/ ctrl' = [ctrl EXCEPT !.pc = "close"]
    BY <1>0, <1>13 DEF TakeListen, ClearListen, SetEndServer
  <2>2. /\ ctrl' \in [pc : {"idle", "take", "clear", "flag", "close"},
                 sock : Listens,
                      events : 0 .. MaxEvents, breaks : 0 .. MaxBreaks]
        /\ ctrl'.breaks = ctrl.breaks
    BY <2>1 DEF RunsInv
  <2> QED
    BY <1>1, <2>1, <2>2 DEF RunsInv
<1>14. CASE CloseListen
  <2>1. /\ UNCHANGED <<main, g>> /\ kernel'.ports = kernel.ports
        /\ kernel'.nulls = kernel.nulls
        /\ kernel'.listening \subseteq kernel.listening
        /\ ctrl' = [ctrl EXCEPT !.pc = "idle", !.sock = Invalid]
    BY <1>0, <1>14 DEF CloseListen
  <2>2. /\ ctrl' \in [pc : {"idle", "take", "clear", "flag", "close"},
                 sock : Listens,
                      events : 0 .. MaxEvents, breaks : 0 .. MaxBreaks]
        /\ ctrl'.breaks = ctrl.breaks
    BY <1>1, <2>1 DEF RunsInv
  <2> QED
    BY <2>1, <2>2 DEF RunsInv
<1>15. ASSUME NEW t \in Threads, TakeNull(t) PROVE RunsInv'
  <2>1. /\ UNCHANGED <<main, g, ctrl>> /\ kernel'.ports = kernel.ports
        /\ kernel'.listening = kernel.listening
        /\ kernel'.nulls = [kernel.nulls EXCEPT ![t[2]] = @ - 1]
        /\ t[2] \in Runs /\ kernel.nulls[t[2]] > 0
    BY <1>0, <1>15 DEF TakeNull, Threads
  <2>2. kernel'.nulls \in [Runs -> Nat]
    BY <2>1 DEF RunsInv
  <2> QED
    BY <2>1, <2>2 DEF RunsInv
<1>16. ASSUME NEW t \in Threads,
              \/ \E c \in Clients : TakePacket(t, c)
              \/ Abandoned(t) \/ TestEndServer(t) \/ Serve(t)
              \/ CloseClient(t) \/ CloseRaises(t) \/ Log(t)
       PROVE  RunsInv'
  <2>1. UNCHANGED <<main, kernel, ctrl>>
    BY <1>16, ZenonT(60)
       DEF TakePacket, Abandoned, TestEndServer, Serve, CloseClient,
         CloseRaises, Log
  <2>2. UNCHANGED g \/ g' = [g EXCEPT !.CtxtList = HeadWithout(worker[t].key)]
    BY <1>16, ZenonT(60)
       DEF TakePacket, Abandoned, TestEndServer, Serve, CloseClient,
         CloseRaises, Log, CtxtListDeleteFrom
  <2> QED
    BY <1>0, <2>1, <2>2, RunsKept
<1>17. ASSUME NEW c \in Clients, Complete(c) \/ Peer(c) PROVE RunsInv'
  BY <1>17, RunsKept DEF Complete, Peer
<1>18. CASE MainThread
  BY <1>2, <1>3, <1>4, <1>5, <1>6, <1>7, <1>8, <1>9, <1>10, <1>11, <1>18
     DEF MainThread
<1>19. CASE \E t \in Threads : WorkerThread(t)
  BY <1>2, <1>15, <1>16, <1>19 DEF WorkerThread
<1> QED
  BY <1>2, <1>3, <1>12, <1>13, <1>14, <1>17, <1>18, <1>19
     DEF Next, CtrlHandler

CrashedOK == crashed \in BOOLEAN

(* They hold always.                                                       *)
LEMMA RunsInvAlways == Spec => [](RunsInv /\ CrashedOK)
<1>1. Init => CrashedOK
  BY DEF Init, CrashedOK
<1>2. ASSUME [Next]_vars PROVE crashed' \in {crashed, TRUE}
  <2>1. MainThread => crashed' \in {crashed, TRUE}
    BY DEF MainThread, Restart, ResetEndServer, CreatePort, CreateThreads,
         CreateSocket, Bind, UpdateCompletionPort, CheckEndServer, PostRecv,
         BeginCleanup, WaitForWorkers, EnterListFree, CloseNext, FreeNext,
         LeaveListFree, EndRun, MainUsesFreed, Crash
  <2>2. ASSUME NEW t \in Threads, WorkerThread(t)
        PROVE  crashed' \in {crashed, TRUE}
    BY <2>2 DEF WorkerThread, TakePacket, TakeNull, Abandoned, TestEndServer,
         Serve, CloseClient,
     CloseRaises, Log, WorkerUsesFreed, Crash
  <2>3. AcceptFails \/ ConsoleEvent \/ CtrlHandler \/ UNCHANGED vars
          => crashed' = crashed
    BY DEF AcceptFails, ConsoleEvent, CtrlHandler, TakeListen, ClearListen,
         SetEndServer, CloseListen,
         vars
  <2>4. ASSUME NEW c \in Clients, Accept(c) \/ Complete(c) \/ Peer(c)
        PROVE  crashed' = crashed
    BY <2>4 DEF Accept, Complete, Peer
  <2> QED
    BY <1>2, <2>1, <2>2, <2>3, <2>4 DEF Next
<1>3. CrashedOK /\ [Next]_vars => CrashedOK'
  BY <1>2 DEF CrashedOK
<1> QED
  BY <1>1, <1>3, PortInvAlways, RunsInit, RunsStep, PTL DEF Spec

(* So the types are those that TypeOK states: buffers and parts of a       *)
(* message never exceed the buffer, whoever completes or posts what.       *)
THEOREM TypeCorrect == Spec => []TypeOK
<1>1. ASSUME PortInv, EchoInv, RunsInv, CrashedOK PROVE TypeOK
  <2>1. ASSUME NEW c \in Clients PROVE client[c] \in ClientType
    <3>1. client[c] \in Connections /\ ContextOK(client[c])
      BY <1>1, Fields DEF PortInv, EchoInv, EchoAt
    <3> QED
      BY <3>1 DEF Connections, ContextOK, ClientType
  <2>2. ASSUME NEW t \in Threads PROVE worker[t] \in WorkerType
    <3>1. worker[t] \in Workmen /\ worker[t].size \in 0 .. MAX_BUFF_SIZE
      BY <1>1, Fields DEF PortInv, EchoInv, SizesInv
    <3> QED
      BY <3>1 DEF Workmen, WorkerType
  <2>3. client \in [Clients -> ClientType] /\ worker \in [Threads -> WorkerType]
    BY <1>1, <2>1, <2>2 DEF PortInv, Shape
  <2>4. g \in [Verbose : BOOLEAN, EndServer : BOOLEAN, Restart : BOOLEAN,
               IOCP : BOOLEAN, sdListen : Listens, CtxtList : Keys,
               ThreadHandles : [Workers -> Listens]]
    BY <1>1 DEF PortInv, Shape, RunsInv
  <2>5. main \in [pc : {"top", "reset", "port", "threads", "socket", "bind",
                       "accept", "update", "check", "recv", "finally", "wait",
                       "enter", "free", "freeWait", "endRun", "done"},
                  run : 0 .. MaxBreaks + 1, sdAccept : Keys, at : Keys,
                  next : Keys, late : BOOLEAN, left : BOOLEAN]
    <3>1. main.run \in 0 .. MaxBreaks + 1
      <4>1. main.run \in Nat /\ ctrl.breaks \in 0 .. MaxBreaks
            /\ MaxBreaks \in Nat
        BY <1>1, Fields, ConstantsAssumption DEF PortInv, RunsInv
      <4> QED
        BY <1>1, <4>1 DEF RunsInv
    <3> QED
      BY <1>1, <3>1 DEF PortInv, Shape
  <2>6. kernel \in [ports : SUBSET Runs, nulls : [Runs -> Nat],
                    listening : SUBSET Runs]
    BY <1>1 DEF PortInv, Shape, RunsInv
  <2> QED
    BY <1>1, <2>3, <2>4, <2>5, <2>6 DEF TypeOK, RunsInv, CrashedOK
<1> QED
  BY <1>1, PortInvAlways, EchoInvAlways, RunsInvAlways, PTL

(* What a peer gets back is what it sent, in order and once.               *)
THEOREM EchoAlwaysFaithful == Spec => []EchoIsFaithful
<1>1. EchoInv => EchoIsFaithful
  <2>1. ASSUME EchoInv, NEW c \in Clients
        PROVE  /\ Len(client[c].echo) <= client[c].said
               /\ Faithful(client[c].echo)
    <3>1. /\ client[c].got \in Nat /\ client[c].said \in Nat
          /\ Len(client[c].echo) \in Nat
          /\ Len(client[c].echo) <= client[c].got
          /\ client[c].got <= client[c].said
          /\ Faithful(client[c].echo)
      BY <2>1 DEF EchoInv, EchoAt, ContextOK
    <3> QED
      BY <3>1
  <2> QED
    BY <2>1 DEF Faithful, EchoIsFaithful
<1> QED
  BY <1>1, EchoInvAlways, PTL

-----------------------------------------------------------------------------
(* Who owns a context, until a run has ended with a cleanup that gave up   *)
(* its wait.  In such a cleanup workers may still take packets: the port   *)
(* is there, and the next run has not begun.                               *)
Owned ==
    /\ \A t \in Threads :
         worker[t].pc \notin {"none", "ended"} => t[2] \in kernel.ports
    /\ \A t \in Threads, c \in Clients : Holds(t, c) =>
         /\ client[c].io = "none"
         /\ \A u \in Threads : Holds(u, c) => u = t

Underway ==
    \A c \in Clients : client[c].io = "pending" => client[c].ctx = "live"

LatePoints == {"enter", "free", "freeWait", "endRun", "done"}

OwnersInv ==
    /\ main.left => main.late
    /\ ~main.left =>
         /\ Owned /\ Underway
         /\ main.late => main.pc \in LatePoints

(* Nobody owns anything at the start.                                      *)
LEMMA OwnersInit == Init => OwnersInv
<1>. SUFFICES ASSUME Init PROVE OwnersInv
  OBVIOUS
<1>1. /\ \A t \in Threads : worker[t].pc = "none"
      /\ \A c \in Clients : client[c].io = "none"
      /\ ~main.late /\ ~main.left
  BY NewShape DEF Init
<1> QED
  BY <1>1 DEF OwnersInv, Owned, Underway, Holds

(* What is not posted has its owner, whatever else a step does.            *)
LEMMA OwnedKept ==
  ASSUME Owned, UNCHANGED worker, kernel'.ports = kernel.ports,
         \A c \in Clients : client[c].io = "none" => client'[c].io = "none"
  PROVE  Owned'
BY DEF Owned, Holds

(* The same for a step of a worker.                                        *)
LEMMA OwnedByWorker ==
  ASSUME PortInv, Owned, NEW t \in Threads, NEW u,
         worker' = [worker EXCEPT ![t] = u], kernel'.ports = kernel.ports,
         worker[t].pc \notin {"none", "ended"},
         \A c \in Clients, v \in Threads :
             v # t /\ Holds(v, c) => client'[c].io = "none",
         u.pc \in {"test", "serve", "close"} =>
             /\ client'[u.key].io = "none"
             /\ \A v \in Threads : v # t => ~Holds(v, u.key)
  PROVE  Owned'
<1>1. /\ worker'[t] = u
      /\ \A v \in Threads : v # t => worker'[v] = worker[v]
  BY DEF PortInv, Shape
<1>2. \A v \in Threads, c \in Clients : v # t => (Holds(v, c)' <=> Holds(v, c))
  BY <1>1 DEF Holds
<1>3. \A c \in Clients : Holds(t, c)' =>
        u.key = c /\ u.pc \in {"test", "serve", "close"}
  BY <1>1 DEF Holds
<1>4. ASSUME NEW v \in Threads, NEW c \in Clients, Holds(v, c)'
      PROVE  /\ client'[c].io = "none"
             /\ \A w \in Threads : Holds(w, c)' => w = v
  <2>1. CASE v = t
    BY <1>2, <1>3, <1>4, <2>1
  <2>2. CASE v # t
    BY <1>2, <1>3, <1>4, <2>2 DEF Owned
  <2> QED
    BY <2>1, <2>2
<1>5. \A v \in Threads :
        worker'[v].pc \notin {"none", "ended"} => v[2] \in kernel'.ports
  BY <1>1 DEF Owned
<1> QED
  BY <1>4, <1>5 DEF Owned

(* No worker takes what another one has.                                   *)
LEMMA OwnedWorkerStep ==
  ASSUME PortInv, EchoInv, Owned, NEW t \in Threads, WorkerThread(t),
         ~Crash
  PROVE  Owned'
<1>1. \A c \in Clients, v \in Threads : Holds(v, c) => client[c].io = "none"
  BY DEF Owned
<1>. DEFINE ended == [NewWorker EXCEPT !.pc = "ended"]
<1>2. ended.pc = "ended"
  BY EndedType
<1>. HIDE DEF ended
<1>3. ASSUME NEW u, worker' = [worker EXCEPT ![t] = u], UNCHANGED client,
             kernel'.ports = kernel.ports,
             worker[t].pc \notin {"none", "ended"},
             u.pc \in {"test", "serve", "close"} =>
                 Holds(t, u.key) /\ u.key \in Clients
      PROVE  Owned'
  <2>1. u.pc \in {"test", "serve", "close"} =>
          /\ client'[u.key].io = "none"
          /\ \A v \in Threads : v # t => ~Holds(v, u.key)
    BY <1>3 DEF Owned
  <2> QED
    BY <1>1, <1>3, <2>1, OwnedByWorker
<1>4. CASE \E c \in Clients : TakePacket(t, c)
  <2>1. PICK c \in Clients : TakePacket(t, c)
    BY <1>4
  <2>. DEFINE u == [pc |-> "test", key |-> c, ok |-> client[c].ok,
                    size |-> client[c].size]
  <2>2. /\ worker' = [worker EXCEPT ![t] = u] /\ client[c].io = "done"
        /\ u.key = c /\ worker[t].pc = "wait" /\ UNCHANGED kernel
    BY <2>1 DEF TakePacket
  <2>3. client'[c].io = "none" /\ \A d \in Clients : d # c =>
          client'[d].io = client[d].io
    <3>1. /\ client[c] \in Connections
          /\ client' = [client EXCEPT ![c] =
                [client[c] EXCEPT !.io = "none", !.ok = TRUE, !.size = 0]]
      BY <2>1, Fields DEF TakePacket, PortInv, Shape
    <3> QED
      BY <3>1 DEF PortInv, Shape, Connections
  <2>4. \A v \in Threads : ~Holds(v, c)
    BY <1>1, <2>2
  <2>. HIDE DEF u
  <2> QED
    BY <1>1, <2>2, <2>3, <2>4, OwnedByWorker
<1>5. CASE \/ TakeNull(t)
           \/ TestEndServer(t) /\ g.EndServer
  <2>1. /\ worker' = [worker EXCEPT ![t] = ended] /\ UNCHANGED client
        /\ worker[t].pc \in {"wait", "test"}
    BY <1>5 DEF TakeNull, TestEndServer, End, ended
  <2>2. kernel'.ports = kernel.ports
    BY <1>5 DEF TakeNull, TestEndServer, PortInv, Shape
  <2> QED
    BY <1>2, <1>3, <2>1, <2>2
<1>6. CASE Abandoned(t)
  BY <1>6 DEF Abandoned, Owned
<1>7. CASE TestEndServer(t) /\ ~g.EndServer
  <2>1. /\ worker[t] \in Workmen /\ worker \in [Threads -> Workmen]
        /\ worker[t].pc = "test" /\ worker[t].key \in Clients
    BY <1>7, Fields DEF PortInv, Shape, KeysInv, TestEndServer
  <2>2. PICK p \in {"close", "serve"} : worker' = [worker EXCEPT ![t].pc = p]
    BY <1>7 DEF TestEndServer
  <2>. DEFINE u == [worker[t] EXCEPT !.pc = p]
  <2>3. u.key = worker[t].key /\ worker' = [worker EXCEPT ![t] = u]
    BY <2>1, <2>2 DEF Workmen
  <2>4. Holds(t, worker[t].key)
    BY <2>1 DEF Holds
  <2>5. UNCHANGED <<client, kernel>>
    BY <1>7 DEF TestEndServer
  <2>. HIDE DEF u
  <2> QED
    BY <1>3, <2>1, <2>3, <2>4, <2>5
<1>10. CASE CloseRaises(t)
  <2>. DEFINE u == At("wait", worker[t].key)
  <2>1. worker' = [worker EXCEPT ![t] = u] /\ worker[t].pc = "close"
        /\ UNCHANGED <<client, kernel>>
    BY <1>10 DEF CloseRaises
  <2>2. u.pc = "wait"
    BY Fields, AtType DEF PortInv, Points
  <2>. HIDE DEF u
  <2> QED
    BY <1>3, <2>1, <2>2
<1>8. CASE Log(t)
  <2>1. /\ worker[t] \in Workmen /\ worker \in [Threads -> Workmen]
        /\ UNCHANGED <<client, kernel>> /\ worker[t].pc = "log"
        /\ worker' = [worker EXCEPT ![t].pc = "wait"]
    BY <1>8, Fields DEF PortInv, Shape, Log
  <2>. DEFINE u == [worker[t] EXCEPT !.pc = "wait"]
  <2>2. u.pc = "wait" /\ worker' = [worker EXCEPT ![t] = u]
    BY <2>1 DEF Workmen
  <2>. HIDE DEF u
  <2> QED
    BY <1>3, <2>1, <2>2
<1>9. CASE Serve(t) \/ CloseClient(t)
  <2>1. PICK c \in Clients : c = worker[t].key
    BY <1>9 DEF PortInv, KeysInv, Serve, CloseClient
  <2>2. /\ Holds(t, c) /\ UNCHANGED kernel
        /\ worker[t].pc \in {"serve", "close"}
        /\ \A v \in Threads : v # t => ~Holds(v, c)
        /\ client[c].io = "none"
    BY <1>9, <2>1 DEF Serve, CloseClient, Holds, Owned
  <2>3. PICK p \in Points \ {"test", "serve"} :
          /\ worker' = [worker EXCEPT ![t] = At(p, c)]
          /\ p = "close" => client'[c].io = "none"
          /\ \A d \in Clients : d # c => client'[d].io = client[d].io
    <3>1. CASE Serve(t)
      <4>1. PICK r \in Connections, p \in Points \ {"test", "serve"} :
              /\ client' = [client EXCEPT ![c] = r]
              /\ worker' = [worker EXCEPT ![t] = At(p, c)]
              /\ p = "close" => r.io = "none"
        BY <2>1, <3>1, ServeEffect
      <4>2. client'[c] = r /\ \A d \in Clients : d # c => Same(d)
        BY <4>1, OneConnection DEF PortInv
      <4> QED
        BY <4>1, <4>2 DEF Same
    <3>2. CASE CloseClient(t)
      <4>1. /\ CtxtListDeleteFrom(c)
            /\ worker' = [worker EXCEPT ![t] = At("wait", c)]
        BY <2>1, <3>2 DEF CloseClient
      <4>2. \A d \in Clients : d # c => Same(d)
        BY <4>1, ListDelete DEF PortInv
      <4>3. "wait" \in Points \ {"test", "serve"}
        BY DEF Points
      <4> QED
        BY <4>1, <4>2, <4>3 DEF Same
    <3> QED
      BY <1>9, <3>1, <3>2
  <2>4. At(p, c).pc = p /\ At(p, c).key = c
    BY <2>3, AtType DEF Keys
  <2>5. \A d \in Clients, v \in Threads :
          v # t /\ Holds(v, d) => client'[d].io = "none"
    BY <1>1, <2>2, <2>3
  <2> QED
    BY <2>2, <2>3, <2>4, <2>5, OwnedByWorker
<1> QED
  BY <1>4, <1>5, <1>6, <1>7, <1>8, <1>9, <1>10
     DEF WorkerThread, WorkerUsesFreed

(* A step at one connection keeps those under way live, if it does at that *)
(* one.                                                                    *)
LEMMA UnderwayTouched ==
  ASSUME Underway, NEW c \in Clients, \A d \in Clients : d # c => Same(d),
         client'[c].io = "pending" => client'[c].ctx = "live"
  PROVE  Underway'
BY DEF Underway, Same

(* The structure of an operation under way is not freed by its owner,      *)
(* which there is none of, nor by the cleanup, which waits for it.         *)
LEMMA UnderwayStep ==
  ASSUME PortInv, EchoInv, Owned, Underway, [Next]_vars PROVE Underway'
<1>1. CASE Crash
  <2>1. \A c \in Clients : client'[c].io = "none"
    BY <1>1, NewShape DEF Crash
  <2> QED
    BY <2>1 DEF Underway
<1>2. CASE UNCHANGED client
  BY <1>2 DEF Underway
<1>3. ASSUME NEW c \in Clients, Accept(c) PROVE Underway'
  <2>. DEFINE r == [client[c] EXCEPT !.sock = "open"]
  <2>1. client[c] \in Connections /\ client' = [client EXCEPT ![c] = r]
    BY <1>3, Fields DEF Accept, PortInv, Shape
  <2>2. r \in Connections /\ r.io = client[c].io /\ r.ctx = client[c].ctx
    BY <2>1 DEF Connections
  <2>. HIDE DEF r
  <2> QED
    BY <2>1, <2>2, OneConnection, UnderwayTouched DEF PortInv, Underway
<1>4. CASE UpdateCompletionPort /\ ~Crash /\ client' # client
  <2>1. PICK c \in Clients : c = main.sdAccept
    BY <1>4 DEF UpdateCompletionPort, PortInv, KeysInv
  <2>2. CtxtListAddTo(c) \/ NotAddedToList(c)
    BY <1>4, <2>1 DEF UpdateCompletionPort
  <2> QED
    BY <2>2, ListAdd, ListNotAdded, UnderwayTouched DEF PortInv
<1>5. CASE PostRecv
  <2>1. PICK c \in Clients : c = main.sdAccept
    BY <1>5 DEF PostRecv, PortInv, KeysInv
  <2>2. client[c].ctx = "live" /\ client[c].io = "none"
        /\ client[c] \in Connections
    BY <1>5, <2>1, Fields DEF PostRecv, PortInv, KeysInv, Idle
  <2>3. CASE client' = [client EXCEPT ![c] = Posted(@)]
    <3>. DEFINE r == Posted(client[c])
    <3>1. client' = [client EXCEPT ![c] = r]
      BY <2>3 DEF PortInv, Shape
    <3>2. r \in Connections /\ r.ctx = client[c].ctx
      BY <2>2 DEF Connections, Posted
    <3>. HIDE DEF r
    <3> QED
      BY <2>2, <3>1, <3>2, OneConnection, UnderwayTouched DEF PortInv
  <2>4. CASE CtxtListDeleteFrom(c)
    BY <2>2, <2>4, ListDelete, UnderwayTouched DEF PortInv
  <2> QED
    BY <1>2, <1>5, <2>1, <2>3, <2>4 DEF PostRecv
<1>6. CASE CloseNext
  <2>1. PICK c \in Clients : c = main.at
    BY <1>6, Fields DEF CloseNext, PortInv, Keys
  <2>. DEFINE r == CloseSocket(client[c])
  <2>2. client[c] \in Connections /\ client' = [client EXCEPT ![c] = r]
    BY <1>6, <2>1, Fields DEF CloseNext, PortInv, Shape
  <2>3. r \in Connections /\ r.io = client[c].io /\ r.ctx = client[c].ctx
    BY <2>2 DEF Connections, CloseSocket
  <2>. HIDE DEF r
  <2> QED
    BY <2>2, <2>3, OneConnection, UnderwayTouched DEF PortInv, Underway
<1>7. CASE FreeNext
  <2>1. PICK c \in Clients : c = main.at
    BY <1>7 DEF FreeNext, PortInv, KeysInv
  <2>2. CtxtListDeleteFrom(c) /\ client[c].io # "pending"
    BY <1>7, <2>1 DEF FreeNext, HasOverlappedIoCompleted
  <2> QED
    BY <2>2, ListDelete, UnderwayTouched DEF PortInv
<1>8. CASE EndRun
  <2>1. ASSUME NEW c \in Clients
        PROVE  client'[c].io = client[c].io /\ client'[c].ctx = client[c].ctx
    <3>1. client[c] \in Connections
      BY Fields DEF PortInv
    <3>2. client'[c] \in {client[c], [client[c] EXCEPT !.sock = "closed"]}
      BY <1>8 DEF EndRun
    <3> QED
      BY <3>1, <3>2 DEF Connections
  <2> QED
    BY <2>1 DEF Underway
<1>9. ASSUME NEW t \in Threads, NEW c \in Clients, TakePacket(t, c)
      PROVE  Underway'
  <2>. DEFINE r == [client[c] EXCEPT !.io = "none", !.ok = TRUE, !.size = 0]
  <2>1. client[c] \in Connections /\ client' = [client EXCEPT ![c] = r]
    BY <1>9, Fields DEF TakePacket, PortInv, Shape
  <2>2. r.io = "none"
    BY <2>1 DEF Connections
  <2>. HIDE DEF r
  <2> QED
    BY <2>1, <2>2 DEF PortInv, Shape, Underway
<1>10. ASSUME NEW t \in Threads, Serve(t) PROVE Underway'
  <2>1. PICK c \in Clients : c = worker[t].key
    BY <1>10 DEF PortInv, KeysInv, Serve
  <2>2. PICK r \in Connections :
          client' = [client EXCEPT ![c] = r] /\ r.ctx = "live"
    BY <1>10, <2>1, ServeEffect
  <2> QED
    BY <2>2, OneConnection, UnderwayTouched DEF PortInv
<1>11. ASSUME NEW t \in Threads, CloseClient(t) PROVE Underway'
  <2>1. PICK c \in Clients : c = worker[t].key
    BY <1>11 DEF PortInv, KeysInv, CloseClient
  <2>2. CtxtListDeleteFrom(c) /\ client[c].io = "none"
    BY <1>11, <2>1 DEF CloseClient, Owned, Holds
  <2> QED
    BY <2>2, ListDelete, UnderwayTouched DEF PortInv
<1>12. ASSUME NEW c \in Clients, Complete(c) \/ Peer(c) PROVE Underway'
  <2>1. client[c] \in Connections
    BY Fields DEF PortInv
  <2>2. PICK r : client' = [client EXCEPT ![c] = r] /\
                 (r.ctx = client[c].ctx \/ r.io = "done") /\
                 (r.io = client[c].io \/ r.io = "done")
    <3>1. CASE Peer(c)
      <4>1. PICK r : /\ client' = [client EXCEPT ![c] = r]
                     /\ \/ r = [client[c] EXCEPT !.said = @ + 1]
                        \/ r = [client[c] EXCEPT !.peer = "closed"]
                        \/ r = [client[c] EXCEPT !.peer = "reset"]
        BY <3>1 DEF Peer, PortInv, Shape
      <4>2. r.ctx = client[c].ctx /\ r.io = client[c].io
        BY <2>1, <4>1 DEF Connections
      <4> QED
        BY <4>1, <4>2
    <3>2. CASE CompleteRead(c)
      <4>1. \A n : Completed(client[c], n).io = "done"
        BY <2>1 DEF Completed, Connections
      <4>2. \A n : [Completed(client[c], n) EXCEPT !.got = @ + n].io = "done"
        BY <2>1 DEF Completed, Connections
      <4> QED
        BY <3>2, <4>1, <4>2 DEF CompleteRead
    <3>3. CASE CompleteWrite(c)
      <4>1. PICK n, e : client' = [client EXCEPT ![c] =
                          [Completed(client[c], n) EXCEPT !.echo = e]]
        BY <3>3 DEF CompleteWrite
      <4>2. [Completed(client[c], n) EXCEPT !.echo = e].io = "done"
        BY <2>1 DEF Completed, Connections
      <4> QED
        BY <4>1, <4>2
    <3>4. CASE CompleteAborted(c)
      <4>. DEFINE r == [client[c] EXCEPT !.io = "done", !.ok = FALSE,
                                         !.size = 0]
      <4>1. client' = [client EXCEPT ![c] = r]
        BY <3>4 DEF CompleteAborted, PortInv, Shape
      <4>2. r.io = "done"
        BY <2>1 DEF Connections
      <4>. HIDE DEF r
      <4> QED
        BY <4>1, <4>2
    <3> QED
      BY <1>12, <3>1, <3>2, <3>3, <3>4 DEF Complete
  <2> QED
    BY <2>2 DEF PortInv, Shape, Underway
<1>13. CASE MainThread
  <2>1. \/ UNCHANGED client \/ Crash \/ PostRecv \/ CloseNext \/ FreeNext
        \/ EndRun \/ UpdateCompletionPort
    BY <1>13 DEF MainThread, Restart, ResetEndServer, CreatePort,
         CreateThreads, CreateSocket, Bind, CheckEndServer, BeginCleanup,
         WaitForWorkers, EnterListFree, LeaveListFree, MainUsesFreed
  <2> QED
    BY <1>1, <1>2, <1>4, <1>5, <1>6, <1>7, <1>8, <2>1
<1>14. ASSUME NEW t \in Threads, WorkerThread(t) PROVE Underway'
  <2>1. \/ UNCHANGED client \/ Crash \/ Serve(t) \/ CloseClient(t)
        \/ \E c \in Clients : TakePacket(t, c)
    BY <1>14 DEF WorkerThread, TakeNull, Abandoned, TestEndServer,
         CloseRaises, Log, WorkerUsesFreed
  <2> QED
    BY <1>1, <1>2, <1>9, <1>10, <1>11, <2>1
<1>15. CASE AcceptFails \/ ConsoleEvent \/ CtrlHandler \/ UNCHANGED vars
  BY <1>2, <1>15 DEF AcceptFails, ConsoleEvent, CtrlHandler, TakeListen,
     ClearListen, SetEndServer, CloseListen, vars
<1> QED
  BY <1>3, <1>12, <1>13, <1>14, <1>15 DEF Next

(* In a late cleanup nobody becomes the owner of what another one has.     *)
LEMMA OwnedStep ==
  ASSUME PortInv, EchoInv, Owned, main.late, main.pc \in LatePoints,
         [Next]_vars, ~main'.left
  PROVE  Owned' /\ main'.pc \in LatePoints
<1>0. /\ main \in [pc : {"top", "reset", "port", "threads", "socket", "bind",
                       "accept", "update", "check", "recv", "finally", "wait",
                       "enter", "free", "freeWait", "endRun", "done"},
                   run : Nat, sdAccept : Keys, at : Keys, next : Keys,
                   late : BOOLEAN, left : BOOLEAN]
      /\ kernel \in [ports : SUBSET Nat, nulls : [Runs -> Int],
                     listening : SUBSET Nat]
  BY DEF PortInv, Shape
<1>1. CASE Crash
  <2>1. \A t \in Threads : worker'[t].pc = "none"
    BY <1>1, NewShape DEF Crash
  <2>2. main'.pc = "done"
    BY <1>0, <1>1 DEF Crash
  <2> QED
    BY <2>1, <2>2 DEF Owned, Holds, LatePoints
<1>2. CASE MainThread /\ ~Crash
  <2>1. EnterListFree \/ CloseNext \/ FreeNext \/ LeaveListFree
    <3>1. ~EndRun
      BY <1>0 DEF EndRun
    <3>2. main.pc \in {"enter", "free", "freeWait", "endRun", "done"}
      BY DEF LatePoints
    <3> QED
      BY <1>2, <3>1, <3>2 DEF MainThread, Restart, ResetEndServer,
         CreatePort, CreateThreads, CreateSocket, Bind,
         UpdateCompletionPort, CheckEndServer, PostRecv, BeginCleanup,
         WaitForWorkers, MainUsesFreed
  <2>2. /\ main'.pc \in LatePoints /\ UNCHANGED <<worker, kernel>>
    BY <1>0, <2>1 DEF EnterListFree, CloseNext, FreeNext, LeaveListFree,
       Goto, LatePoints
  <2>3. \A c \in Clients : client'[c].io = client[c].io
    <3>1. CASE EnterListFree \/ LeaveListFree
      BY <3>1 DEF EnterListFree, LeaveListFree
    <3>2. CASE CloseNext
      <4>1. PICK c \in Clients : c = main.at
        BY <3>2, Fields DEF CloseNext, PortInv, Keys
      <4>. DEFINE r == CloseSocket(client[c])
      <4>2. client[c] \in Connections /\ client' = [client EXCEPT ![c] = r]
        BY <3>2, <4>1, Fields DEF CloseNext, PortInv, Shape
      <4>3. r.io = client[c].io
        BY <4>2 DEF Connections, CloseSocket
      <4>. HIDE DEF r
      <4> QED
        BY <4>2, <4>3 DEF PortInv, Shape
    <3>3. CASE FreeNext
      <4>1. PICK c \in Clients : c = main.at
        BY <3>3 DEF FreeNext, PortInv, KeysInv
      <4>2. CtxtListDeleteFrom(c)
        BY <3>3, <4>1 DEF FreeNext
      <4> QED
        BY <4>2, ListDelete DEF PortInv, Same
    <3> QED
      BY <2>1, <3>1, <3>2, <3>3
  <2> QED
    BY <2>2, <2>3, OwnedKept
<1>3. CASE ConsoleEvent \/ CtrlHandler \/ UNCHANGED vars
  BY <1>3, OwnedKept DEF ConsoleEvent, CtrlHandler, TakeListen, ClearListen,
         SetEndServer, CloseListen,
     vars, PortInv, Shape
<1>4. CASE AcceptFails \/ \E c \in Clients : Accept(c)
  BY <1>4 DEF AcceptFails, Accept, LatePoints
<1>5. ASSUME NEW t \in Threads, WorkerThread(t), ~Crash
      PROVE  Owned' /\ main'.pc \in LatePoints
  <2>1. UNCHANGED main
    BY <1>5 DEF WorkerThread, TakePacket, TakeNull, Abandoned,
       TestEndServer, Serve, CloseClient,
     CloseRaises, Log, WorkerUsesFreed
  <2> QED
    BY <1>5, <2>1, OwnedWorkerStep
<1>6. ASSUME NEW c \in Clients, Complete(c) \/ Peer(c)
      PROVE  Owned' /\ main'.pc \in LatePoints
  <2>1. client[c] \in Connections /\ UNCHANGED <<worker, main, kernel>>
    BY <1>6, Fields DEF PortInv, Complete, Peer
  <2>2. \A d \in Clients : client[d].io = "none" => client'[d].io = "none"
    <3>1. CASE Complete(c)
      BY <3>1 DEF Complete, CompleteRead, CompleteWrite, CompleteAborted,
         PortInv, Shape
    <3>2. CASE Peer(c)
      <4>1. PICK r : /\ client' = [client EXCEPT ![c] = r]
                     /\ \/ r = [client[c] EXCEPT !.said = @ + 1]
                        \/ r = [client[c] EXCEPT !.peer = "closed"]
                        \/ r = [client[c] EXCEPT !.peer = "reset"]
        BY <3>2 DEF Peer, PortInv, Shape
      <4>2. r.io = client[c].io
        BY <2>1, <4>1 DEF Connections
      <4> QED
        BY <4>1, <4>2 DEF PortInv, Shape
    <3> QED
      BY <1>6, <3>1, <3>2
  <2> QED
    BY <2>1, <2>2, OwnedKept
<1> QED
  BY <1>1, <1>2, <1>3, <1>4, <1>5, <1>6 DEF Next

(* A wait is given up in one place, and a run is left in one.              *)
LEMMA LateMoves ==
  ASSUME PortInv, [Next]_vars
  PROVE  \/ main'.late = main.late /\ main'.left = main.left
         \/ /\ main'.left = main.left /\ main'.late /\ main'.pc = "enter"
            /\ UNCHANGED <<kernel, worker, client>>
         \/ main'.late = main.late /\ main'.left = main.late
<1>0. main \in [pc : {"top", "reset", "port", "threads", "socket", "bind",
                       "accept", "update", "check", "recv", "finally", "wait",
                       "enter", "free", "freeWait", "endRun", "done"},
                run : Nat, sdAccept : Keys, at : Keys, next : Keys,
                late : BOOLEAN, left : BOOLEAN]
  BY DEF PortInv, Shape
<1>. USE DEF Goto
<1>1. CASE Crash \/ AcceptFails \/ \E c \in Clients : Accept(c)
  BY <1>0, <1>1 DEF Crash, AcceptFails, Accept
<1>2. CASE MainThread /\ ~Crash
  <2>1. CASE WaitForWorkers
    BY <1>0, <2>1 DEF WaitForWorkers
  <2>2. CASE \/ Restart \/ ResetEndServer \/ CreatePort \/ CreateSocket
             \/ Bind \/ CheckEndServer \/ PostRecv \/ BeginCleanup
    BY <1>0, <2>2 DEF Restart, ResetEndServer, CreatePort, CreateSocket,
       Bind, CheckEndServer, PostRecv, BeginCleanup
  <2>3. CASE \/ EnterListFree \/ CloseNext \/ FreeNext \/ LeaveListFree
             \/ EndRun \/ UpdateCompletionPort
    BY <1>0, <1>2, <2>3 DEF EnterListFree, CloseNext, FreeNext,
       LeaveListFree, EndRun, UpdateCompletionPort
  <2>4. CASE CreateThreads
    BY <1>0, <2>4 DEF CreateThreads
  <2> QED
    BY <1>2, <2>1, <2>2, <2>3, <2>4 DEF MainThread, MainUsesFreed
<1>3. CASE ConsoleEvent \/ CtrlHandler \/ UNCHANGED vars
  BY <1>3 DEF ConsoleEvent, CtrlHandler, TakeListen, ClearListen,
         SetEndServer, CloseListen, vars
<1>4. ASSUME NEW t \in Threads, WorkerThread(t), ~Crash PROVE UNCHANGED main
  BY <1>4 DEF WorkerThread, TakePacket, TakeNull, Abandoned, TestEndServer,
     Serve, CloseClient,
     CloseRaises, Log, WorkerUsesFreed
<1>5. ASSUME NEW c \in Clients, Complete(c) \/ Peer(c) PROVE UNCHANGED main
  BY <1>5 DEF Complete, Peer
<1> QED
  BY <1>1, <1>2, <1>3, <1>4, <1>5 DEF Next

(* No step breaks what is said of the owners.                              *)
LEMMA OwnersStep ==
  ASSUME PortInv, PortInv', EchoInv, OwnersInv, [Next]_vars
  PROVE  OwnersInv'
<1>0. /\ main.late \in BOOLEAN /\ main.left \in BOOLEAN
      /\ main'.late \in BOOLEAN /\ main'.left \in BOOLEAN
  BY DEF PortInv, Shape
<1>1. main'.left => main'.late
  BY LateMoves, <1>0 DEF OwnersInv
<1>2. ASSUME ~main'.left
      PROVE  Owned' /\ Underway' /\ (main'.late => main'.pc \in LatePoints)
  <2>1. Owned /\ Underway
    BY <1>0, <1>2, LateMoves DEF OwnersInv
  <2>2. Underway'
    BY <2>1, UnderwayStep
  <2>3. CASE ~main'.late
    <3>1. Owned'
      BY <2>3 DEF PortInv, WorkersInv, ContextsInv, Owned
    <3> QED
      BY <2>2, <2>3, <3>1
  <2>4. CASE main'.late /\ main.late
    BY <1>0, <1>2, <2>1, <2>2, <2>4, LateMoves, OwnedStep DEF OwnersInv
  <2>5. CASE main'.late /\ ~main.late
    <3>1. main'.pc = "enter" /\ UNCHANGED <<kernel, worker, client>>
      BY <1>0, <2>5, LateMoves
    <3> QED
      BY <2>1, <2>2, <3>1, OwnedKept DEF LatePoints
  <2> QED
    BY <1>0, <2>3, <2>4, <2>5
<1> QED
  BY <1>1, <1>2 DEF OwnersInv

(* It holds always.                                                        *)
LEMMA OwnersInvAlways == Spec => []OwnersInv
BY PortInvAlways, EchoInvAlways, OwnersInit, OwnersStep, PTL DEF Spec

(* Until a run has ended with a cleanup that gave up its wait, a context   *)
(* has one owner: the operation under way, its packet, or one worker; with *)
(* any number of workers, and of runs whose ports and workers overlap.     *)
THEOREM OneOwnerAlways == Spec => []OneOwner
<1>1. OwnersInv => OneOwner
  BY DEF OwnersInv, Owned, OneOwner
<1> QED
  BY <1>1, OwnersInvAlways, PTL

(* Until then the structure of an operation under way is not freed, by a   *)
(* cleanup that comes too early either.                                    *)
THEOREM UnderwayAlwaysLive == Spec => []NoFreeUnderway
<1>1. OwnersInv => NoFreeUnderway
  BY DEF OwnersInv, Underway, NoFreeUnderway
<1> QED
  BY <1>1, OwnersInvAlways, PTL
=============================================================================
