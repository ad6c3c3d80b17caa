--------------------------- MODULE IocpServer_proofs ---------------------------
(***************************************************************************)
(* A theorem about IocpServer, for any connections, workers, buffers and   *)
(* console events: a context is live while a worker uses it, as long as no *)
(* cleanup gave up its wait for the workers.                               *)
(*                                                                         *)
(* It is not inductive: that a packet finds one taker only, and a context  *)
(* of its own run, rests on which workers exist (WorkersInv), on the port  *)
(* each context has (ContextsInv), and on nobody having the key of a       *)
(* connection that is being accepted (KeysInv).                            *)
(***************************************************************************)
EXTENDS IocpServer, Integers, TLAPS

(* What of the types the proofs need: the bounds of a context's counters   *)
(* are left out, for two owners could exceed them after a late cleanup.    *)
Connections ==
    [sock : {"none", "open", "closed"}, ctx : {"none", "live", "freed"},
     back : Keys, forward : Keys, port : Nat, op : {"read", "write"},
     total : Int, nsent : Int, io : {"none", "pending", "done"},
     ok : BOOLEAN, size : Int, got : Int, said : Int, echo : Seq(Int),
     peer : {"up", "closed", "reset"}]

Workmen ==
    [pc : {"none", "wait", "test", "serve", "close", "log", "ended"},
     key : Keys, ok : BOOLEAN, size : Int]

Shape ==
    /\ g \in [Verbose : BOOLEAN, EndServer : BOOLEAN, Restart : BOOLEAN,
              IOCP : BOOLEAN, sdListen : Nat, CtxtList : Keys,
              ThreadHandles : [Workers -> Nat]]
    /\ main \in [pc : {"top", "reset", "port", "threads", "socket", "bind",
                       "accept", "update", "check", "recv", "finally", "wait",
                       "enter", "free", "freeWait", "endRun", "done"},
                 run : Nat, sdAccept : Keys, at : Keys, next : Keys,
                 late : BOOLEAN, left : BOOLEAN]
    /\ kernel \in [ports : SUBSET Nat, nulls : [Runs -> Int],
                   listening : SUBSET Nat]
    /\ worker \in [Threads -> Workmen]
    /\ client \in [Clients -> Connections]

(* The connection that was just accepted is known to no worker, as is one  *)
(* that was not made; who holds a context has its key.                     *)
Idle(c) ==
    /\ client[c].io = "none"
    /\ \A t \in Threads : worker[t].key # c

KeysInv ==
    /\ \A c \in Clients :
         client[c].sock = "none" => Idle(c) /\ client[c].ctx = "none"
    /\ main.pc \in {"update", "check", "recv"} =>
         /\ main.sdAccept \in Clients
         /\ client[main.sdAccept].sock # "none"
         /\ Idle(main.sdAccept)
    /\ main.pc \in {"check", "recv"} =>
         /\ client[main.sdAccept].ctx = "live"
         /\ client[main.sdAccept].port = main.run
    /\ main.pc = "freeWait" => main.at \in Clients
    /\ \A t \in Threads :
         worker[t].pc \in {"test", "serve", "close", "log"} =>
             worker[t].key \in Clients

(* The workers of a run that is over have ended, those of a run to come    *)
(* have not started, and the others have their port.                       *)
Cleaned == {"enter", "free", "freeWait", "endRun", "top"}
Unstarted == {"reset", "port", "threads"}
Over(r) ==
    \/ r < main.run
    \/ r = main.run /\ main.pc \in Cleaned \cup {"done"}
NotYet(r) ==
    \/ r > main.run
    \/ r = main.run /\ main.pc \in Unstarted

WorkersInv ==
    /\ \A t \in Threads :
         /\ Over(t[2]) \/ NotYet(t[2]) => worker[t].pc \in {"none", "ended"}
         /\ worker[t].pc \notin {"none", "ended"} => t[2] \in kernel.ports
    /\ main.pc = "threads" => main.run \in kernel.ports
    /\ \A w \in Workers :
         /\ g.ThreadHandles[w] \in {Invalid, main.run}
         /\ main.pc \in Cleaned \cup Unstarted => g.ThreadHandles[w] = Invalid

(* Who holds a context works at its port, and it is live; so is one with   *)
(* an operation under way or a packet, until its run is cleaned up.        *)
ContextsInv ==
    /\ \A c \in Clients :
         /\ client[c].port <= main.run
         /\ client[c].io # "none" =>
              client[c].ctx = "live" \/ Over(client[c].port)
    /\ \A t \in Threads, c \in Clients : Holds(t, c) =>
         /\ client[c].io = "none" /\ client[c].ctx = "live"
         /\ client[c].port = t[2]
         /\ \A u \in Threads : Holds(u, c) => u = t

PortInv ==
    /\ Shape
    /\ KeysInv
    /\ ~main.late => WorkersInv /\ ContextsInv

-----------------------------------------------------------------------------
(* What of a connection says what was received and what was sent,          *)
SameBytes(r, s) ==
    /\ s.op = r.op /\ s.total = r.total /\ s.nsent = r.nsent
    /\ s.size = r.size /\ s.got = r.got /\ s.said = r.said
    /\ s.echo = r.echo

(* and all of it but its place in the list and what its peer did last.     *)
Same(d) ==
    /\ client'[d].sock = client[d].sock /\ client'[d].ctx = client[d].ctx
    /\ client'[d].port = client[d].port /\ client'[d].io = client[d].io
    /\ SameBytes(client[d], client'[d])

(* The fields of the two records that have many.                           *)
LEMMA Fields ==
  ASSUME Shape
  PROVE  /\ g.CtxtList \in Keys /\ g.ThreadHandles \in [Workers -> Nat]
         /\ main.run \in Nat /\ main.late \in BOOLEAN
         /\ main.sdAccept \in Keys /\ main.at \in Keys /\ main.next \in Keys
         /\ kernel.ports \in SUBSET Nat
         /\ \A c \in Clients :
              /\ client[c] \in Connections
              /\ client[c].back \in Keys /\ client[c].forward \in Keys
              /\ client[c].port \in Nat
         /\ \A t \in Threads : worker[t] \in Workmen /\ worker[t].key \in Keys
BY DEF Shape, Connections, Workmen

(* A connection that was not made.                                         *)
LEMMA NewShape ==
  /\ NewClient \in Connections /\ NewWorker \in Workmen
  /\ NewClient.io = "none" /\ NewClient.ctx = "none" /\ NewClient.port = 0
  /\ NewWorker.pc = "none"
<1>1. <<>> \in Seq(Int)
  OBVIOUS
<1> QED
  BY <1>1 DEF NewClient, NewWorker, Connections, Workmen, Keys

(* A step at one connection.                                               *)
LEMMA OneConnection ==
  ASSUME Shape, NEW c \in Clients, NEW r \in Connections,
         client' = [client EXCEPT ![c] = r]
  PROVE  /\ client' \in [Clients -> Connections]
         /\ client'[c] = r
         /\ \A d \in Clients : d # c => Same(d)
BY DEF Shape, Same, SameBytes

(* What putting a context into the list does to the contexts,              *)
LEMMA ListAdd ==
  ASSUME Shape, NEW c \in Clients, CtxtListAddTo(c)
  PROVE  /\ client' \in [Clients -> Connections]
         /\ client'[c].sock = client[c].sock /\ client'[c].io = client[c].io
         /\ client'[c].ctx = "live" /\ client'[c].port = main.run
         /\ SameBytes(client[c], client'[c])
         /\ \A d \in Clients : d # c => Same(d)
         /\ g' = [g EXCEPT !.CtxtList = c]
<1>. DEFINE r == [client[c] EXCEPT !.ctx = "live", !.port = main.run,
                                   !.back = g.CtxtList]
            q(d) == [client[d] EXCEPT !.forward = c]
<1>0. client[c] \in Connections /\ main.run \in Nat /\ g.CtxtList \in Keys
  BY Fields
<1>1. /\ r \in Connections
      /\ r.sock = client[c].sock /\ r.io = client[c].io
      /\ r.ctx = "live" /\ r.port = main.run
      /\ SameBytes(client[c], r)
  BY <1>0 DEF Connections, SameBytes
<1>2. ASSUME NEW d \in Clients
      PROVE  /\ q(d) \in Connections
             /\ q(d).sock = client[d].sock /\ q(d).ctx = client[d].ctx
             /\ q(d).port = client[d].port /\ q(d).io = client[d].io
             /\ SameBytes(client[d], q(d))
  <2>1. client[d] \in Connections /\ c \in Keys
    BY Fields DEF Keys
  <2> QED
    BY <2>1 DEF Connections, SameBytes
<1>3. /\ client' = [d \in Clients |->
             CASE d = c -> r
               [] d # c /\ d = g.CtxtList -> q(d)
               [] OTHER -> client[d]]
      /\ g' = [g EXCEPT !.CtxtList = c]
  BY DEF CtxtListAddTo
<1>. HIDE DEF r, q
<1>4. client'[c] = r
  BY <1>3
<1>5. ASSUME NEW d \in Clients, d # c
      PROVE  client'[d] \in {client[d], q(d)}
  BY <1>3, <1>5
<1>6. \A d \in Clients : client'[d] \in Connections
  BY <1>1, <1>2, <1>4, <1>5, Fields
<1>7. client' \in [Clients -> Connections]
  BY <1>3, <1>6
<1>8. \A d \in Clients : d # c => Same(d)
  BY <1>2, <1>5 DEF Same, SameBytes
<1> QED
  BY <1>1, <1>3, <1>4, <1>7, <1>8 DEF SameBytes

(* what it does when the critical section cannot be entered,               *)
LEMMA ListNotAdded ==
  ASSUME Shape, NEW c \in Clients, NotAddedToList(c)
  PROVE  /\ client' \in [Clients -> Connections]
         /\ client'[c].sock = client[c].sock /\ client'[c].io = client[c].io
         /\ client'[c].ctx = "live" /\ client'[c].port = main.run
         /\ SameBytes(client[c], client'[c])
         /\ \A d \in Clients : d # c => Same(d)
         /\ UNCHANGED g
<1>. DEFINE r == [client[c] EXCEPT !.ctx = "live", !.port = main.run]
<1>1. client[c] \in Connections /\ main.run \in Nat
  BY Fields
<1>2. /\ r \in Connections
      /\ r.sock = client[c].sock /\ r.io = client[c].io
      /\ r.ctx = "live" /\ r.port = main.run
      /\ SameBytes(client[c], r)
  BY <1>1 DEF Connections, SameBytes
<1>3. client' = [client EXCEPT ![c] = r] /\ UNCHANGED g
  BY DEF NotAddedToList, Shape
<1>. HIDE DEF r
<1> QED
  BY <1>2, <1>3, OneConnection

(* and what taking it out does.                                            *)
LEMMA ListDelete ==
  ASSUME Shape, NEW c \in Clients, CtxtListDeleteFrom(c)
  PROVE  /\ client' \in [Clients -> Connections]
         /\ client'[c].sock = "closed" /\ client'[c].io = client[c].io
         /\ client'[c].ctx = "freed" /\ client'[c].port = client[c].port
         /\ client'[c] = FreedContext(client[c])
         /\ \A d \in Clients : d # c => Same(d)
         /\ HeadWithout(c) \in Keys
         /\ g' = [g EXCEPT !.CtxtList = HeadWithout(c)]
<1>. DEFINE r == FreedContext(client[c])
            q(d) == [client[d] EXCEPT !.forward = client[c].forward]
            p(d) == [client[d] EXCEPT !.back = client[c].back]
<1>1. /\ r \in Connections
      /\ r.sock = "closed" /\ r.io = client[c].io
      /\ r.ctx = "freed" /\ r.port = client[c].port
  BY Fields, NewShape DEF Connections, FreedContext
<1>2. ASSUME NEW d \in Clients
      PROVE  /\ q(d) \in Connections
             /\ q(d).sock = client[d].sock /\ q(d).ctx = client[d].ctx
             /\ q(d).port = client[d].port /\ q(d).io = client[d].io
             /\ SameBytes(client[d], q(d))
             /\ p(d) \in Connections
             /\ p(d).sock = client[d].sock /\ p(d).ctx = client[d].ctx
             /\ p(d).port = client[d].port /\ p(d).io = client[d].io
             /\ SameBytes(client[d], p(d))
  <2>1. /\ client[d] \in Connections
        /\ client[c].forward \in Keys /\ client[c].back \in Keys
    BY Fields
  <2> QED
    BY <2>1 DEF Connections, SameBytes
<1>3. /\ client' = [d \in Clients |->
             CASE d = c -> r
               [] d # c /\ d = client[c].back -> q(d)
               [] d # c /\ d # client[c].back /\ d = client[c].forward -> p(d)
               [] OTHER -> client[d]]
      /\ g' = [g EXCEPT !.CtxtList = HeadWithout(c)]
  BY DEF CtxtListDeleteFrom
<1>. HIDE DEF r, q, p
<1>4. client'[c] = r
  BY <1>3
<1>5. ASSUME NEW d \in Clients, d # c
      PROVE  client'[d] \in {client[d], q(d), p(d)}
  BY <1>3, <1>5
<1>6. \A d \in Clients : client'[d] \in Connections
  BY <1>1, <1>2, <1>4, <1>5, Fields
<1>7. client' \in [Clients -> Connections]
  BY <1>3, <1>6
<1>8. \A d \in Clients : d # c => Same(d)
  BY <1>2, <1>5 DEF Same, SameBytes
<1>9. HeadWithout(c) \in Keys
  BY Fields DEF HeadWithout
<1> QED
  BY <1>1, <1>3, <1>4, <1>7, <1>8, <1>9 DEF r

-----------------------------------------------------------------------------
(* The steps that change neither a connection nor a worker: of the main    *)
(* thread between two points of a run, and of the console.                 *)
QuietMoves ==
    {<<"reset", "port">>, <<"port", "finally">>, <<"socket", "bind">>,
     <<"socket", "finally">>, <<"bind", "accept">>, <<"bind", "finally">>,
     <<"accept", "finally">>, <<"update", "finally">>, <<"check", "recv">>,
     <<"check", "finally">>, <<"finally", "wait">>, <<"enter", "free">>,
     <<"enter", "endRun">>,
     <<"free", "endRun">>}

(* What such a step must leave alone to keep the invariant.                *)
LEMMA QuietStep ==
  ASSUME PortInv, Shape', UNCHANGED <<worker, client>>,
         kernel'.ports = kernel.ports, g'.ThreadHandles = g.ThreadHandles,
         main'.late = main.late, main'.run = main.run,
         \/ UNCHANGED main
         \/ /\ <<main.pc, main'.pc>> \in QuietMoves
            /\ main'.pc = "recv" => main'.sdAccept = main.sdAccept
  PROVE  PortInv'
<1>1. KeysInv'
  BY DEF PortInv, KeysInv, Idle, QuietMoves
<1>2. ASSUME ~main.late PROVE WorkersInv' /\ ContextsInv'
  <2>1. WorkersInv /\ ContextsInv
    BY <1>2 DEF PortInv
  <2>2. ASSUME NEW n PROVE /\ Over(n)' => Over(n)
                           /\ Over(n) => Over(n)'
                           /\ NotYet(n)' => NotYet(n)
    BY DEF Over, NotYet, QuietMoves, Cleaned, Unstarted
  <2>3. WorkersInv'
    BY <2>1, <2>2 DEF WorkersInv, QuietMoves, Cleaned, Unstarted
  <2>4. ContextsInv'
    BY <2>1, <2>2 DEF ContextsInv, Holds
  <2> QED
    BY <2>3, <2>4
<1> QED
  BY <1>1, <1>2 DEF PortInv

(* Those steps leave it alone.                                             *)
LEMMA QuietSteps ==
  ASSUME PortInv, ~Crash,
         \/ ResetEndServer \/ CreateSocket \/ Bind \/ AcceptFails
         \/ CheckEndServer \/ BeginCleanup \/ EnterListFree \/ LeaveListFree
         \/ ConsoleEvent \/ CtrlHandler \/ UNCHANGED vars
  PROVE  PortInv'
<1>. USE Fields DEF PortInv, Shape, Goto, QuietMoves
<1>1. CASE ResetEndServer
  BY <1>1, QuietStep DEF ResetEndServer
<1>2. CASE CreateSocket
  BY <1>2, QuietStep DEF CreateSocket
<1>3. CASE Bind
  BY <1>3, QuietStep DEF Bind
<1>4. CASE AcceptFails
  BY <1>4, QuietStep DEF AcceptFails, Keys
<1>5. CASE CheckEndServer
  BY <1>5, QuietStep DEF CheckEndServer
<1>6. CASE BeginCleanup
  <2>1. /\ kernel' \in [ports : SUBSET Nat, nulls : [Runs -> Int],
                       listening : SUBSET Nat]
        /\ kernel'.ports = kernel.ports
    <3>1. ThreadCount \in Int
      BY ConstantsAssumption
    <3>2. CASE g.IOCP
      BY <1>6, <3>1, <3>2 DEF BeginCleanup
    <3>3. CASE ~g.IOCP
      BY <1>6, <3>3 DEF BeginCleanup
    <3> QED
      BY <3>2, <3>3
  <2> QED
    BY <1>6, <2>1, QuietStep DEF BeginCleanup
<1>7. CASE EnterListFree
  <2>1. CASE main' = [main EXCEPT !.pc = "free", !.at = g.CtxtList]
    BY <1>7, <2>1, QuietStep DEF EnterListFree
  <2>2. CASE main' = [main EXCEPT !.pc = "endRun"]
    BY <1>7, <2>2, QuietStep DEF EnterListFree
  <2> QED
    BY <1>7, <2>1, <2>2 DEF EnterListFree
<1>8. CASE LeaveListFree
  BY <1>8, QuietStep DEF LeaveListFree
<1>9. CASE ConsoleEvent
  BY <1>9, QuietStep, ZenonT(60) DEF ConsoleEvent
<1>10. CASE CtrlHandler
  <2>1. CASE TakeListen
    BY <2>1, QuietStep DEF TakeListen, Invalid
  <2>2. CASE CloseListen
    BY <2>2, QuietStep DEF CloseListen
  <2>3. CASE ClearListen
    BY <2>3, QuietStep DEF ClearListen, Invalid
  <2>4. CASE SetEndServer
    BY <2>4, QuietStep DEF SetEndServer
  <2> QED
    BY <1>10, <2>1, <2>2, <2>3, <2>4 DEF CtrlHandler
<1>11. CASE UNCHANGED vars
  BY <1>11, QuietStep DEF vars
<1> QED
  BY <1>1, <1>2, <1>3, <1>4, <1>5, <1>6, <1>7, <1>8, <1>9, <1>10, <1>11

-----------------------------------------------------------------------------
(* Clearing the null packets of a port leaves counts of packets.           *)
LEMMA CountOfNulls ==
  ASSUME NEW f \in [Runs -> Int], NEW n
  PROVE  [f EXCEPT ![n] = 0] \in [Runs -> Int]
<1>1. CASE n \in Runs
  BY <1>1
<1>2. CASE n \notin Runs
  BY <1>2
<1> QED
  BY <1>1, <1>2

(* Where a worker can be.                                                  *)
Points == {"none", "wait", "test", "serve", "close", "log", "ended"}

(* What the steps below make of a worker                                   *)
LEMMA WorkmanOf ==
  ASSUME NEW p \in Points, NEW k \in Keys, NEW b \in BOOLEAN, NEW n \in Int
  PROVE  [pc |-> p, key |-> k, ok |-> b, size |-> n] \in Workmen
BY DEF Workmen, Points

(* A worker that goes on with a context it knows,                          *)
LEMMA AtType ==
  ASSUME NEW p \in Points, NEW k \in Keys
  PROVE  At(p, k) \in Workmen /\ At(p, k).key = k /\ At(p, k).pc = p
BY NewShape DEF At, Workmen, Points

(* or ends.                                                                *)
LEMMA EndedType ==
  LET u == [NewWorker EXCEPT !.pc = "ended"]
  IN u \in Workmen /\ u.key = Null /\ u.pc = "ended"
<1>1. NewWorker \in Workmen /\ NewWorker.key = Null
  BY NewShape DEF NewWorker
<1> QED
  BY <1>1 DEF Workmen

(* and of a connection keeps the types, and the rest as it was.            *)
LEMMA SetIo ==
  ASSUME NEW r \in Connections, NEW x \in {"none", "pending", "done"}
  PROVE  LET q == [r EXCEPT !.io = x]
         IN  /\ q \in Connections /\ q.io = x /\ q.ctx = r.ctx
             /\ q.port = r.port /\ q.sock = r.sock
BY DEF Connections

(* The result of an operation,                                             *)
LEMMA SetResult ==
  ASSUME NEW r \in Connections, NEW x \in {"none", "pending", "done"},
         NEW b \in BOOLEAN, NEW n \in Int
  PROVE  LET q == [r EXCEPT !.io = x, !.ok = b, !.size = n]
         IN  /\ q \in Connections /\ q.io = x /\ q.ctx = r.ctx
             /\ q.port = r.port /\ q.sock = r.sock
BY DEF Connections

(* the kind of the next one,                                               *)
LEMMA SetOp ==
  ASSUME NEW r \in Connections, NEW x \in {"read", "write"}
  PROVE  LET q == [r EXCEPT !.op = x]
         IN  /\ q \in Connections /\ q.io = r.io /\ q.ctx = r.ctx
             /\ q.port = r.port /\ q.sock = r.sock
BY DEF Connections

(* and one more part sent change nothing of that either.                   *)
LEMMA SetSent ==
  ASSUME NEW r \in Connections, NEW n \in Int
  PROVE  LET q == [r EXCEPT !.nsent = @ + n]
         IN  /\ q \in Connections /\ q.io = r.io /\ q.ctx = r.ctx
             /\ q.port = r.port /\ q.sock = r.sock
<1>1. r.nsent + n \in Int
  BY DEF Connections
<1> QED
  BY <1>1 DEF Connections

-----------------------------------------------------------------------------
(* The other steps of the main thread.  Those of the cleanup that free a   *)
(* context come when every worker has ended, unless they come late.        *)
NobodyHolds == \A t \in Threads : worker[t].pc \in {"none", "ended"}

(* A cleanup that is not late finds no worker at work, and every context   *)
(* to be of its own run or an earlier one.                                 *)
LEMMA NobodyInCleanup ==
  ASSUME PortInv, ~main.late, main.pc \in Cleaned
  PROVE  /\ NobodyHolds
         /\ \A c \in Clients : Over(client[c].port)
<1>1. main.run \in Nat
  BY Fields DEF PortInv
<1>2. \A t \in Threads : t[2] \in Nat
  BY DEF Threads, Runs
<1>3. \A n \in Nat : Over(n) \/ NotYet(n)
  BY <1>1 DEF Over, NotYet
<1>4. \A n \in Nat : n <= main.run => Over(n)
  BY <1>1 DEF Over
<1> QED
  BY <1>2, <1>3, <1>4, Fields
     DEF PortInv, WorkersInv, ContextsInv, NobodyHolds

(* The workers and ports of the run before are over for the next one.      *)
LEMMA RestartStep ==
  ASSUME PortInv, Restart PROVE PortInv'
<1>. USE DEF PortInv
<1>1. /\ UNCHANGED <<kernel, worker, client>>
      /\ g'.ThreadHandles = g.ThreadHandles
      /\ main.pc = "top" /\ main'.late = main.late
      /\ \/ main'.pc = "reset" /\ main'.run = main.run + 1
         \/ main'.pc = "done" /\ main'.run = main.run
      /\ main.run \in Nat
  BY DEF Restart, Shape
<1>2. Shape'
  <2>1. /\ main' \in {[main EXCEPT !.pc = "reset", !.run = @ + 1],
                      [main EXCEPT !.pc = "done"]}
        /\ g' = [g EXCEPT !.Restart = FALSE]
    BY DEF Restart
  <2>2. main.run + 1 \in Nat
    BY <1>1
  <2> QED
    BY <1>1, <2>1, <2>2 DEF Shape
<1>3. KeysInv'
  BY <1>1 DEF KeysInv, Idle
<1>4. ASSUME ~main.late PROVE WorkersInv' /\ ContextsInv'
  <2>1. /\ NobodyHolds /\ \A c \in Clients : Over(client[c].port)
        /\ WorkersInv /\ ContextsInv
    BY <1>1, <1>4, NobodyInCleanup DEF Cleaned
  <2>2. \A c \in Clients : /\ client[c].port \in Nat
                           /\ client[c].port <= main.run
                           /\ Over(client[c].port)'
    BY <1>1, <2>1, Fields DEF Over, Cleaned, ContextsInv
  <2>3. ContextsInv'
    BY <1>1, <2>1, <2>2 DEF ContextsInv, Holds, NobodyHolds
  <2>4. WorkersInv'
    BY <1>1, <2>1 DEF WorkersInv, NobodyHolds, Cleaned, Invalid
  <2> QED
    BY <2>3, <2>4
<1> QED
  BY <1>1, <1>2, <1>3, <1>4

(* The port of a run is there before its workers are.                      *)
LEMMA CreatePortStep ==
  ASSUME PortInv, CreatePort PROVE PortInv'
<1>1. CASE main'.pc = "finally" /\ UNCHANGED <<g, kernel>>
  BY <1>1, QuietStep, Fields DEF PortInv, Shape, CreatePort, Goto, QuietMoves
<1>2. CASE /\ g' = [g EXCEPT !.IOCP = TRUE]
           /\ kernel' = [kernel EXCEPT !.ports = @ \cup {main.run}]
           /\ main' = [main EXCEPT !.pc = "threads"]
  <2>1. /\ UNCHANGED <<worker, client>> /\ main.pc = "port"
        /\ g'.ThreadHandles = g.ThreadHandles
        /\ main'.pc = "threads" /\ main'.run = main.run
        /\ main'.late = main.late
        /\ kernel'.ports = kernel.ports \cup {main.run}
    BY <1>2 DEF CreatePort, PortInv, Shape
  <2>2. Shape'
    BY <1>2, <2>1, Fields DEF PortInv, Shape
  <2>3. KeysInv'
    BY <2>1 DEF PortInv, KeysInv, Idle
  <2>4. ASSUME ~main.late PROVE WorkersInv' /\ ContextsInv'
    <3>1. WorkersInv /\ ContextsInv
      BY <2>4 DEF PortInv
    <3>2. ASSUME NEW n PROVE /\ Over(n)' <=> Over(n)
                             /\ NotYet(n)' <=> NotYet(n)
      BY <2>1 DEF Over, NotYet, Cleaned, Unstarted
    <3>3. WorkersInv'
      BY <2>1, <3>1, <3>2 DEF WorkersInv, Cleaned, Unstarted
    <3>4. ContextsInv'
      BY <2>1, <3>1, <3>2 DEF ContextsInv, Holds
    <3> QED
      BY <3>3, <3>4
  <2> QED
    BY <2>1, <2>2, <2>3, <2>4 DEF PortInv
<1> QED
  BY <1>1, <1>2 DEF CreatePort, Goto, PortInv, Shape

(* The workers that start are those of the present run.                    *)
LEMMA CreateThreadsStep ==
  ASSUME PortInv, CreateThreads PROVE PortInv'
<1>1. PICK n \in 0 .. ThreadCount :
        /\ worker' = [t \in Threads |->
                        IF t[1] <= n /\ t[2] = main.run
                        THEN [worker[t] EXCEPT !.pc = "wait"] ELSE worker[t]]
        /\ g' = [g EXCEPT !.ThreadHandles =
                   [w \in Workers |-> IF w <= n THEN main.run ELSE @[w]]]
        /\ Goto(IF n = ThreadCount THEN "socket" ELSE "finally")
  BY DEF CreateThreads
<1>2. /\ UNCHANGED <<kernel, client>> /\ main.pc = "threads"
      /\ main'.pc \in {"socket", "finally"} /\ main'.run = main.run
      /\ main'.late = main.late /\ main.run \in Nat
      /\ main' \in [pc : {"top", "reset", "port", "threads", "socket", "bind",
                       "accept", "update", "check", "recv", "finally", "wait",
                       "enter", "free", "freeWait", "endRun", "done"},
                 run : Nat, sdAccept : Keys, at : Keys, next : Keys,
                 late : BOOLEAN, left : BOOLEAN]
  BY <1>1 DEF CreateThreads, PortInv, Shape, Goto
<1>3. /\ g'.ThreadHandles \in [Workers -> Nat]
      /\ \A w \in Workers :
           g'.ThreadHandles[w] \in {main.run, g.ThreadHandles[w]}
      /\ g' \in [Verbose : BOOLEAN, EndServer : BOOLEAN, Restart : BOOLEAN,
              IOCP : BOOLEAN, sdListen : Nat, CtxtList : Keys,
              ThreadHandles : [Workers -> Nat]]
  <2>. DEFINE h == [w \in Workers |->
                      IF w <= n THEN main.run ELSE g.ThreadHandles[w]]
  <2>1. h \in [Workers -> Nat]
    BY <1>2, Fields DEF PortInv
  <2>2. \A w \in Workers : h[w] \in {main.run, g.ThreadHandles[w]}
    OBVIOUS
  <2>3. g' = [g EXCEPT !.ThreadHandles = h]
    BY <1>1
  <2>. HIDE DEF h
  <2> QED
    BY <2>1, <2>2, <2>3 DEF PortInv, Shape
<1>4. ASSUME NEW t \in Threads
      PROVE  /\ worker'[t] \in Workmen /\ worker'[t].key = worker[t].key
             /\ \/ worker'[t].pc = worker[t].pc
                \/ worker'[t].pc = "wait" /\ t[2] = main.run
  <2>1. /\ worker[t] \in Workmen
        /\ worker'[t] \in {worker[t], [worker[t] EXCEPT !.pc = "wait"]}
        /\ worker'[t] # worker[t] => t[2] = main.run
    BY <1>1, Fields DEF PortInv
  <2>2. /\ [worker[t] EXCEPT !.pc = "wait"] \in Workmen
        /\ [worker[t] EXCEPT !.pc = "wait"].pc = "wait"
        /\ [worker[t] EXCEPT !.pc = "wait"].key = worker[t].key
    BY <2>1 DEF Workmen
  <2>3. CASE worker'[t] = worker[t]
    <3>1. worker[t] \in Workmen
      BY <2>1
    <3> QED
      BY <2>3, <3>1
  <2>4. CASE worker'[t] # worker[t]
    BY <2>1, <2>2, <2>4
  <2> QED
    BY <2>3, <2>4
<1>5. worker' \in [Threads -> Workmen]
  BY <1>1, <1>4
<1>6. Shape'
  BY <1>2, <1>3, <1>5 DEF PortInv, Shape
<1>7. KeysInv'
  BY <1>2, <1>4 DEF PortInv, KeysInv, Idle
<1>8. ASSUME ~main.late PROVE WorkersInv' /\ ContextsInv'
  <2>1. WorkersInv /\ ContextsInv
    BY <1>8 DEF PortInv
  <2>2. ASSUME NEW m PROVE /\ Over(m)' <=> Over(m)
                           /\ NotYet(m)' => NotYet(m) /\ m # main.run
    BY <1>2 DEF Over, NotYet, Cleaned, Unstarted
  <2>3. ~Over(main.run)
    BY <1>2 DEF Over, Cleaned
  <2>4. WorkersInv'
    BY <1>2, <1>3, <1>4, <2>1, <2>2, <2>3
       DEF WorkersInv, Cleaned, Unstarted, Invalid
  <2>5. ContextsInv'
    BY <1>2, <1>4, <2>1, <2>2 DEF ContextsInv, Holds
  <2> QED
    BY <2>4, <2>5
<1> QED
  BY <1>2, <1>6, <1>7, <1>8 DEF PortInv

(* A connection is accepted: nobody knows it yet.                          *)
LEMMA AcceptStep ==
  ASSUME PortInv, NEW c \in Clients, Accept(c) PROVE PortInv'
<1>. DEFINE r == [client[c] EXCEPT !.sock = "open"]
<1>1. /\ UNCHANGED <<g, kernel, worker>>
      /\ client[c].sock = "none" /\ main.pc = "accept"
      /\ main'.pc = "update" /\ main'.sdAccept = c
      /\ main'.run = main.run /\ main'.late = main.late
      /\ client' = [client EXCEPT ![c] = r]
  BY DEF Accept, PortInv, Shape
<1>2. /\ r \in Connections /\ r.sock = "open" /\ r.io = client[c].io
      /\ r.ctx = client[c].ctx /\ r.port = client[c].port
  BY Fields, ZenonT(60) DEF PortInv, Connections
<1>. HIDE DEF r
<1>3. /\ client' \in [Clients -> Connections]
      /\ client'[c] = r
      /\ \A d \in Clients : d # c => Same(d)
  BY <1>1, <1>2, OneConnection DEF PortInv
<1>4. Shape'
  BY <1>1, <1>3 DEF PortInv, Shape, Accept, Keys
<1>5. KeysInv'
  BY <1>1, <1>2, <1>3 DEF PortInv, KeysInv, Idle, Same
<1>6. ASSUME ~main.late PROVE WorkersInv' /\ ContextsInv'
  <2>1. WorkersInv /\ ContextsInv
    BY <1>6 DEF PortInv
  <2>2. ASSUME NEW n PROVE /\ Over(n)' <=> Over(n)
                           /\ NotYet(n)' <=> NotYet(n)
    BY <1>1 DEF Over, NotYet, Cleaned, Unstarted
  <2>3. WorkersInv'
    BY <1>1, <2>1, <2>2 DEF WorkersInv, Cleaned, Unstarted
  <2>4. ContextsInv'
    BY <1>1, <1>2, <1>3, <2>1, <2>2 DEF ContextsInv, Holds, Same
  <2> QED
    BY <2>3, <2>4
<1> QED
  BY <1>1, <1>4, <1>5, <1>6 DEF PortInv

(* Its context is put into the list.                                       *)
LEMMA UpdateStep ==
  ASSUME PortInv, UpdateCompletionPort, ~Crash PROVE PortInv'
<1>1. CASE /\ UNCHANGED g \/ g' = [g EXCEPT !.IOCP = FALSE]
           /\ Goto("finally")
           /\ UNCHANGED <<kernel, worker, client, ctrl, crashed>>
  BY <1>1, QuietStep, Fields, ZenonT(60)
     DEF PortInv, Shape, UpdateCompletionPort, Goto, QuietMoves
<1>2. CASE /\ \/ CtxtListAddTo(main.sdAccept)
              \/ NotAddedToList(main.sdAccept)
           /\ Goto("check")
           /\ UNCHANGED <<kernel, worker, ctrl, crashed>>
  <2>. DEFINE c == main.sdAccept
  <2>1. /\ main.pc = "update" /\ main'.pc = "check"
        /\ main'.sdAccept = c /\ main'.run = main.run
        /\ main'.late = main.late /\ main.run \in Nat
        /\ c \in Clients /\ client[c].sock # "none" /\ Idle(c)
    BY <1>2 DEF UpdateCompletionPort, Goto, PortInv, Shape, KeysInv
  <2>2. /\ client' \in [Clients -> Connections]
        /\ client'[c].sock = client[c].sock /\ client'[c].io = client[c].io
        /\ client'[c].ctx = "live" /\ client'[c].port = main.run
        /\ \A d \in Clients : d # c => Same(d)
        /\ g'.CtxtList \in Keys
        /\ UNCHANGED g \/ g' = [g EXCEPT !.CtxtList = g'.CtxtList]
    <3>1. CASE CtxtListAddTo(c)
      <4>1. g' = [g EXCEPT !.CtxtList = c] /\ c \in Keys
        BY <2>1, <3>1, ListAdd DEF PortInv, Keys
      <4>2. g'.CtxtList = c
        BY <4>1 DEF PortInv, Shape
      <4> QED
        BY <2>1, <3>1, <4>1, <4>2, ListAdd DEF PortInv
    <3>2. CASE NotAddedToList(c)
      BY <2>1, <3>2, ListNotAdded, Fields DEF PortInv
    <3> QED
      BY <1>2, <3>1, <3>2
  <2>. HIDE DEF c
  <2>3. Shape' /\ g'.ThreadHandles = g.ThreadHandles
    BY <1>2, <2>1, <2>2 DEF PortInv, Shape, Goto, Keys
  <2>4. KeysInv'
    BY <1>2, <2>1, <2>2 DEF PortInv, KeysInv, Idle, Same
  <2>5. ASSUME ~main.late PROVE WorkersInv' /\ ContextsInv'
    <3>1. WorkersInv /\ ContextsInv
      BY <2>5 DEF PortInv
    <3>2. ASSUME NEW n PROVE /\ Over(n)' <=> Over(n)
                             /\ NotYet(n)' <=> NotYet(n)
      BY <2>1 DEF Over, NotYet, Cleaned, Unstarted
    <3>3. WorkersInv'
      BY <1>2, <2>1, <2>3, <3>1, <3>2 DEF WorkersInv, Cleaned, Unstarted
    <3>4. ContextsInv'
      BY <1>2, <2>1, <2>2, <3>1, <3>2 DEF ContextsInv, Holds, Same, Idle
    <3> QED
      BY <3>3, <3>4
  <2> QED
    BY <2>1, <2>3, <2>4, <2>5 DEF PortInv
<1> QED
  BY <1>1, <1>2 DEF UpdateCompletionPort

(* Its first operation begins, or it is freed again.                       *)
LEMMA PostRecvStep ==
  ASSUME PortInv, PostRecv PROVE PortInv'
<1>. DEFINE c == main.sdAccept
<1>1. /\ main.pc = "recv" /\ main'.pc = "accept"
      /\ main'.run = main.run /\ main'.late = main.late
      /\ c \in Clients /\ client[c].sock # "none" /\ Idle(c)
      /\ client[c].ctx = "live" /\ client[c].port = main.run
      /\ UNCHANGED <<kernel, worker>>
      /\ main.run \in Nat
  BY DEF PostRecv, Goto, PortInv, Shape, KeysInv
<1>2. /\ client' \in [Clients -> Connections]
      /\ client'[c].port = main.run /\ client'[c].sock # "none"
      /\ client'[c].ctx = "live" \/ client'[c].io = "none"
      /\ \A d \in Clients : d # c => Same(d)
      /\ g'.CtxtList \in Keys
      /\ UNCHANGED g \/ g' = [g EXCEPT !.CtxtList = g'.CtxtList]
  <2>1. CASE client' = [client EXCEPT ![c] = Posted(@)] /\ UNCHANGED g
    <3>. DEFINE r == Posted(client[c])
    <3>1. client' = [client EXCEPT ![c] = r]
      BY <2>1 DEF PortInv, Shape
    <3>2. /\ r \in Connections /\ r.sock = client[c].sock
          /\ r.ctx = client[c].ctx /\ r.port = client[c].port
      <4>1. client[c] \in Connections
        BY <1>1, Fields DEF PortInv
      <4> QED
        BY <4>1 DEF Connections, Posted
    <3>. HIDE DEF r
    <3> QED
      BY <1>1, <2>1, <3>1, <3>2, OneConnection, Fields DEF PortInv
  <2>3. CASE UNCHANGED <<g, client>>
    BY <1>1, <2>3, Fields DEF PortInv, Shape, Same, SameBytes
  <2>2. CASE CtxtListDeleteFrom(c)
    <3>1. g' = [g EXCEPT !.CtxtList = HeadWithout(c)] /\ HeadWithout(c) \in Keys
      BY <1>1, <2>2, ListDelete DEF PortInv
    <3>2. g'.CtxtList = HeadWithout(c)
      BY <3>1 DEF PortInv, Shape
    <3> QED
      BY <1>1, <2>2, <3>1, <3>2, ListDelete DEF PortInv, Idle
  <2> QED
    BY <2>1, <2>2, <2>3 DEF PostRecv
<1>. HIDE DEF c
<1>3. Shape' /\ g'.ThreadHandles = g.ThreadHandles
  BY <1>1, <1>2 DEF PortInv, Shape, PostRecv, Goto
<1>4. KeysInv'
  BY <1>1, <1>2 DEF PortInv, KeysInv, Idle, Same
<1>5. ASSUME ~main.late PROVE WorkersInv' /\ ContextsInv'
  <2>1. WorkersInv /\ ContextsInv
    BY <1>5 DEF PortInv
  <2>2. ASSUME NEW n PROVE /\ Over(n)' <=> Over(n)
                           /\ NotYet(n)' <=> NotYet(n)
    BY <1>1 DEF Over, NotYet, Cleaned, Unstarted
  <2>3. WorkersInv'
    BY <1>1, <1>3, <2>1, <2>2 DEF WorkersInv, Cleaned, Unstarted
  <2>4. ContextsInv'
    BY <1>1, <1>2, <2>1, <2>2 DEF ContextsInv, Holds, Same, Idle
  <2> QED
    BY <2>3, <2>4
<1> QED
  BY <1>1, <1>3, <1>4, <1>5 DEF PortInv

(* The wait for the workers ends because all have ended, or is late.       *)
LEMMA WaitStep ==
  ASSUME PortInv, WaitForWorkers PROVE PortInv'
<1>1. CASE AllEnded
  <2>1. /\ UNCHANGED <<kernel, worker, client>>
        /\ main.pc = "wait" /\ main'.pc = "enter"
        /\ main'.run = main.run /\ main'.late = main.late
        /\ g' = [g EXCEPT !.ThreadHandles = [w \in Workers |-> Invalid]]
        /\ main.run \in Nat
    BY <1>1 DEF WaitForWorkers, Goto, PortInv, Shape
  <2>2. [w \in Workers |-> Invalid] \in [Workers -> Nat]
    BY DEF Invalid
  <2>3. Shape' /\ g'.ThreadHandles = [w \in Workers |-> Invalid]
    BY <1>1, <2>1, <2>2 DEF WaitForWorkers, Goto, PortInv, Shape
  <2>4. KeysInv'
    BY <2>1 DEF PortInv, KeysInv, Idle
  <2>5. ASSUME ~main.late PROVE WorkersInv' /\ ContextsInv'
    <3>1. WorkersInv /\ ContextsInv
      BY <2>5 DEF PortInv
    <3>2. ASSUME NEW t \in Threads, t[2] = main.run
          PROVE  worker[t].pc = "ended"
      <4>1. t[1] \in Workers /\ t = <<t[1], main.run>>
        BY <3>2 DEF Threads
      <4>2. g.ThreadHandles[t[1]] = main.run
        BY <1>1, <3>1, <4>1 DEF AllEnded, Ended, WorkersInv
      <4> QED
        BY <1>1, <4>1, <4>2 DEF AllEnded, Ended
    <3>3. ASSUME NEW n PROVE /\ Over(n)' => Over(n) \/ n = main.run
                             /\ Over(n) => Over(n)'
                             /\ NotYet(n)' => NotYet(n)
      BY <2>1 DEF Over, NotYet, Cleaned, Unstarted
    <3>4. WorkersInv'
      BY <2>1, <2>3, <3>1, <3>2, <3>3 DEF WorkersInv, Invalid
    <3>5. ContextsInv'
      BY <2>1, <3>1, <3>3 DEF ContextsInv, Holds
    <3> QED
      BY <3>4, <3>5
  <2> QED
    BY <2>1, <2>3, <2>4, <2>5 DEF PortInv
<1>2. CASE ~AllEnded
  <2>1. /\ UNCHANGED <<g, kernel, worker, client>>
        /\ main' = [main EXCEPT !.pc = "enter", !.late = TRUE]
    BY <1>2 DEF WaitForWorkers
  <2>2. Shape' /\ main'.late /\ main'.pc = "enter"
    BY <2>1 DEF PortInv, Shape
  <2>3. KeysInv'
    BY <2>1, <2>2 DEF PortInv, KeysInv, Idle
  <2> QED
    BY <2>2, <2>3 DEF PortInv
<1> QED
  BY <1>1, <1>2

(* The cleanup closes a socket,                                            *)
LEMMA CloseNextStep ==
  ASSUME PortInv, CloseNext PROVE PortInv'
<1>. DEFINE c == main.at
            r == CloseSocket(client[c])
<1>1. /\ main.pc = "free" /\ main'.pc = "freeWait" /\ c # Null
      /\ main'.run = main.run /\ main'.late = main.late /\ main'.at = main.at
      /\ c \in Clients /\ main.run \in Nat
      /\ UNCHANGED <<g, kernel, worker>>
      /\ client' = [client EXCEPT ![c] = r]
      /\ main' = [main EXCEPT !.pc = "freeWait", !.next = client[c].back]
  BY DEF CloseNext, PortInv, Shape, Keys
<1>2. /\ r \in Connections /\ r.sock = "closed" /\ r.io = client[c].io
      /\ r.ctx = client[c].ctx /\ r.port = client[c].port
  <2>1. client[c] \in Connections
    BY <1>1, Fields DEF PortInv
  <2> QED
    BY <2>1 DEF Connections, CloseSocket
<1>3. client[c].back \in Keys
  BY <1>1, Fields DEF PortInv
<1>. HIDE DEF r, c
<1>4. /\ client' \in [Clients -> Connections]
      /\ client'[c] = r
      /\ \A d \in Clients : d # c => Same(d)
  BY <1>1, <1>2, OneConnection DEF PortInv
<1>5. Shape'
  BY <1>1, <1>3, <1>4 DEF PortInv, Shape
<1>6. KeysInv'
  BY <1>1, <1>2, <1>4 DEF PortInv, KeysInv, Idle, Same, c
<1>7. ASSUME ~main.late PROVE WorkersInv' /\ ContextsInv'
  <2>1. WorkersInv /\ ContextsInv
    BY <1>7 DEF PortInv
  <2>2. ASSUME NEW n PROVE /\ Over(n)' <=> Over(n)
                           /\ NotYet(n)' <=> NotYet(n)
    BY <1>1 DEF Over, NotYet, Cleaned, Unstarted
  <2>3. WorkersInv'
    BY <1>1, <2>1, <2>2 DEF WorkersInv, Cleaned, Unstarted
  <2>4. ContextsInv'
    BY <1>1, <1>2, <1>4, <2>1, <2>2 DEF ContextsInv, Holds, Same
  <2> QED
    BY <2>3, <2>4
<1> QED
  BY <1>1, <1>5, <1>6, <1>7 DEF PortInv

(* frees its context,                                                      *)
LEMMA FreeNextStep ==
  ASSUME PortInv, FreeNext PROVE PortInv'
<1>. DEFINE c == main.at
<1>1. /\ main.pc = "freeWait" /\ main'.pc = "free"
      /\ main'.run = main.run /\ main'.late = main.late
      /\ c \in Clients /\ main.run \in Nat
      /\ UNCHANGED <<kernel, worker>>
      /\ CtxtListDeleteFrom(c)
      /\ main' = [main EXCEPT !.pc = "free", !.at = main.next, !.next = Null]
  BY DEF FreeNext, PortInv, Shape, KeysInv
<1>2. /\ client' \in [Clients -> Connections]
      /\ client'[c].sock = "closed" /\ client'[c].io = client[c].io
      /\ client'[c].ctx = "freed" /\ client'[c].port = client[c].port
      /\ \A d \in Clients : d # c => Same(d)
      /\ HeadWithout(c) \in Keys
      /\ g' = [g EXCEPT !.CtxtList = HeadWithout(c)]
  BY <1>1, ListDelete DEF PortInv
<1>. HIDE DEF c
<1>3. main' \in [pc : {"top", "reset", "port", "threads", "socket", "bind",
                       "accept", "update", "check", "recv", "finally", "wait",
                       "enter", "free", "freeWait", "endRun", "done"},
                 run : Nat, sdAccept : Keys, at : Keys, next : Keys,
                 late : BOOLEAN, left : BOOLEAN]
  BY <1>1 DEF PortInv, Shape, Keys
<1>4. /\ g' \in [Verbose : BOOLEAN, EndServer : BOOLEAN, Restart : BOOLEAN,
                 IOCP : BOOLEAN, sdListen : Nat, CtxtList : Keys,
                 ThreadHandles : [Workers -> Nat]]
      /\ g'.ThreadHandles = g.ThreadHandles
  BY <1>2 DEF PortInv, Shape
<1>5. Shape'
  BY <1>1, <1>2, <1>3, <1>4 DEF PortInv, Shape
<1>6. KeysInv'
  BY <1>1, <1>2 DEF PortInv, KeysInv, Idle, Same
<1>7. ASSUME ~main.late PROVE WorkersInv' /\ ContextsInv'
  <2>1. /\ WorkersInv /\ ContextsInv
        /\ NobodyHolds /\ \A d \in Clients : Over(client[d].port)
    BY <1>1, <1>7, NobodyInCleanup DEF PortInv, Cleaned
  <2>2. ASSUME NEW n PROVE /\ Over(n)' <=> Over(n)
                           /\ NotYet(n)' <=> NotYet(n)
    BY <1>1 DEF Over, NotYet, Cleaned, Unstarted
  <2>3. WorkersInv'
    BY <1>1, <1>4, <2>1, <2>2 DEF WorkersInv, Cleaned, Unstarted
  <2>4. \A d \in Clients : client'[d].port = client[d].port
    BY <1>2 DEF Same
  <2>5. ContextsInv'
    BY <1>1, <2>1, <2>2, <2>4 DEF ContextsInv, Holds, NobodyHolds
  <2> QED
    BY <2>3, <2>5
<1> QED
  BY <1>1, <1>5, <1>6, <1>7 DEF PortInv

(* and at last closes the port and what else is open.                      *)
LEMMA EndRunStep ==
  ASSUME PortInv, EndRun PROVE PortInv'
<1>1. /\ main.pc = "endRun" /\ main'.pc = "top"
      /\ main'.run = main.run /\ main'.late = main.late
      /\ main.run \in Nat
      /\ UNCHANGED worker
      /\ g' = [g EXCEPT !.IOCP = FALSE, !.sdListen = Invalid]
      /\ g'.ThreadHandles = g.ThreadHandles
      /\ main' = [main EXCEPT !.pc = "top", !.sdAccept = Null,
                             !.left = main.late]
      /\ client' = [c \in Clients |-> IF c = main.sdAccept
                    THEN [client[c] EXCEPT !.sock = "closed"] ELSE client[c]]
  BY DEF EndRun, PortInv, Shape
<1>2. ASSUME NEW c \in Clients
      PROVE  /\ client'[c] \in Connections
             /\ client'[c].ctx = client[c].ctx
             /\ client'[c].port = client[c].port
             /\ client'[c].io = client[c].io
             /\ client'[c].sock \in {client[c].sock, "closed"}
  <2>. DEFINE r == [client[c] EXCEPT !.sock = "closed"]
  <2>1. client[c] \in Connections
    BY Fields DEF PortInv
  <2>2. /\ r \in Connections /\ r.sock = "closed" /\ r.io = client[c].io
        /\ r.ctx = client[c].ctx /\ r.port = client[c].port
    BY <2>1 DEF Connections
  <2>3. client'[c] = r \/ client'[c] = client[c]
    BY <1>1
  <2>. HIDE DEF r
  <2>4. CASE client'[c] = r
    BY <2>2, <2>4
  <2>5. CASE client'[c] = client[c]
    <3>1. client[c] \in Connections
      BY <2>1
    <3> QED
      BY <2>5, <3>1
  <2> QED
    BY <2>3, <2>4, <2>5
<1>3. client' \in [Clients -> Connections]
  BY <1>1, <1>2
<1>4. /\ kernel' \in [ports : SUBSET Nat, nulls : [Runs -> Int],
                      listening : SUBSET Nat]
      /\ kernel'.ports \in {kernel.ports, kernel.ports \ {main.run}}
  <2>1. kernel.nulls \in [Runs -> Int] /\ kernel.ports \in SUBSET Nat
        /\ kernel.listening \in SUBSET Nat
    BY DEF PortInv, Shape
  <2>2. [kernel.nulls EXCEPT ![main.run] = 0] \in [Runs -> Int]
    BY <2>1, CountOfNulls
  <2> QED
    BY <2>1, <2>2 DEF EndRun
<1>5. Shape'
  BY <1>1, <1>3, <1>4 DEF PortInv, Shape, Keys, Invalid
<1>6. KeysInv'
  BY <1>1, <1>2 DEF PortInv, KeysInv, Idle
<1>7. ASSUME ~main.late PROVE WorkersInv' /\ ContextsInv'
  <2>1. /\ WorkersInv /\ ContextsInv
        /\ NobodyHolds /\ \A d \in Clients : Over(client[d].port)
    BY <1>1, <1>7, NobodyInCleanup DEF PortInv, Cleaned
  <2>2. ASSUME NEW n PROVE /\ Over(n)' <=> Over(n)
                           /\ NotYet(n)' <=> NotYet(n)
    BY <1>1 DEF Over, NotYet, Cleaned, Unstarted
  <2>3. WorkersInv'
    BY <1>1, <2>1, <2>2 DEF WorkersInv, NobodyHolds, Cleaned, Unstarted
  <2>4. ContextsInv'
    BY <1>1, <1>2, <2>1, <2>2 DEF ContextsInv, Holds, NobodyHolds
  <2> QED
    BY <2>3, <2>4
<1> QED
  BY <1>1, <1>5, <1>6, <1>7 DEF PortInv

(* A crash leaves no worker and no context.                                *)
LEMMA CrashStep ==
  ASSUME PortInv, Crash PROVE PortInv'
<1>1. /\ main'.pc = "done" /\ main'.run = main.run /\ main'.late = main.late
      /\ main.run \in Nat /\ UNCHANGED <<g, kernel>>
      /\ worker' = [t \in Threads |-> NewWorker]
      /\ client' = [c \in Clients |-> NewClient]
  BY DEF Crash, PortInv, Shape
<1>2. Shape'
  BY <1>1, NewShape, ZenonT(60) DEF PortInv, Shape, Crash, Keys
<1>3. KeysInv'
  BY <1>1, NewShape, NullAssumption DEF KeysInv, Idle, NewWorker
<1>4. ASSUME ~main.late PROVE WorkersInv' /\ ContextsInv'
  <2>1. WorkersInv
    BY <1>4 DEF PortInv
  <2>2. WorkersInv'
    BY <1>1, <2>1, NewShape DEF WorkersInv, Cleaned, Unstarted
  <2>3. ContextsInv'
    BY <1>1, NewShape DEF ContextsInv, Holds
  <2> QED
    BY <2>2, <2>3
<1> QED
  BY <1>1, <1>2, <1>3, <1>4 DEF PortInv

-----------------------------------------------------------------------------
(* The workers.  A step of one worker that is at work changes nothing of   *)
(* what is said of the threads.                                            *)
LEMMA WorkersKept ==
  ASSUME PortInv, NEW t \in Threads, NEW u \in Workmen,
         worker' = [worker EXCEPT ![t] = u],
         worker[t].pc \notin {"none", "ended"},
         UNCHANGED main, kernel'.ports = kernel.ports,
         g'.ThreadHandles = g.ThreadHandles
  PROVE  /\ worker' \in [Threads -> Workmen]
         /\ worker'[t] = u
         /\ \A v \in Threads : v # t => worker'[v] = worker[v]
         /\ \A n : Over(n)' <=> Over(n)
         /\ ~main.late => WorkersInv'
<1>1. /\ worker' \in [Threads -> Workmen]
      /\ worker'[t] = u
      /\ \A v \in Threads : v # t => worker'[v] = worker[v]
  BY DEF PortInv, Shape
<1>2. ASSUME NEW n PROVE /\ Over(n)' <=> Over(n)
                         /\ NotYet(n)' <=> NotYet(n)
  BY DEF Over, NotYet
<1>3. ~main.late => WorkersInv'
  BY <1>1, <1>2 DEF PortInv, WorkersInv
<1> QED
  BY <1>1, <1>2, <1>3

(* A step of a worker at no connection: it ends, gives up its context or   *)
(* goes on with it.                                                        *)
LEMMA AloneStep ==
  ASSUME PortInv, NEW t \in Threads, NEW u \in Workmen,
         worker' = [worker EXCEPT ![t] = u],
         worker[t].pc \notin {"none", "ended"},
         UNCHANGED <<g, main, client>>,
         Shape', kernel'.ports = kernel.ports,
         u.key \in {worker[t].key, Null},
         u.pc \in {"test", "serve", "close", "log"} => u.key \in Clients,
         ~main.late /\ u.pc \in {"test", "serve", "close"} =>
             /\ u.key = worker[t].key
             /\ worker[t].pc \in {"test", "serve", "close"}
  PROVE  PortInv'
<1>1. /\ worker' \in [Threads -> Workmen]
      /\ worker'[t] = u
      /\ \A v \in Threads : v # t => worker'[v] = worker[v]
      /\ \A n : Over(n)' <=> Over(n)
      /\ ~main.late => WorkersInv'
  BY WorkersKept
<1>2. KeysInv'
  BY <1>1, NullAssumption DEF PortInv, KeysInv, Idle
<1>3. ~main.late => ContextsInv'
  BY <1>1 DEF PortInv, ContextsInv, Holds
<1> QED
  BY <1>1, <1>2, <1>3 DEF PortInv

(* The steps of that kind.                                                 *)
LEMMA AloneSteps ==
  ASSUME PortInv, NEW t \in Threads,
         \/ TakeNull(t) \/ Abandoned(t) \/ TestEndServer(t) \/ Log(t)
         \/ CloseRaises(t)
  PROVE  PortInv'
<1>0. /\ worker[t] \in Workmen /\ worker[t].key \in Keys
      /\ worker[t].pc \in {"test", "log", "close"} =>
           worker[t].key \in Clients
      /\ worker[t].pc \notin {"none", "ended"} /\ ~main.late =>
           t[2] \in kernel.ports
      /\ Shape
  BY Fields DEF PortInv, KeysInv, WorkersInv
<1>. DEFINE ended == [NewWorker EXCEPT !.pc = "ended"]
<1>1. /\ ended \in Workmen /\ ended.key = Null /\ ended.pc = "ended"
  BY EndedType
<1>. HIDE DEF ended
<1>2. ASSUME worker' = [worker EXCEPT ![t] = ended],
             worker[t].pc \notin {"none", "ended"},
             UNCHANGED <<g, main, client>>,
             kernel'.ports = kernel.ports,
             kernel' \in [ports : SUBSET Nat, nulls : [Runs -> Int],
                          listening : SUBSET Nat]
      PROVE  PortInv'
  <2>1. Shape'
    BY <1>0, <1>1, <1>2 DEF Shape
  <2> QED
    BY <1>0, <1>1, <1>2, <2>1, AloneStep
<1>3. ASSUME NEW u \in Workmen, worker' = [worker EXCEPT ![t] = u],
             u.key = worker[t].key, worker[t].key \in Clients,
             worker[t].pc \notin {"none", "ended"},
             UNCHANGED <<g, main, client, kernel>>,
             ~main.late /\ u.pc \in {"test", "serve", "close"} =>
                 worker[t].pc \in {"test", "serve", "close"}
      PROVE  PortInv'
  <2>1. Shape'
    BY <1>0, <1>3 DEF Shape
  <2> QED
    BY <1>3, <2>1, AloneStep
<1>4. CASE TakeNull(t)
  <2>1. /\ kernel.nulls \in [Runs -> Int] /\ kernel.ports \in SUBSET Nat
        /\ kernel.listening \in SUBSET Nat /\ t[2] \in Runs
    BY <1>0 DEF Shape, Threads
  <2>2. /\ kernel' \in [ports : SUBSET Nat, nulls : [Runs -> Int],
                        listening : SUBSET Nat]
        /\ kernel'.ports = kernel.ports
    BY <1>0, <1>4, <2>1 DEF TakeNull, Shape
  <2> QED
    BY <1>2, <1>4, <2>2 DEF TakeNull, End, ended
<1>5. CASE Abandoned(t) /\ worker[t].key = Null
  BY <1>0, <1>2, <1>5 DEF Abandoned, End, ended, Shape
<1>6. CASE Abandoned(t) /\ worker[t].key # Null
  <2>. DEFINE u == [worker[t] EXCEPT !.pc = "test", !.ok = FALSE]
  <2>1. /\ worker' = [worker EXCEPT ![t] = u]
        /\ worker[t].pc = "wait" /\ t[2] \notin kernel.ports
        /\ UNCHANGED <<g, main, client, kernel>>
    BY <1>0, <1>6 DEF Abandoned, Shape
  <2>2. u \in Workmen /\ u.key = worker[t].key /\ u.pc = "test"
    BY <1>0 DEF Workmen
  <2>3. worker[t].key \in Clients
    BY <1>0, <1>6 DEF Keys
  <2>. HIDE DEF u
  <2> QED
    BY <1>0, <1>3, <2>1, <2>2, <2>3
<1>7. CASE TestEndServer(t) /\ g.EndServer
  BY <1>0, <1>2, <1>7 DEF TestEndServer, End, ended, Shape
<1>8. CASE TestEndServer(t) /\ ~g.EndServer
  <2>1. PICK p \in {"close", "serve"} :
               worker' = [worker EXCEPT ![t].pc = p]
    BY <1>8 DEF TestEndServer
  <2>. DEFINE u == [worker[t] EXCEPT !.pc = p]
  <2>2. /\ worker' = [worker EXCEPT ![t] = u]
        /\ worker[t].pc = "test"
        /\ UNCHANGED <<g, main, client, kernel>>
    BY <1>0, <1>8, <2>1 DEF TestEndServer, Shape
  <2>3. u \in Workmen /\ u.key = worker[t].key
    BY <1>0, <2>1 DEF Workmen
  <2>. HIDE DEF u
  <2> QED
    BY <1>0, <1>3, <2>2, <2>3
<1>9. CASE Log(t)
  <2>. DEFINE u == [worker[t] EXCEPT !.pc = "wait"]
  <2>2. /\ worker' = [worker EXCEPT ![t] = u]
        /\ worker[t].pc = "log"
        /\ UNCHANGED <<g, main, client, kernel>>
    BY <1>0, <1>9 DEF Log, Shape
  <2>3. u \in Workmen /\ u.key = worker[t].key /\ u.pc = "wait"
    BY <1>0 DEF Workmen
  <2>. HIDE DEF u
  <2> QED
    BY <1>0, <1>3, <2>2, <2>3
<1>10. CASE CloseRaises(t)
  <2>. DEFINE u == At("wait", worker[t].key)
  <2>1. u \in Workmen /\ u.key = worker[t].key /\ u.pc = "wait"
    BY <1>0, AtType DEF Points
  <2>2. /\ worker' = [worker EXCEPT ![t] = u]
        /\ worker[t].pc = "close"
        /\ UNCHANGED <<g, main, client, kernel>>
    BY <1>10 DEF CloseRaises
  <2>. HIDE DEF u
  <2> QED
    BY <1>0, <1>3, <2>1, <2>2
<1> QED
  BY <1>4, <1>5, <1>6, <1>7, <1>8, <1>9, <1>10

(* A worker takes the packet of an operation, and is the owner now.        *)
LEMMA TakePacketStep ==
  ASSUME PortInv, NEW t \in Threads, NEW c \in Clients, TakePacket(t, c)
  PROVE  PortInv'
<1>. DEFINE u == [pc |-> "test", key |-> c, ok |-> client[c].ok,
                  size |-> client[c].size]
            r == [client[c] EXCEPT !.io = "none", !.ok = TRUE, !.size = 0]
<1>0. client[c] \in Connections
  BY Fields DEF PortInv
<1>1. /\ worker' = [worker EXCEPT ![t] = u]
      /\ client' = [client EXCEPT ![c] = r]
      /\ worker[t].pc = "wait" /\ client[c].io = "done"
      /\ client[c].port = t[2]
      /\ UNCHANGED <<g, main, kernel>>
  BY DEF TakePacket, PortInv, Shape
<1>2. /\ u \in Workmen /\ u.key = c /\ u.pc = "test"
      /\ r \in Connections /\ r.io = "none" /\ r.ctx = client[c].ctx
      /\ r.port = client[c].port /\ r.sock = client[c].sock
  <2>1. client[c].ok \in BOOLEAN /\ client[c].size \in Int
    BY <1>0 DEF Connections
  <2>2. u \in Workmen
    BY <2>1, WorkmanOf DEF Keys, Points
  <2>3. /\ r \in Connections /\ r.io = "none" /\ r.ctx = client[c].ctx
        /\ r.port = client[c].port /\ r.sock = client[c].sock
    <3>1. "none" \in {"none", "pending", "done"} /\ 0 \in Int
      OBVIOUS
    <3> QED
      BY <1>0, <3>1, SetResult, ZenonT(60)
  <2> QED
    BY <2>2, <2>3
<1>. HIDE DEF u, r
<1>3. /\ worker' \in [Threads -> Workmen]
      /\ worker'[t] = u
      /\ \A v \in Threads : v # t => worker'[v] = worker[v]
      /\ \A n : Over(n)' <=> Over(n)
      /\ ~main.late => WorkersInv'
  BY <1>1, <1>2, WorkersKept
<1>4. /\ client' \in [Clients -> Connections]
      /\ client'[c] = r
      /\ \A d \in Clients : d # c => Same(d)
  BY <1>1, <1>2, OneConnection DEF PortInv
<1>5. Shape'
  BY <1>1, <1>3, <1>4 DEF PortInv, Shape
<1>6. KeysInv'
  BY <1>1, <1>2, <1>3, <1>4 DEF PortInv, KeysInv, Idle, Same
<1>7. ASSUME ~main.late PROVE ContextsInv'
  <2>1. WorkersInv /\ ContextsInv
    BY <1>7 DEF PortInv
  <2>2. ~Over(t[2]) /\ client[c].ctx = "live"
    BY <1>1, <2>1 DEF WorkersInv, ContextsInv
  <2> QED
    BY <1>1, <1>2, <1>3, <1>4, <2>1, <2>2 DEF ContextsInv, Holds, Same
<1> QED
  BY <1>1, <1>3, <1>5, <1>6, <1>7 DEF PortInv

(* The owner posts the next operation and is the owner no more, or finds   *)
(* the connection gone.                                                    *)
LEMMA ServeStep ==
  ASSUME PortInv, NEW t \in Threads, Serve(t) PROVE PortInv'
<1>. DEFINE c == worker[t].key
            q == NextOperation(client[c], worker[t].size)
<1>0. /\ c \in Clients /\ client[c] \in Connections
      /\ worker[t] \in Workmen /\ worker[t].pc = "serve"
      /\ UNCHANGED <<g, main, kernel>>
  BY Fields DEF PortInv, KeysInv, Serve
<1>1. /\ q \in Connections /\ q.io = client[c].io /\ q.ctx = client[c].ctx
      /\ q.port = client[c].port /\ q.sock = client[c].sock
  <2>. DEFINE n == worker[t].size
              w == [client[c] EXCEPT !.nsent = @ + n]
              v == [w EXCEPT !.op = "read"]
              s == [client[c] EXCEPT !.op = "write", !.total = n, !.nsent = 0]
  <2>1. n \in Int
    BY <1>0 DEF Workmen
  <2>2. /\ w \in Connections /\ w.io = client[c].io
        /\ w.ctx = client[c].ctx /\ w.port = client[c].port
        /\ w.sock = client[c].sock
    BY <1>0, <2>1, SetSent
  <2>3. v \in Connections /\ v.io = w.io /\ v.ctx = w.ctx
        /\ v.port = w.port /\ v.sock = w.sock
    BY <2>2, SetOp
  <2>4. /\ s \in Connections /\ s.io = client[c].io
        /\ s.ctx = client[c].ctx /\ s.port = client[c].port
        /\ s.sock = client[c].sock
    <3>. DEFINE m == 0
                x == "write"
                y == [client[c] EXCEPT !.op = x, !.total = n, !.nsent = m]
    <3>1. x \in {"read", "write"} /\ m \in Int
      OBVIOUS
    <3>. HIDE DEF n, q, w, v, m, x
    <3>2. /\ y \in Connections /\ y.io = client[c].io
          /\ y.ctx = client[c].ctx /\ y.port = client[c].port
          /\ y.sock = client[c].sock
      BY <1>0, <2>1, <3>1 DEF Connections
    <3> QED
      BY <3>2 DEF m, x
  <2>5. q = s \/ q = w \/ q = v
    BY DEF NextOperation
  <2>. HIDE DEF w, v, s, q
  <2> QED
    BY <2>2, <2>3, <2>4, <2>5
<1>. HIDE DEF q
<1>2. /\ Posted(q) \in Connections /\ Posted(q).io = "pending"
      /\ Posted(q).ctx = client[c].ctx /\ Posted(q).port = client[c].port
      /\ Posted(q).sock = client[c].sock
  BY <1>1, SetIo DEF Posted
<1>3. ASSUME NEW p \in {"wait", "log", "close"}
      PROVE  At(p, c) \in Workmen /\ At(p, c).key = c /\ At(p, c).pc = p
  BY <1>0, AtType DEF Keys, Points
<1>4. PICK r \in Connections, p \in {"wait", "log", "close"} :
             /\ client' = [client EXCEPT ![c] = r]
             /\ worker' = [worker EXCEPT ![t] = At(p, c)]
             /\ r.io = "pending" \/ r.io = client[c].io
             /\ p = "close" => r.io = client[c].io
             /\ r.ctx = client[c].ctx /\ r.port = client[c].port
             /\ r.sock = client[c].sock
  <2>1. CASE /\ client' = [client EXCEPT ![c] = Posted(q)]
             /\ worker' = [worker EXCEPT ![t] = At(AfterPost(g.Verbose), c)]
    <3>1. AfterPost(g.Verbose) \in {"wait", "log"}
      BY DEF AfterPost
    <3> QED
      BY <1>2, <2>1, <3>1
  <2>2. CASE /\ client' = [client EXCEPT ![c] = q]
             /\ worker' = [worker EXCEPT ![t] = At("close", c)]
    BY <1>1, <2>2
  <2> QED
    BY <2>1, <2>2 DEF Serve, q
<1>. DEFINE u == At(p, c)
<1>5. u \in Workmen /\ u.key = c /\ u.pc = p
  BY <1>3
<1>. HIDE DEF c, u
<1>6. /\ worker' \in [Threads -> Workmen]
      /\ worker'[t] = u
      /\ \A v \in Threads : v # t => worker'[v] = worker[v]
      /\ \A n : Over(n)' <=> Over(n)
      /\ ~main.late => WorkersInv'
  BY <1>0, <1>4, <1>5, WorkersKept DEF u
<1>7. /\ client' \in [Clients -> Connections]
      /\ client'[c] = r
      /\ \A d \in Clients : d # c => Same(d)
  BY <1>0, <1>4, OneConnection DEF PortInv
<1>8. Shape'
  BY <1>0, <1>6, <1>7 DEF PortInv, Shape
<1>9. KeysInv'
  <2>1. /\ worker[t].key = c /\ c \in Clients
        /\ client[c].sock # "none"
        /\ main.pc \in {"update", "check", "recv"} => main.sdAccept # c
    BY <1>0 DEF PortInv, KeysInv, Idle, c
  <2> QED
    BY <1>0, <1>4, <1>5, <1>6, <1>7, <2>1 DEF PortInv, KeysInv, Idle, Same
<1>10. ASSUME ~main.late PROVE ContextsInv'
  <2>1. WorkersInv /\ ContextsInv
    BY <1>10 DEF PortInv
  <2>2. /\ Holds(t, c) /\ client[c].ctx = "live" /\ client[c].port = t[2]
        /\ client[c].io = "none"
        /\ \A v \in Threads : Holds(v, c) => v = t
    BY <1>0, <2>1 DEF ContextsInv, Holds, c
  <2> QED
    BY <1>0, <1>4, <1>5, <1>6, <1>7, <2>1, <2>2
       DEF ContextsInv, Holds, Same
<1> QED
  BY <1>0, <1>6, <1>8, <1>9, <1>10 DEF PortInv


(* An owner frees the context it has, and owns nothing afterwards.         *)
LEMMA CloseClientStep ==
  ASSUME PortInv, NEW t \in Threads, CloseClient(t) PROVE PortInv'
<1>. DEFINE c == worker[t].key
            u == At("wait", c)
<1>0. /\ c \in Clients /\ worker[t].pc = "close"
      /\ main.pc \notin {"free", "freeWait"}
      /\ CtxtListDeleteFrom(c)
      /\ worker' = [worker EXCEPT ![t] = u]
      /\ UNCHANGED <<main, kernel>>
  BY DEF PortInv, KeysInv, CloseClient, CriticalSectionFree
<1>1. /\ client' \in [Clients -> Connections]
      /\ client'[c].sock = "closed" /\ client'[c].io = client[c].io
      /\ client'[c].ctx = "freed" /\ client'[c].port = client[c].port
      /\ \A d \in Clients : d # c => Same(d)
      /\ HeadWithout(c) \in Keys
      /\ g' = [g EXCEPT !.CtxtList = HeadWithout(c)]
  BY <1>0, ListDelete DEF PortInv
<1>2. u \in Workmen /\ u.key = c /\ u.pc = "wait"
  <2>1. "wait" \in Points /\ c \in Keys
    BY <1>0 DEF Points, Keys
  <2> QED
    BY <2>1, AtType
<1>3. /\ g' \in [Verbose : BOOLEAN, EndServer : BOOLEAN, Restart : BOOLEAN,
                 IOCP : BOOLEAN, sdListen : Nat, CtxtList : Keys,
                 ThreadHandles : [Workers -> Nat]]
      /\ g'.ThreadHandles = g.ThreadHandles
  BY <1>1 DEF PortInv, Shape
<1>. HIDE DEF c, u
<1>4. /\ worker' \in [Threads -> Workmen]
      /\ worker'[t] = u
      /\ \A v \in Threads : v # t => worker'[v] = worker[v]
      /\ \A n : Over(n)' <=> Over(n)
      /\ ~main.late => WorkersInv'
  BY <1>0, <1>2, <1>3, WorkersKept
<1>5. Shape'
  BY <1>0, <1>1, <1>3, <1>4 DEF PortInv, Shape
<1>6. KeysInv'
  <2>1. /\ worker[t].key = c /\ client[c].sock # "none"
        /\ main.pc \in {"update", "check", "recv"} => main.sdAccept # c
    BY <1>0 DEF PortInv, KeysInv, Idle, c
  <2> QED
    BY <1>0, <1>1, <1>2, <1>4, <2>1 DEF PortInv, KeysInv, Idle, Same
<1>7. ASSUME ~main.late PROVE ContextsInv'
  <2>1. WorkersInv /\ ContextsInv
    BY <1>7 DEF PortInv
  <2>2. /\ client[c].io = "none"
        /\ \A v \in Threads : Holds(v, c) => v = t
    BY <1>0, <2>1 DEF ContextsInv, Holds, c
  <2> QED
    BY <1>0, <1>1, <1>2, <1>4, <2>1, <2>2 DEF ContextsInv, Holds, Same
<1> QED
  BY <1>0, <1>4, <1>5, <1>6, <1>7 DEF PortInv

-----------------------------------------------------------------------------
(* The system and the peers change nothing of a connection that the        *)
(* invariants look at, but that an operation under way is completed.       *)
LEMMA OutsideStep ==
  ASSUME PortInv, NEW c \in Clients, NEW r \in Connections,
         client' = [client EXCEPT ![c] = r],
         UNCHANGED <<g, main, kernel, worker>>,
         r.sock = client[c].sock, r.ctx = client[c].ctx,
         r.port = client[c].port,
         \/ r.io = client[c].io
         \/ client[c].io # "none" /\ r.io = "done"
  PROVE  PortInv'
<1>1. /\ client' \in [Clients -> Connections]
      /\ client'[c] = r
      /\ \A d \in Clients : d # c => Same(d)
  BY OneConnection DEF PortInv
<1>2. Shape'
  BY <1>1 DEF PortInv, Shape
<1>3. KeysInv'
  BY <1>1 DEF PortInv, KeysInv, Idle, Same
<1>4. ASSUME ~main.late PROVE WorkersInv' /\ ContextsInv'
  <2>1. WorkersInv /\ ContextsInv
    BY <1>4 DEF PortInv
  <2>2. ASSUME NEW n PROVE /\ Over(n)' <=> Over(n)
                           /\ NotYet(n)' <=> NotYet(n)
    BY DEF Over, NotYet
  <2>3. WorkersInv'
    BY <2>1, <2>2 DEF WorkersInv
  <2>4. ContextsInv'
    BY <1>1, <2>1, <2>2 DEF ContextsInv, Holds, Same
  <2> QED
    BY <2>3, <2>4
<1> QED
  BY <1>2, <1>3, <1>4 DEF PortInv

(* What a peer does keeps the invariant,                                   *)
LEMMA PeerStep ==
  ASSUME PortInv, NEW c \in Clients, Peer(c) PROVE PortInv'
<1>. DEFINE s == [client[c] EXCEPT !.said = @ + 1]
            p(x) == [client[c] EXCEPT !.peer = x]
<1>0. client[c] \in Connections /\ UNCHANGED <<g, main, kernel, worker>>
  BY Fields DEF PortInv, Peer
<1>1. /\ s \in Connections /\ s.io = client[c].io
      /\ s.ctx = client[c].ctx /\ s.port = client[c].port
      /\ s.sock = client[c].sock
  <2>1. client[c].said + 1 \in Int
    BY <1>0 DEF Connections
  <2> QED
    BY <1>0, <2>1 DEF Connections
<1>2. ASSUME NEW x \in {"closed", "reset"}
      PROVE  /\ p(x) \in Connections /\ p(x).io = client[c].io
             /\ p(x).ctx = client[c].ctx /\ p(x).port = client[c].port
             /\ p(x).sock = client[c].sock
  BY <1>0 DEF Connections
<1>3. \/ client' = [client EXCEPT ![c] = s]
      \/ client' = [client EXCEPT ![c] = p("closed")]
      \/ client' = [client EXCEPT ![c] = p("reset")]
  BY DEF Peer, PortInv, Shape
<1>. HIDE DEF s, p
<1>4. ASSUME NEW r \in Connections, r.io = client[c].io,
             r.ctx = client[c].ctx, r.port = client[c].port,
             r.sock = client[c].sock, client' = [client EXCEPT ![c] = r]
      PROVE  PortInv'
  BY <1>0, <1>4, OutsideStep
<1>5. CASE client' = [client EXCEPT ![c] = s]
  BY <1>1, <1>4, <1>5
<1>6. ASSUME NEW x \in {"closed", "reset"},
             client' = [client EXCEPT ![c] = p(x)]
      PROVE  PortInv'
  BY <1>2, <1>4, <1>6
<1> QED
  BY <1>3, <1>5, <1>6

(* and so does what the system does to an operation under way.             *)
LEMMA CompleteStep ==
  ASSUME PortInv, NEW c \in Clients, Complete(c) PROVE PortInv'
<1>0. client[c] \in Connections /\ client[c].io = "pending"
      /\ UNCHANGED <<g, main, kernel, worker>>
  BY Fields DEF PortInv, Complete
<1>. DEFINE done(n) == Completed(client[c], n)
<1>1. ASSUME NEW n \in Int
      PROVE  /\ done(n) \in Connections /\ done(n).io = "done"
             /\ done(n).ctx = client[c].ctx
             /\ done(n).port = client[c].port
             /\ done(n).sock = client[c].sock
  BY <1>0, <1>1 DEF Completed, Connections
<1>2. ASSUME NEW r \in Connections, r.io = "done",
             r.ctx = client[c].ctx, r.port = client[c].port,
             r.sock = client[c].sock, client' = [client EXCEPT ![c] = r]
      PROVE  PortInv'
  BY <1>0, <1>2, OutsideStep
<1>3. CASE CompleteRead(c)
  <2>1. PICK n \in Nat :
          \/ client' = [client EXCEPT ![c] = [done(n) EXCEPT !.got = @ + n]]
          \/ client' = [client EXCEPT ![c] = done(0)]
    BY <1>3, ConstantsAssumption DEF CompleteRead
  <2>. DEFINE r == [done(n) EXCEPT !.got = @ + n]
  <2>2. /\ r \in Connections /\ r.io = "done"
        /\ r.ctx = client[c].ctx /\ r.port = client[c].port
        /\ r.sock = client[c].sock
    <3>1. n \in Int
      BY <2>1
    <3>. HIDE DEF done
    <3>2. /\ done(n) \in Connections /\ done(n).io = "done"
          /\ done(n).ctx = client[c].ctx
          /\ done(n).port = client[c].port
          /\ done(n).sock = client[c].sock
      BY <1>1, <3>1
    <3>3. done(n).got + n \in Int
      BY <3>1, <3>2 DEF Connections
    <3> QED
      BY <3>2, <3>3 DEF Connections
  <2>3. 0 \in Int
    OBVIOUS
  <2>. HIDE DEF done, r
  <2> QED
    BY <1>1, <1>2, <2>1, <2>2, <2>3 DEF r
<1>4. CASE CompleteWrite(c)
  <2>. DEFINE e(n) == client[c].echo
                        \o [i \in 1 .. n |-> SendFrom(client[c]) + i]
              r(n) == [done(n) EXCEPT !.echo = e(n)]
  <2>1. PICK n \in Nat : client' = [client EXCEPT ![c] = r(n)]
    <3>1. client[c].total \in Int /\ client[c].nsent \in Int
      BY <1>0 DEF Connections
    <3>2. PICK n \in 1 .. client[c].total - client[c].nsent :
            client' = [client EXCEPT ![c] =
              [done(n) EXCEPT
                 !.echo = @ \o [i \in 1 .. n |-> SendFrom(client[c]) + i]]]
      BY <1>4 DEF CompleteWrite
    <3>3. done(n).echo = client[c].echo
      BY <1>0 DEF Completed, Connections
    <3>4. n \in Nat
      BY <3>1, <3>2
    <3> QED
      BY <3>2, <3>3, <3>4
  <2>2. /\ r(n) \in Connections /\ r(n).io = "done"
        /\ r(n).ctx = client[c].ctx /\ r(n).port = client[c].port
        /\ r(n).sock = client[c].sock
    <3>1. client[c].echo \in Seq(Int) /\ SendFrom(client[c]) \in Int
      BY <1>0 DEF Connections, SendFrom
    <3>2. [i \in 1 .. n |-> SendFrom(client[c]) + i] \in Seq(Int)
      <4>. DEFINE m == SendFrom(client[c])
      <4>1. m \in Int
        BY <3>1
      <4>. HIDE DEF m
      <4>2. \A i \in 1 .. n : m + i \in Int
        BY <4>1
      <4> QED
        BY <2>1, <4>2 DEF m
    <3>3. e(n) \in Seq(Int)
      BY <3>1, <3>2
    <3>4. n \in Int
      BY <2>1
    <3>. HIDE DEF done, e
    <3>5. /\ done(n) \in Connections /\ done(n).io = "done"
          /\ done(n).ctx = client[c].ctx
          /\ done(n).port = client[c].port
          /\ done(n).sock = client[c].sock
      BY <1>1, <3>4
    <3> QED
      BY <3>3, <3>5 DEF Connections
  <2>. HIDE DEF done, r
  <2> QED
    BY <1>2, <2>1, <2>2
<1>5. CASE CompleteAborted(c)
  <2>. DEFINE r == [client[c] EXCEPT !.io = "done", !.ok = FALSE, !.size = 0]
  <2>1. client' = [client EXCEPT ![c] = r]
    BY <1>0, <1>5 DEF CompleteAborted, PortInv, Shape
  <2>2. /\ r \in Connections /\ r.io = "done"
        /\ r.ctx = client[c].ctx /\ r.port = client[c].port
        /\ r.sock = client[c].sock
    <3>. DEFINE n == 0
                b == FALSE
                x == "done"
                y == [client[c] EXCEPT !.io = x, !.ok = b, !.size = n]
    <3>1. x \in {"none", "pending", "done"} /\ b \in BOOLEAN /\ n \in Int
      OBVIOUS
    <3>. HIDE DEF x, b, n
    <3>2. /\ y \in Connections /\ y.io = x
          /\ y.ctx = client[c].ctx /\ y.port = client[c].port
          /\ y.sock = client[c].sock
      BY <1>0, <3>1 DEF Connections
    <3> QED
      BY <3>2 DEF x, b, n
  <2>. HIDE DEF r
  <2> QED
    BY <1>2, <2>1, <2>2
<1> QED
  BY <1>3, <1>4, <1>5 DEF Complete

-----------------------------------------------------------------------------
(* Nobody is at work at the start.                                         *)
LEMMA InitInv == Init => PortInv
<1>. SUFFICES ASSUME Init PROVE PortInv
  OBVIOUS
<1>1. /\ main.run = 0 /\ main.pc = "top"
      /\ \A w \in Workers : g.ThreadHandles[w] = Invalid
  BY DEF Init
<1>2. /\ \A t \in Threads : worker[t] = NewWorker
      /\ \A c \in Clients : client[c] = NewClient
  BY DEF Init
<1>3. NewWorker.key = Null /\ NewWorker.pc = "none"
      /\ NewClient.io = "none" /\ NewClient.ctx = "none"
      /\ NewClient.port = 0
  BY NewShape DEF NewWorker
<1>4. Shape
  <2>1. Null \in Keys /\ Invalid \in Nat
    BY DEF Keys, Invalid
  <2>2. g \in [Verbose : BOOLEAN, EndServer : BOOLEAN, Restart : BOOLEAN,
               IOCP : BOOLEAN, sdListen : Nat, CtxtList : Keys,
               ThreadHandles : [Workers -> Nat]]
    BY <2>1 DEF Init
  <2>3. main \in [pc : {"top", "reset", "port", "threads", "socket", "bind",
                        "accept", "update", "check", "recv", "finally",
                        "wait", "enter", "free", "freeWait", "endRun",
                        "done"},
                  run : Nat, sdAccept : Keys, at : Keys, next : Keys,
                  late : BOOLEAN, left : BOOLEAN]
    BY <2>1 DEF Init
  <2>4. kernel \in [ports : SUBSET Nat, nulls : [Runs -> Int],
                    listening : SUBSET Nat]
    BY DEF Init
  <2>5. /\ worker \in [Threads -> Workmen]
        /\ client \in [Clients -> Connections]
    BY NewShape DEF Init
  <2> QED
    BY <2>2, <2>3, <2>4, <2>5 DEF Shape
<1>5. KeysInv
  BY <1>1, <1>2, <1>3, NullAssumption DEF KeysInv, Idle
<1>6. WorkersInv
  BY <1>1, <1>2, <1>3 DEF WorkersInv, Cleaned, Unstarted
<1>7. ContextsInv
  BY <1>1, <1>2, <1>3 DEF ContextsInv, Holds
<1> QED
  BY <1>4, <1>5, <1>6, <1>7 DEF PortInv

(* No step of any thread, of the system, the peers or the console breaks   *)
(* it.                                                                     *)
LEMMA PortStep ==
  ASSUME PortInv, [Next]_vars PROVE PortInv'
<1>1. CASE Crash
  BY <1>1, CrashStep
<1>2. CASE ~Crash
  <2>1. CASE MainThread
    <3>1. CASE \/ ResetEndServer \/ CreateSocket \/ Bind \/ CheckEndServer
               \/ BeginCleanup \/ EnterListFree \/ LeaveListFree
      BY <1>2, <3>1, QuietSteps
    <3>2. CASE Restart
      BY <3>2, RestartStep
    <3>3. CASE CreatePort
      BY <3>3, CreatePortStep
    <3>4. CASE CreateThreads
      BY <3>4, CreateThreadsStep
    <3>5. CASE UpdateCompletionPort
      BY <1>2, <3>5, UpdateStep
    <3>6. CASE PostRecv
      BY <3>6, PostRecvStep
    <3>7. CASE WaitForWorkers
      BY <3>7, WaitStep
    <3>8. CASE CloseNext
      BY <3>8, CloseNextStep
    <3>9. CASE FreeNext
      BY <3>9, FreeNextStep
    <3>10. CASE EndRun
      BY <3>10, EndRunStep
    <3>11. CASE MainUsesFreed
      BY <1>2, <3>11 DEF MainUsesFreed
    <3> QED
      BY <2>1, <3>1, <3>2, <3>3, <3>4, <3>5, <3>6, <3>7, <3>8, <3>9, <3>10,
         <3>11 DEF MainThread
  <2>2. CASE AcceptFails \/ ConsoleEvent \/ CtrlHandler \/ UNCHANGED vars
    BY <1>2, <2>2, QuietSteps
  <2>3. ASSUME NEW t \in Threads, WorkerThread(t) PROVE PortInv'
    <3>1. CASE \E c \in Clients : TakePacket(t, c)
      BY <3>1, TakePacketStep
    <3>2. CASE \/ TakeNull(t) \/ Abandoned(t) \/ TestEndServer(t) \/ Log(t)
               \/ CloseRaises(t)
      BY <3>2, AloneSteps
    <3>3. CASE Serve(t)
      BY <3>3, ServeStep
    <3>4. CASE CloseClient(t)
      BY <3>4, CloseClientStep
    <3>5. CASE WorkerUsesFreed(t)
      BY <1>2, <3>5 DEF WorkerUsesFreed
    <3> QED
      BY <2>3, <3>1, <3>2, <3>3, <3>4, <3>5 DEF WorkerThread
  <2>4. ASSUME NEW c \in Clients, Accept(c) \/ Complete(c) \/ Peer(c)
        PROVE  PortInv'
    BY <2>4, AcceptStep, CompleteStep, PeerStep
  <2> QED
    BY <2>1, <2>2, <2>3, <2>4 DEF Next
<1> QED
  BY <1>1, <1>2

(* The invariant of the port and its contexts holds always.                *)
LEMMA PortInvAlways == Spec => []PortInv
BY InitInv, PortStep, PTL DEF Spec

(* As long as no cleanup gave up its wait, the context a worker has is not *)
(* freed; with any number of workers, and of runs whose ports and workers  *)
(* overlap.                                                                *)
THEOREM HeldAlwaysLive == Spec => []HeldContextIsLive
<1>1. PortInv => HeldContextIsLive
  BY DEF PortInv, ContextsInv, HeldContextIsLive
<1> QED
  BY <1>1, PortInvAlways, PTL
=============================================================================
