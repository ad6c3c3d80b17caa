-------------------------- MODULE IocpService_proofs --------------------------
(***************************************************************************)
(* IocpServer implements EchoService, for any connections, workers,        *)
(* buffers and console events, late cleanups included.                     *)
(*                                                                         *)
(* That a byte comes back in its place follows from the accounts of        *)
(* EchoInv; that a connection ends once, and not before it was made, from  *)
(* MadeInv: nothing that leads to a context leads to one that was not      *)
(* made.                                                                   *)
(***************************************************************************)
EXTENDS IocpEcho_proofs

(* The contexts that were made, freed ones among them: the list and the    *)
(* main thread know no others.                                             *)
Made == {c \in Clients : client[c].ctx # "none"} \cup {Null}

MadeInv ==
    /\ \A c \in Clients :
         /\ client[c].sock = "none" => client[c].said = 0
         /\ client[c].back \in Made /\ client[c].forward \in Made
    /\ ~crashed => g.CtxtList \in Made
    /\ main.at \in Made /\ main.next \in Made
    /\ main.sdAccept # Null => client[main.sdAccept].sock # "none"

(* A step of the server as the service sees it.                            *)
Simulated == [Service!Next]_<<State, Said, Returned>>

-----------------------------------------------------------------------------
(* What the service does not see of a connection,                          *)
Hidden(d) ==
    /\ client'[d].sock = client[d].sock
    /\ Open(d) => /\ client'[d].said = client[d].said
                  /\ client'[d].echo = client[d].echo

(* of none,                                                                *)
LEMMA AllHidden ==
  ASSUME UNCHANGED crashed, \A d \in Clients : Hidden(d) PROVE Simulated
<1>1. UNCHANGED <<State, Said, Returned>>
  BY DEF Hidden, Open, State, Said, Returned
<1> QED
  BY <1>1 DEF Simulated

(* and of all but one.                                                     *)
LEMMA OneSeen ==
  ASSUME ~crashed, UNCHANGED crashed, NEW c \in Clients,
         \A d \in Clients : d # c => Hidden(d)
  PROVE  /\ State[c] = client[c].sock
         /\ State' = [State EXCEPT ![c] = client'[c].sock]
         /\ Said' = [Said EXCEPT
                ![c] = IF Open(c)' THEN client'[c].said ELSE 0]
         /\ Returned' = [Returned EXCEPT
                ![c] = IF Open(c)' THEN client'[c].echo ELSE <<>>]
BY DEF Hidden, Open, State, Said, Returned

(* A connection that ends, if it has not ended before.                     *)
LEMMA SimulatesClose ==
  ASSUME ~crashed, UNCHANGED crashed, NEW c \in Clients,
         \A d \in Clients : d # c => Hidden(d),
         client[c].sock \in {"open", "closed"}, client'[c].sock = "closed"
  PROVE  Simulated
<1>1. CASE client[c].sock = "closed"
  BY <1>1, AllHidden DEF Hidden, Open
<1>2. CASE client[c].sock = "open"
  <2>1. Service!Close(c)
    BY <1>2, OneSeen DEF Open, Service!Close
  <2> QED
    BY <2>1 DEF Simulated, Service!Next
<1> QED
  BY <1>1, <1>2

(* A connection that was not made.                                         *)
LEMMA NewService ==
  /\ NewClient.sock = "none" /\ NewClient.ctx = "none" /\ NewClient.said = 0
  /\ NewClient.back = Null /\ NewClient.forward = Null
BY DEF NewClient

(* A crash ends them all.                                                  *)
LEMMA SimulatesFail ==
  ASSUME Crash PROVE Simulated
<1>1. crashed' /\ \A c \in Clients : client'[c].sock = "none"
  BY NewService DEF Crash
<1>2. Service!Fail
  BY <1>1 DEF State, Said, Returned, Open, Service!Fail
<1> QED
  BY <1>2 DEF Simulated, Service!Next

-----------------------------------------------------------------------------
(* A step that moves no connection in the list.                            *)
Beside(d) ==
    /\ client'[d].ctx = client[d].ctx
    /\ client'[d].back = client[d].back
    /\ client'[d].forward = client[d].forward

(* Such a step keeps MadeInv, if the main thread goes on along the list.   *)
LEMMA MadeBeside ==
  ASSUME MadeInv, UNCHANGED crashed, \A d \in Clients : Beside(d),
         \A d \in Clients :
             client'[d].sock = "none" =>
                 client[d].sock = "none" /\ client'[d].said = client[d].said,
         g'.CtxtList = g.CtxtList,
         main'.at \in {main.at, main.next, g.CtxtList, Null},
         ~crashed \/ main'.at = main.at,
         main'.next \in {main.next, Null}
             \cup {client[d].back : d \in {c \in Clients : c = main.at}},
         main'.sdAccept # Null => client'[main'.sdAccept].sock # "none"
  PROVE  MadeInv'
<1>1. Made' = Made
  BY DEF Made, Beside
<1> QED
  BY <1>1 DEF MadeInv, Beside, Made

(* The steps of the main thread, of the workers and of the console that    *)
(* touch no connection.                                                    *)
LEMMA ServiceQuietSteps ==
  ASSUME PortInv, MadeInv, ~crashed, UNCHANGED <<client, crashed>>,
         \/ Restart \/ ResetEndServer \/ CreatePort \/ CreateThreads
         \/ CreateSocket \/ Bind \/ AcceptFails \/ CheckEndServer
         \/ BeginCleanup \/ WaitForWorkers \/ EnterListFree \/ LeaveListFree
         \/ ConsoleEvent \/ CtrlHandler
         \/ \E t \in Threads :
              \/ TakeNull(t) \/ Abandoned(t) \/ TestEndServer(t) \/ Log(t)
              \/ CloseRaises(t)
         \/ /\ Goto("finally")
            /\ g' = g \/ g' = [g EXCEPT !.IOCP = FALSE]
  PROVE  MadeInv' /\ Simulated
<1>1. /\ main \in [pc : {"top", "reset", "port", "threads", "socket", "bind",
                       "accept", "update", "check", "recv", "finally", "wait",
                       "enter", "free", "freeWait", "endRun", "done"},
                  run : Nat, sdAccept : Keys, at : Keys, next : Keys,
                  late : BOOLEAN, left : BOOLEAN]
      /\ g \in [Verbose : BOOLEAN, EndServer : BOOLEAN, Restart : BOOLEAN,
              IOCP : BOOLEAN, sdListen : Nat, CtxtList : Keys,
              ThreadHandles : [Workers -> Nat]]
  BY DEF PortInv, Shape
<1>2. /\ g'.CtxtList = g.CtxtList
      /\ main'.at \in {main.at, g.CtxtList} /\ main'.next = main.next
      /\ main'.sdAccept \in {main.sdAccept, Null}
  <2>. USE DEF Goto
  <2>1. CASE \/ Restart \/ ResetEndServer \/ CreatePort
             \/ CreateSocket \/ Bind
    BY <1>1, <2>1, ZenonT(60)
       DEF Restart, ResetEndServer, CreatePort, CreateSocket, Bind
  <2>2. CASE CreateThreads
    BY <1>1, <2>2 DEF CreateThreads
  <2>3. CASE AcceptFails \/ CheckEndServer \/ BeginCleanup \/ WaitForWorkers
    BY <1>1, <2>3 DEF AcceptFails, CheckEndServer, BeginCleanup,
         WaitForWorkers
  <2>4. CASE EnterListFree \/ LeaveListFree
    BY <1>1, <2>4 DEF EnterListFree, LeaveListFree
  <2>5. CASE ConsoleEvent \/ CtrlHandler
    BY <1>1, <2>5 DEF ConsoleEvent, CtrlHandler, TakeListen, CloseListen,
         ClearListen, SetEndServer
  <2>6. CASE \E t \in Threads :
               \/ TakeNull(t) \/ Abandoned(t) \/ TestEndServer(t) \/ Log(t)
               \/ CloseRaises(t)
    BY <2>6 DEF TakeNull, Abandoned, TestEndServer, Log, CloseRaises
  <2>7. CASE /\ Goto("finally")
             /\ g' = g \/ g' = [g EXCEPT !.IOCP = FALSE]
    BY <1>1, <2>7
  <2> QED
    BY <2>1, <2>2, <2>3, <2>4, <2>5, <2>6, <2>7
<1>3. MadeInv'
  BY <1>2, MadeBeside DEF MadeInv, Beside
<1> QED
  BY <1>3, AllHidden DEF Hidden

-----------------------------------------------------------------------------
(* A step at one connection, which stays where it is in the list,          *)
Moved(r, s) ==
    /\ s.ctx = r.ctx /\ s.back = r.back /\ s.forward = r.forward
    /\ s.sock = "none" => r.sock = "none" /\ s.said = r.said

(* keeps it, and the service sees no other connection change.              *)
LEMMA ServiceAt ==
  ASSUME PortInv, MadeInv, ~crashed, UNCHANGED crashed,
         NEW c \in Clients, NEW s, client' = [client EXCEPT ![c] = s],
         Moved(client[c], s), g'.CtxtList = g.CtxtList, main'.at = main.at,
         \/ main'.next = main.next
         \/ main.at = c /\ main'.next = client[c].back,
         \/ main'.sdAccept = main.sdAccept
         \/ main'.sdAccept = c /\ s.sock # "none"
  PROVE  MadeInv' /\ client'[c] = s /\ \A d \in Clients : d # c => Hidden(d)
<1>1. client'[c] = s /\ \A d \in Clients : d # c => client'[d] = client[d]
  BY DEF PortInv, Shape
<1>2. \A d \in Clients : Beside(d)
  BY <1>1 DEF Beside, Moved
<1>3. \A d \in Clients : client'[d].sock = "none" =>
        client[d].sock = "none" /\ client'[d].said = client[d].said
  BY <1>1 DEF Moved
<1>4. main'.sdAccept # Null => client'[main'.sdAccept].sock # "none"
  <2>1. main'.sdAccept \in Clients \cup {Null}
    BY Fields DEF PortInv, Shape, Keys
  <2> QED
    BY <1>1, <1>3, <2>1 DEF MadeInv
<1>5. MadeInv'
  BY <1>2, <1>3, <1>4, MadeBeside
<1> QED
  BY <1>1, <1>5 DEF Hidden

(* It is not seen there either if the bytes and the socket are the same.   *)
LEMMA ServiceUnseen ==
  ASSUME PortInv, MadeInv, ~crashed, UNCHANGED crashed,
         NEW c \in Clients, NEW s, client' = [client EXCEPT ![c] = s],
         s.ctx = client[c].ctx, s.back = client[c].back,
         s.forward = client[c].forward, s.sock = client[c].sock,
         s.said = client[c].said, s.echo = client[c].echo,
         g'.CtxtList = g.CtxtList, main'.at = main.at,
         main'.next = main.next, main'.sdAccept = main.sdAccept
  PROVE  MadeInv' /\ Simulated
<1>1. Moved(client[c], s)
  BY DEF Moved
<1>2. MadeInv' /\ client'[c] = s /\ \A d \in Clients : d # c => Hidden(d)
  BY <1>1, ServiceAt
<1>3. Hidden(c)
  BY <1>2 DEF Hidden
<1> QED
  BY <1>2, <1>3, AllHidden

-----------------------------------------------------------------------------
(* A connection is made.                                                   *)
LEMMA ServiceAccept ==
  ASSUME PortInv, EchoInv, MadeInv, ~crashed, NEW c \in Clients, Accept(c)
  PROVE  MadeInv' /\ Simulated
<1>. DEFINE s == [client[c] EXCEPT !.sock = "open"]
<1>1. /\ client[c] \in Connections /\ client[c].sock = "none"
      /\ client' = [client EXCEPT ![c] = s] /\ UNCHANGED <<g, crashed>>
      /\ main'.at = main.at /\ main'.next = main.next /\ main'.sdAccept = c
  BY Fields DEF Accept, PortInv, Shape
<1>2. /\ s.ctx = client[c].ctx /\ s.back = client[c].back
      /\ s.forward = client[c].forward /\ s.sock = "open"
      /\ s.said = client[c].said /\ s.echo = client[c].echo
  BY <1>1 DEF Connections
<1>. HIDE DEF s
<1>3. MadeInv' /\ client'[c] = s /\ \A d \in Clients : d # c => Hidden(d)
  BY <1>1, <1>2, ServiceAt DEF Moved
<1>4. client[c].said = 0 /\ client[c].echo = <<>>
  BY <1>1 DEF MadeInv, PortInv, KeysInv, EchoInv, EchoAt, ContextOK, Unused
<1>5. Service!Connect(c)
  <2>1. State[c] = "none" /\ State' = [State EXCEPT ![c] = "open"]
    BY <1>1, <1>2, <1>3, OneSeen
  <2>2. /\ Said' = [Said EXCEPT ![c] = 0] /\ Said[c] = 0
        /\ Returned' = [Returned EXCEPT ![c] = <<>>] /\ Returned[c] = <<>>
    <3>1. client'[c].said = 0 /\ client'[c].echo = <<>>
      BY <1>2, <1>3, <1>4
    <3>2. Said[c] = 0 /\ Returned[c] = <<>>
      BY <1>1 DEF Open, Said, Returned
    <3> QED
      BY <1>1, <1>3, <3>1, <3>2, OneSeen
  <2>3. UNCHANGED <<Said, Returned>>
    BY <2>2 DEF Said, Returned
  <2> QED
    BY <2>1, <2>3 DEF Service!Connect
<1> QED
  BY <1>3, <1>5 DEF Simulated, Service!Next

(* The cleanup closes a connection; it was made, for it is in the list.    *)
LEMMA ServiceCloseNext ==
  ASSUME PortInv, MadeInv, ~crashed, CloseNext PROVE MadeInv' /\ Simulated
<1>1. PICK c \in Clients : c = main.at
  BY Fields DEF CloseNext, PortInv, Keys
<1>. DEFINE s == CloseSocket(client[c])
<1>2. /\ client[c] \in Connections /\ client[c].sock # "none"
      /\ client' = [client EXCEPT ![c] = s] /\ UNCHANGED <<g, crashed>>
      /\ main'.at = main.at /\ main'.next = client[c].back
      /\ main'.sdAccept = main.sdAccept
  BY <1>1, Fields, NullAssumption
     DEF CloseNext, PortInv, Shape, MadeInv, Made, KeysInv
<1>3. /\ s.ctx = client[c].ctx /\ s.back = client[c].back
      /\ s.forward = client[c].forward /\ s.sock = "closed"
      /\ client[c].sock \in {"open", "closed"}
  BY <1>2 DEF Connections, CloseSocket
<1>. HIDE DEF s
<1>4. MadeInv' /\ client'[c] = s /\ \A d \in Clients : d # c => Hidden(d)
  BY <1>1, <1>2, <1>3, ServiceAt DEF Moved
<1> QED
  BY <1>2, <1>3, <1>4, SimulatesClose

(* The end of a run closes the one that was accepted last.                 *)
LEMMA ServiceEndRun ==
  ASSUME PortInv, MadeInv, ~crashed, EndRun PROVE MadeInv' /\ Simulated
<1>1. /\ client' = [c \in Clients |-> IF c = main.sdAccept
                    THEN [client[c] EXCEPT !.sock = "closed"] ELSE client[c]]
      /\ g'.CtxtList = g.CtxtList /\ UNCHANGED crashed
      /\ main'.at = main.at /\ main'.next = main.next
      /\ main'.sdAccept = Null /\ main.sdAccept \in Keys
  BY DEF EndRun, PortInv, Shape
<1>2. ASSUME NEW c \in Clients
      PROVE  /\ Beside(c) /\ client'[c].said = client[c].said
             /\ client'[c].sock = IF c = main.sdAccept THEN "closed"
                                  ELSE client[c].sock
             /\ c # main.sdAccept => Hidden(c)
  <2>. DEFINE s == [client[c] EXCEPT !.sock = "closed"]
  <2>1. client[c] \in Connections
    BY Fields DEF PortInv
  <2>2. /\ s.ctx = client[c].ctx /\ s.back = client[c].back
        /\ s.forward = client[c].forward /\ s.sock = "closed"
        /\ s.said = client[c].said
    BY <2>1 DEF Connections
  <2>3. client'[c] = IF c = main.sdAccept THEN s ELSE client[c]
    BY <1>1
  <2>. HIDE DEF s
  <2> QED
    BY <2>2, <2>3 DEF Beside, Hidden
<1>3. MadeInv'
  BY <1>1, <1>2, MadeBeside
<1>4. Simulated
  <2>1. CASE main.sdAccept = Null
    BY <1>1, <1>2, <2>1, NullAssumption, AllHidden
  <2>2. CASE main.sdAccept \in Clients
    <3>1. client[main.sdAccept].sock \in {"open", "closed"}
      BY <2>2, Fields, NullAssumption DEF PortInv, MadeInv, Connections
    <3> QED
      BY <1>1, <1>2, <2>2, <3>1, SimulatesClose
  <2> QED
    BY <1>1, <2>1, <2>2 DEF Keys
<1> QED
  BY <1>3, <1>4

-----------------------------------------------------------------------------
(* What the list knows after a context was added to it,                    *)
LEMMA ServiceAdd ==
  ASSUME PortInv, MadeInv, ~crashed, UNCHANGED crashed,
         NEW c \in Clients, CtxtListAddTo(c), client[c].sock # "none",
         main'.at = main.at, main'.next = main.next,
         main'.sdAccept = main.sdAccept
  PROVE  MadeInv' /\ Simulated
<1>1. /\ client'[c].sock = client[c].sock /\ client'[c].ctx = "live"
      /\ SameBytes(client[c], client'[c])
      /\ \A d \in Clients : d # c => Same(d)
      /\ g' = [g EXCEPT !.CtxtList = c]
  BY ListAdd DEF PortInv
<1>2. \A d \in Clients : Hidden(d)
  BY <1>1 DEF Hidden, Same, SameBytes
<1>3. ASSUME NEW d \in Clients
      PROVE  /\ client'[d].back \in {client[d].back, g.CtxtList}
             /\ client'[d].forward \in {client[d].forward, c}
  <2>. DEFINE r == [client[c] EXCEPT !.ctx = "live", !.port = main.run,
                                     !.back = g.CtxtList]
              q == [client[d] EXCEPT !.forward = c]
  <2>1. client[c] \in Connections /\ client[d] \in Connections
    BY Fields DEF PortInv
  <2>2. r.back = g.CtxtList /\ r.forward = client[c].forward
    BY <2>1 DEF Connections
  <2>3. q.back = client[d].back /\ q.forward = c
    BY <2>1 DEF Connections
  <2>4. client'[d] = IF d = c THEN r
                     ELSE IF d = g.CtxtList THEN q ELSE client[d]
    BY DEF CtxtListAddTo
  <2>. HIDE DEF r, q
  <2> QED
    BY <2>2, <2>3, <2>4
<1>4. g'.CtxtList = c
  BY <1>1 DEF PortInv, Shape
<1>5. /\ \A d \in Clients : /\ client'[d].sock = client[d].sock
                            /\ client'[d].said = client[d].said
                            /\ client[d].ctx # "none" =>
                                   client'[d].ctx # "none"
  BY <1>1 DEF Same, SameBytes
<1>6. Made \subseteq Made' /\ c \in Made'
  BY <1>1, <1>5 DEF Made
<1>7. main.sdAccept \in Keys
  BY DEF PortInv, Shape
<1>8. MadeInv'
  BY <1>3, <1>4, <1>5, <1>6, <1>7 DEF MadeInv, Keys
<1> QED
  BY <1>2, <1>8, AllHidden

(* after one was not, for want of the critical section,                    *)
LEMMA ServiceNotAdded ==
  ASSUME PortInv, MadeInv, ~crashed, UNCHANGED crashed,
         NEW c \in Clients, NotAddedToList(c), client[c].sock # "none",
         main'.at = main.at, main'.next = main.next,
         main'.sdAccept = main.sdAccept
  PROVE  MadeInv' /\ Simulated
<1>. DEFINE r == [client[c] EXCEPT !.ctx = "live", !.port = main.run]
<1>1. /\ client'[c].sock = client[c].sock /\ client'[c].ctx = "live"
      /\ SameBytes(client[c], client'[c])
      /\ \A d \in Clients : d # c => Same(d)
      /\ UNCHANGED g
  BY ListNotAdded DEF PortInv
<1>2. \A d \in Clients : Hidden(d)
  BY <1>1 DEF Hidden, Same, SameBytes
<1>3. r.back = client[c].back /\ r.forward = client[c].forward
  BY Fields DEF PortInv, Connections
<1>4. client' = [client EXCEPT ![c] = r]
  BY DEF NotAddedToList, PortInv, Shape
<1>. HIDE DEF r
<1>5. \A d \in Clients : /\ client'[d].back = client[d].back
                         /\ client'[d].forward = client[d].forward
                         /\ client'[d].sock = client[d].sock
                         /\ client'[d].said = client[d].said
                         /\ client[d].ctx # "none" => client'[d].ctx # "none"
  BY <1>1, <1>3, <1>4 DEF PortInv, Shape, Same, SameBytes
<1>6. Made \subseteq Made'
  BY <1>5 DEF Made
<1>7. main.sdAccept \in Keys
  BY DEF PortInv, Shape
<1>8. MadeInv'
  BY <1>1, <1>5, <1>6, <1>7 DEF MadeInv, Keys
<1> QED
  BY <1>2, <1>8, AllHidden

(* and after one was taken from it; its connection has ended.              *)
LEMMA ServiceDelete ==
  ASSUME PortInv, MadeInv, ~crashed, UNCHANGED crashed,
         NEW c \in Clients, CtxtListDeleteFrom(c), client[c].sock # "none",
         \/ main'.at = main.at /\ main'.next = main.next
         \/ main'.at = main.next /\ main'.next = Null,
         main'.sdAccept = main.sdAccept
  PROVE  MadeInv' /\ Simulated
<1>1. /\ client'[c].sock = "closed" /\ client'[c].ctx = "freed"
      /\ client'[c] = FreedContext(client[c])
      /\ \A d \in Clients : d # c => Same(d)
      /\ g' = [g EXCEPT !.CtxtList = HeadWithout(c)]
  BY ListDelete DEF PortInv
<1>2. \A d \in Clients : d # c => Hidden(d)
  BY <1>1 DEF Hidden, Same, SameBytes
<1>3. ASSUME NEW d \in Clients
      PROVE  /\ client'[d].back \in {client[d].back, client[c].back, Null}
             /\ client'[d].forward \in
                  {client[d].forward, client[c].forward, Null}
  <2>. DEFINE q == [client[d] EXCEPT !.forward = client[c].forward]
              p == [client[d] EXCEPT !.back = client[c].back]
              f == FreedContext(client[c])
  <2>1. client[c] \in Connections /\ client[d] \in Connections
    BY Fields DEF PortInv
  <2>2. f.back = Null /\ f.forward = Null
    BY NewService, NewShape DEF FreedContext, Connections
  <2>3. q.back = client[d].back /\ q.forward = client[c].forward
    BY <2>1 DEF Connections
  <2>4. p.back = client[c].back /\ p.forward = client[d].forward
    BY <2>1 DEF Connections
  <2>5. client'[d] \in {f, q, p, client[d]}
    BY DEF CtxtListDeleteFrom
  <2>. HIDE DEF f, q, p
  <2> QED
    BY <2>2, <2>3, <2>4, <2>5
<1>4. g'.CtxtList \in {client[c].forward, g.CtxtList}
  BY <1>1 DEF PortInv, Shape, HeadWithout
<1>5. /\ \A d \in Clients :
           /\ client'[d].sock = "none" => /\ client[d].sock = "none"
                                          /\ client'[d].said = client[d].said
           /\ client[d].ctx # "none" => client'[d].ctx # "none"
  BY <1>1 DEF Same, SameBytes
<1>6. Made \subseteq Made'
  BY <1>5 DEF Made
<1>7. main.sdAccept \in Keys
  BY DEF PortInv, Shape
<1>8. MadeInv'
  BY <1>3, <1>4, <1>5, <1>6, <1>7 DEF MadeInv, Keys, Made
<1>9. client[c].sock \in {"open", "closed"}
  BY Fields DEF PortInv, Connections
<1> QED
  BY <1>1, <1>2, <1>8, <1>9, SimulatesClose

(* A connection gets its context,                                          *)
LEMMA ServiceUpdate ==
  ASSUME PortInv, MadeInv, ~crashed, UpdateCompletionPort, ~Crash
  PROVE  MadeInv' /\ Simulated
<1>1. CASE /\ Goto("finally") /\ UNCHANGED <<client, crashed>>
           /\ g' = g \/ g' = [g EXCEPT !.IOCP = FALSE]
  BY <1>1, ServiceQuietSteps
<1>2. CASE /\ \/ CtxtListAddTo(main.sdAccept)
              \/ NotAddedToList(main.sdAccept)
           /\ Goto("check")
           /\ UNCHANGED crashed
  <2>1. PICK c \in Clients : c = main.sdAccept /\ client[c].sock # "none"
    BY DEF UpdateCompletionPort, PortInv, KeysInv
  <2>2. /\ main'.at = main.at /\ main'.next = main.next
        /\ main'.sdAccept = main.sdAccept
    BY <1>2 DEF Goto, PortInv, Shape
  <2> QED
    BY <1>2, <2>1, <2>2, ServiceAdd, ServiceNotAdded
<1> QED
  BY <1>1, <1>2 DEF UpdateCompletionPort

(* and its first operation;                                                *)
LEMMA ServicePostRecv ==
  ASSUME PortInv, MadeInv, ~crashed, PostRecv PROVE MadeInv' /\ Simulated
<1>1. PICK c \in Clients : c = main.sdAccept /\ client[c].sock # "none"
  BY DEF PostRecv, PortInv, KeysInv
<1>2. /\ main'.at = main.at /\ main'.next = main.next
      /\ main'.sdAccept = main.sdAccept
      /\ UNCHANGED crashed /\ client[c] \in Connections
  BY Fields DEF PostRecv, Goto, PortInv, Shape
<1>3. CASE client' = [client EXCEPT ![c] = Posted(@)] /\ UNCHANGED g
  <2>. DEFINE s == Posted(client[c])
  <2>1. client' = [client EXCEPT ![c] = s]
    BY <1>3 DEF PortInv, Shape
  <2>2. /\ s.ctx = client[c].ctx /\ s.back = client[c].back
        /\ s.forward = client[c].forward /\ s.sock = client[c].sock
        /\ s.said = client[c].said /\ s.echo = client[c].echo
    BY <1>2 DEF Posted, Connections
  <2>. HIDE DEF s
  <2> QED
    BY <1>2, <1>3, <2>1, <2>2, ServiceUnseen
<1>4. CASE CtxtListDeleteFrom(c)
  BY <1>1, <1>2, <1>4, ServiceDelete
<1>5. CASE UNCHANGED <<g, client>>
  <2>1. \A d \in Clients : Beside(d) /\ Hidden(d)
    BY <1>5 DEF Beside, Hidden
  <2>2. MadeInv'
    BY <1>1, <1>2, <1>5, <2>1, MadeBeside
  <2> QED
    BY <1>2, <2>1, <2>2, AllHidden
<1> QED
  BY <1>1, <1>3, <1>4, <1>5 DEF PostRecv

(* the cleanup frees it,                                                   *)
LEMMA ServiceFreeNext ==
  ASSUME PortInv, MadeInv, ~crashed, FreeNext PROVE MadeInv' /\ Simulated
<1>1. PICK c \in Clients : c = main.at
  BY DEF FreeNext, PortInv, KeysInv
<1>2. client[c].sock # "none"
  BY <1>1, NullAssumption DEF MadeInv, Made, PortInv, KeysInv
<1>3. /\ CtxtListDeleteFrom(c) /\ UNCHANGED crashed
      /\ main'.at = main.next /\ main'.next = Null
      /\ main'.sdAccept = main.sdAccept
  BY <1>1 DEF FreeNext, PortInv, Shape
<1> QED
  BY <1>2, <1>3, ServiceDelete

(* or a worker does.                                                       *)
LEMMA ServiceCloseClient ==
  ASSUME PortInv, MadeInv, ~crashed, NEW t \in Threads, CloseClient(t)
  PROVE  MadeInv' /\ Simulated
<1>1. PICK c \in Clients : c = worker[t].key
  BY DEF CloseClient, PortInv, KeysInv
<1>2. client[c].sock # "none"
  BY <1>1 DEF PortInv, KeysInv, Idle
<1>3. CtxtListDeleteFrom(c) /\ UNCHANGED <<main, crashed>>
  BY <1>1 DEF CloseClient
<1> QED
  BY <1>2, <1>3, ServiceDelete

-----------------------------------------------------------------------------
(* A worker takes the packet of a connection,                              *)
LEMMA ServiceTakePacket ==
  ASSUME PortInv, MadeInv, ~crashed, NEW t \in Threads, NEW c \in Clients,
         TakePacket(t, c)
  PROVE  MadeInv' /\ Simulated
<1>. DEFINE s == [client[c] EXCEPT !.io = "none", !.ok = TRUE, !.size = 0]
<1>1. /\ client' = [client EXCEPT ![c] = s] /\ UNCHANGED <<g, main, crashed>>
      /\ client[c] \in Connections
  BY Fields DEF TakePacket, PortInv, Shape
<1>2. /\ s.ctx = client[c].ctx /\ s.back = client[c].back
      /\ s.forward = client[c].forward /\ s.sock = client[c].sock
      /\ s.said = client[c].said /\ s.echo = client[c].echo
  BY <1>1 DEF Connections
<1>. HIDE DEF s
<1> QED
  BY <1>1, <1>2, ServiceUnseen

(* The place of a context, its bytes and its socket are as they were,      *)
Seen(r, s) ==
    /\ s.ctx = r.ctx /\ s.back = r.back /\ s.forward = r.forward
    /\ s.sock = r.sock /\ s.said = r.said /\ s.echo = r.echo

(* when an operation is posted,                                            *)
LEMMA SeenPosted ==
  ASSUME NEW r \in Connections PROVE Seen(r, Posted(r))
BY DEF Seen, Posted, Connections

(* when a worker looks at the last one and goes on to the next,            *)
LEMMA SeenNext ==
  ASSUME NEW r \in Connections, NEW n \in Int
  PROVE  NextOperation(r, n) \in Connections /\ Seen(r, NextOperation(r, n))
<1>. DEFINE o == "write"
            w == [r EXCEPT !.nsent = @ + n]
            a == [r EXCEPT !.op = o, !.total = n, !.nsent = 0]
            b == [w EXCEPT !.op = "read"]
<1>1. r.nsent + n \in Int /\ o \in {"read", "write"}
  BY DEF Connections
<1>2. w \in Connections /\ Seen(r, w)
  BY <1>1 DEF Connections, Seen
<1>3. NextOperation(r, n) \in {a, w, b}
  BY DEF NextOperation
<1>. HIDE DEF o, w
<1>4. a \in Connections /\ Seen(r, a)
  <2>1. o \in {"read", "write"} /\ 0 \in Int
    BY <1>1
  <2> QED
    BY <2>1 DEF Connections, Seen
<1>5. b \in Connections /\ Seen(w, b)
  BY <1>2 DEF Connections, Seen
<1>. HIDE DEF a, b
<1> QED
  BY <1>2, <1>3, <1>4, <1>5 DEF Seen

(* and serves it;                                                          *)
LEMMA ServiceServe ==
  ASSUME PortInv, MadeInv, ~crashed, NEW t \in Threads, Serve(t)
  PROVE  MadeInv' /\ Simulated
<1>1. PICK c \in Clients : c = worker[t].key
  BY DEF Serve, PortInv, KeysInv
<1>. DEFINE q == NextOperation(client[c], worker[t].size)
            r == Posted(q)
<1>2. client[c] \in Connections /\ worker[t].size \in Int
  BY Fields DEF PortInv, Workmen
<1>3. Seen(client[c], q) /\ Seen(client[c], r)
  BY <1>2, SeenNext, SeenPosted DEF Seen
<1>4. /\ UNCHANGED <<g, main, crashed>>
      /\ \/ client' = [client EXCEPT ![c] = r]
         \/ client' = [client EXCEPT ![c] = q]
  BY <1>1 DEF Serve
<1>. HIDE DEF q, r
<1> QED
  BY <1>3, <1>4, ServiceUnseen DEF Seen

(* The peer of an open connection sends a byte, or leaves.                 *)
LEMMA ServicePeer ==
  ASSUME PortInv, MadeInv, ~crashed, NEW c \in Clients, Peer(c)
  PROVE  MadeInv' /\ Simulated
<1>. DEFINE s == [client[c] EXCEPT !.said = @ + 1]
            p(x) == [client[c] EXCEPT !.peer = x]
<1>1. /\ client[c] \in Connections /\ client[c].sock = "open"
      /\ UNCHANGED <<g, main, crashed>>
      /\ \/ client' = [client EXCEPT ![c] = s]
         \/ \E x \in {"closed", "reset"} : client' = [client EXCEPT ![c] = p(x)]
  BY Fields DEF PortInv, Peer, Shape
<1>2. /\ s.ctx = client[c].ctx /\ s.back = client[c].back
      /\ s.forward = client[c].forward /\ s.sock = client[c].sock
      /\ s.said = client[c].said + 1 /\ s.echo = client[c].echo
  BY <1>1 DEF Connections
<1>3. \A x : Seen(client[c], p(x))
  BY <1>1 DEF Connections, Seen
<1>. HIDE DEF s, p
<1>4. CASE client' = [client EXCEPT ![c] = s]
  <2>1. MadeInv' /\ client'[c] = s /\ \A d \in Clients : d # c => Hidden(d)
    BY <1>1, <1>2, <1>4, ServiceAt DEF Moved
  <2>2. Service!Say(c)
    <3>1. State[c] = "open" /\ State' = [State EXCEPT ![c] = "open"]
      BY <1>1, <1>2, <2>1, OneSeen
    <3>2. /\ Said' = [Said EXCEPT ![c] = client[c].said + 1]
          /\ Said[c] = client[c].said
          /\ Returned' = [Returned EXCEPT ![c] = client[c].echo]
          /\ Returned[c] = client[c].echo
      <4>1. /\ client'[c].sock = "open"
            /\ client'[c].said = client[c].said + 1
            /\ client'[c].echo = client[c].echo
        BY <1>1, <1>2, <2>1
      <4>2. Said[c] = client[c].said /\ Returned[c] = client[c].echo
        BY <1>1 DEF Open, Said, Returned
      <4>3. Open(c)'
        BY <4>1 DEF Open
      <4> QED
        BY <1>1, <2>1, <4>1, <4>2, <4>3, OneSeen
    <3>3. UNCHANGED <<State, Returned>>
      BY <3>1, <3>2 DEF State, Returned
    <3>4. Said' = [Said EXCEPT ![c] = @ + 1]
      BY <3>2
    <3> QED
      BY <3>1, <3>3, <3>4 DEF Service!Say
  <2> QED
    BY <2>1, <2>2 DEF Simulated, Service!Next
<1>5. CASE \E x \in {"closed", "reset"} : client' = [client EXCEPT ![c] = p(x)]
  BY <1>1, <1>3, <1>5, ServiceUnseen, ZenonT(60) DEF Seen
<1> QED
  BY <1>1, <1>4, <1>5

-----------------------------------------------------------------------------
(* and when an operation ends.                                             *)
LEMMA SeenResult ==
  ASSUME NEW r \in Connections, NEW n \in Int
  PROVE  Completed(r, n) \in Connections /\ Seen(r, Completed(r, n))
<1>. DEFINE x == "done"
            b == TRUE
            s == [r EXCEPT !.io = x, !.ok = b, !.size = n]
<1>1. x \in {"none", "pending", "done"} /\ b \in BOOLEAN
  OBVIOUS
<1>. HIDE DEF x, b
<1>2. s \in Connections /\ Seen(r, s)
  BY <1>1 DEF Connections, Seen
<1>3. Completed(r, n) = s
  BY DEF Completed, x, b
<1> QED
  BY <1>2, <1>3

(* The system reads bytes,                                                 *)
LEMMA ServiceRead ==
  ASSUME PortInv, MadeInv, ~crashed, NEW c \in Clients,
         CompleteRead(c), UNCHANGED <<g, main, crashed>>
  PROVE  MadeInv' /\ Simulated
<1>0. client[c] \in Connections /\ MAX_BUFF_SIZE \in Nat
  BY Fields, ConstantsAssumption DEF PortInv
<1>. DEFINE d(n) == Completed(client[c], n)
            r(n) == [d(n) EXCEPT !.got = @ + n]
<1>1. \/ \E n \in Int : client' = [client EXCEPT ![c] = r(n)]
      \/ client' = [client EXCEPT ![c] = d(0)]
  BY <1>0 DEF CompleteRead
<1>2. \A n \in Int : d(n) \in Connections /\ Seen(client[c], d(n))
  BY <1>0, SeenResult
<1>. HIDE DEF d
<1>3. ASSUME NEW n \in Int PROVE Seen(client[c], r(n))
  <2>1. d(n) \in Connections /\ Seen(client[c], d(n))
    BY <1>2
  <2>2. Seen(d(n), r(n))
    BY <2>1 DEF Connections, Seen
  <2> QED
    BY <2>1, <2>2 DEF Seen
<1>. HIDE DEF r
<1> QED
  BY <1>1, <1>2, <1>3, ServiceUnseen DEF Seen

(* it sends bytes, the next ones of those that the peer has sent,          *)
LEMMA ServiceWrite ==
  ASSUME PortInv, EchoInv, EchoInv', MadeInv, ~crashed, NEW c \in Clients,
         CompleteWrite(c), UNCHANGED <<g, main, crashed>>
  PROVE  MadeInv' /\ Simulated
<1>0. /\ client[c] \in Connections /\ client[c].sock = "open"
      /\ client[c].total \in Int /\ client[c].nsent \in Int
      /\ ContextOK(client[c]) /\ ContextOK(client'[c])
  BY Fields DEF PortInv, CompleteWrite, Alive, Connections, EchoInv, EchoAt
<1>. DEFINE k == SendFrom(client[c])
            e(n) == client[c].echo \o [i \in 1 .. n |-> k + i]
            d(n) == Completed(client[c], n)
            r(n) == [d(n) EXCEPT !.echo = e(n)]
<1>1. \A n \in Int : d(n) \in Connections /\ Seen(client[c], d(n))
  BY <1>0, SeenResult
<1>2. PICK n \in 1 .. client[c].total - client[c].nsent :
        client' = [client EXCEPT ![c] = r(n)]
  <2>1. PICK n \in 1 .. client[c].total - client[c].nsent :
          client' = [client EXCEPT ![c] =
            [d(n) EXCEPT !.echo = @ \o [i \in 1 .. n |-> k + i]]]
    BY DEF CompleteWrite
  <2>2. n \in Int
    BY <1>0
  <2>3. d(n).echo = client[c].echo
    BY <1>1, <2>2 DEF Seen
  <2> QED
    BY <2>1, <2>3
<1>3. n \in Nat /\ n > 0
  BY <1>0
<1>4. k \in Int /\ client[c].echo \in Seq(Int)
  BY <1>0 DEF SendFrom, Connections
<1>5. Len(e(n)) = Len(client[c].echo) + n /\ Len(client[c].echo) \in Nat
  <2>. DEFINE x == [i \in 1 .. n |-> k + i]
  <2>1. \A i \in 1 .. n : k + i \in Int
    BY <1>4
  <2>2. x \in Seq(Int) /\ Len(x) = n
    BY <1>3, <2>1
  <2>. HIDE DEF x
  <2>3. Len(client[c].echo \o x) = Len(client[c].echo) + n
    BY <1>4, <2>2
  <2> QED
    BY <1>4, <2>3 DEF x
<1>. HIDE DEF d, e, k
<1>6. /\ r(n).ctx = client[c].ctx /\ r(n).back = client[c].back
      /\ r(n).forward = client[c].forward /\ r(n).sock = "open"
      /\ r(n).said = client[c].said /\ r(n).echo = e(n)
  <2>1. d(n) \in Connections /\ Seen(client[c], d(n))
    BY <1>1, <1>3
  <2> QED
    BY <1>0, <2>1 DEF Connections, Seen
<1>. HIDE DEF r
<1>7. /\ MadeInv' /\ client'[c] = r(n)
      /\ \A b \in Clients : b # c => Hidden(b)
  BY <1>0, <1>2, <1>6, ServiceAt DEF Moved
<1>8. Service!Return(c)
  <2>. DEFINE m == Len(e(n))
  <2>1. /\ m \in Len(client[c].echo) + 1 .. client[c].said
        /\ e(n) = [i \in 1 .. m |-> i]
    <3>1. m <= client[c].said /\ Faithful(e(n)) /\ client[c].said \in Nat
      <4>1. /\ Len(client'[c].echo) <= client'[c].got
            /\ client'[c].got <= client'[c].said
            /\ client'[c].got \in Nat /\ client'[c].said \in Nat
            /\ client'[c].echo \in Seq(Nat)
        BY <1>0 DEF ContextOK
      <4>2. Len(client'[c].echo) <= client'[c].said
        BY <4>1
      <4> QED
        BY <1>0, <1>6, <1>7, <4>1, <4>2 DEF ContextOK
    <3> QED
      BY <1>3, <1>5, <3>1 DEF Faithful
  <2>2. State[c] = "open" /\ State' = [State EXCEPT ![c] = "open"]
    BY <1>0, <1>6, <1>7, OneSeen
  <2>3. Said[c] = client[c].said /\ Returned[c] = client[c].echo
    BY <1>0 DEF Open, Said, Returned
  <2>4. /\ Said' = [Said EXCEPT ![c] = client[c].said]
        /\ Returned' = [Returned EXCEPT ![c] = e(n)]
    <3>1. Open(c)'
      BY <1>6, <1>7 DEF Open
    <3> QED
      BY <1>6, <1>7, <3>1, OneSeen
  <2>5. UNCHANGED <<State, Said>>
    BY <2>2, <2>3, <2>4 DEF State, Said
  <2>. HIDE DEF m
  <2>6. \E j \in Len(Returned[c]) + 1 .. Said[c] :
          Returned' = [Returned EXCEPT ![c] = [i \in 1 .. j |-> i]]
    BY <2>1, <2>3, <2>4
  <2> QED
    BY <2>2, <2>5, <2>6 DEF Service!Return
<1> QED
  BY <1>7, <1>8 DEF Simulated, Service!Next

(* or it reports that the connection is gone.                              *)
LEMMA ServiceComplete ==
  ASSUME PortInv, EchoInv, EchoInv', MadeInv, ~crashed, NEW c \in Clients,
         Complete(c)
  PROVE  MadeInv' /\ Simulated
<1>1. CASE CompleteAborted(c)
  <2>. DEFINE s == [client[c] EXCEPT !.io = "done", !.ok = FALSE, !.size = 0]
  <2>1. /\ client' = [client EXCEPT ![c] = s]
        /\ UNCHANGED <<g, main, crashed>> /\ client[c] \in Connections
    BY <1>1, Fields DEF Complete, CompleteAborted, PortInv, Shape
  <2>2. Seen(client[c], s)
    BY <2>1 DEF Seen, Connections
  <2>. HIDE DEF s
  <2> QED
    BY <2>1, <2>2, ServiceUnseen DEF Seen
<1> QED
  BY <1>1, ServiceRead, ServiceWrite DEF Complete

-----------------------------------------------------------------------------
(* After a crash nothing is left.                                          *)
LEMMA MadeCrash ==
  ASSUME PortInv, Crash PROVE MadeInv'
<1>1. /\ main'.at = Null /\ main'.next = Null /\ main'.sdAccept = Null
      /\ crashed'
      /\ \A c \in Clients : client'[c] = NewClient
  BY DEF Crash, PortInv, Shape
<1> QED
  BY <1>1, NewService DEF MadeInv, Made

(* Every step of the server is one of the service, or is not seen.         *)
LEMMA ServiceStep ==
  ASSUME PortInv, EchoInv, EchoInv', MadeInv, [Next]_vars
  PROVE  MadeInv' /\ Simulated
<1>1. CASE Crash
  BY <1>1, MadeCrash, SimulatesFail
<1>2. CASE UNCHANGED vars
  <2>1. \A d \in Clients : Hidden(d)
    BY <1>2 DEF vars, Hidden
  <2> QED
    BY <1>2, <2>1, AllHidden DEF vars, MadeInv, Made
<1>3. CASE Next /\ ~Crash
  <2>0. ~crashed
    BY <1>3 DEF Next, Running
  <2>1. CASE MainThread
    <3>1. CASE \/ Restart \/ ResetEndServer \/ CreatePort \/ CreateThreads
               \/ CreateSocket \/ Bind \/ CheckEndServer \/ BeginCleanup
               \/ WaitForWorkers \/ EnterListFree \/ LeaveListFree
      <4>1. UNCHANGED <<client, crashed>>
        BY <3>1 DEF Restart, ResetEndServer, CreatePort, CreateThreads,
             CreateSocket, Bind, CheckEndServer, BeginCleanup,
             WaitForWorkers, EnterListFree, LeaveListFree
      <4> QED
        BY <2>0, <3>1, <4>1, ServiceQuietSteps
    <3>2. CASE UpdateCompletionPort \/ PostRecv
      BY <1>3, <2>0, <3>2, ServiceUpdate, ServicePostRecv
    <3>3. CASE CloseNext \/ FreeNext \/ EndRun
      BY <2>0, <3>3, ServiceCloseNext, ServiceFreeNext, ServiceEndRun
    <3> QED
      BY <1>3, <2>1, <3>1, <3>2, <3>3 DEF MainThread, MainUsesFreed
  <2>2. CASE AcceptFails \/ ConsoleEvent \/ CtrlHandler
    <3>1. UNCHANGED <<client, crashed>>
      BY <2>2 DEF AcceptFails, ConsoleEvent, CtrlHandler, TakeListen,
           CloseListen, ClearListen, SetEndServer
    <3> QED
      BY <2>0, <2>2, <3>1, ServiceQuietSteps
  <2>3. ASSUME NEW t \in Threads, WorkerThread(t)
        PROVE  MadeInv' /\ Simulated
    <3>1. CASE \/ TakeNull(t) \/ Abandoned(t) \/ TestEndServer(t) \/ Log(t)
               \/ CloseRaises(t)
      <4>1. UNCHANGED <<client, crashed>>
        BY <3>1 DEF TakeNull, Abandoned, TestEndServer, Log, CloseRaises
      <4> QED
        BY <2>0, <3>1, <4>1, ServiceQuietSteps
    <3>2. CASE \/ (\E c \in Clients : TakePacket(t, c))
               \/ Serve(t) \/ CloseClient(t)
      BY <2>0, <3>2, ServiceTakePacket, ServiceServe, ServiceCloseClient
    <3> QED
      BY <1>3, <2>3, <3>1, <3>2 DEF WorkerThread, WorkerUsesFreed
  <2>4. ASSUME NEW c \in Clients, Accept(c) \/ Complete(c) \/ Peer(c)
        PROVE  MadeInv' /\ Simulated
    BY <2>0, <2>4, ServiceAccept, ServiceComplete, ServicePeer
  <2> QED
    BY <1>3, <2>1, <2>2, <2>3, <2>4 DEF Next
<1> QED
  BY <1>1, <1>2, <1>3

(* At the start nothing was made, and nothing returned.                    *)
LEMMA ServiceInit == Init => MadeInv /\ Service!Init
<1>. SUFFICES ASSUME Init PROVE MadeInv /\ Service!Init
  OBVIOUS
<1>1. /\ \A c \in Clients : client[c] = NewClient
      /\ main.at = Null /\ main.next = Null /\ main.sdAccept = Null
      /\ g.CtxtList = Null /\ ~crashed
  BY DEF Init
<1>2. MadeInv
  BY <1>1, NewService DEF MadeInv, Made
<1>3. Service!Init
  BY <1>1, NewService DEF State, Said, Returned, Open, Service!Init
<1> QED
  BY <1>2, <1>3

(* Whatever parts a message comes in and goes out in, whichever workers    *)
(* serve it, whoever leaves, however often the server is started again,    *)
(* and even when a cleanup does not wait: the server is an echo service.   *)
THEOREM ServerImplementsEcho == Spec => ImplementsEcho
BY ServiceInit, ServiceStep, PortInvAlways, EchoInvAlways, PTL
   DEF Spec, ImplementsEcho, Service!Spec, Simulated
=============================================================================
