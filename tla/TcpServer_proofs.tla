--------------------------- MODULE TcpServer_proofs ---------------------------
(***************************************************************************)
(* Theorems about TcpServer, for any clients, either build and any number  *)
(* of messages: the state keeps its types, and the server implements       *)
(* Sessions, from which it follows that the handlers of a client are       *)
(* called in order.                                                        *)
(*                                                                         *)
(* NodeInv says which points of a departure go with which state of the     *)
(* node, and that a handler of a message runs only while the node has its  *)
(* client.  StreamInv says that no more is read than was sent.  CountInv   *)
(* is the account of it: the messages handled as whole and those that wait *)
(* are no more than what was read makes up, however many times a recv took *)
(* a part of a size or of data and the stream got out of step.             *)
(***************************************************************************)
EXTENDS TcpServer, Integers, TLAPS

(* The states of a node, the points of its departure and the handlers      *)
(* called last that belong together.                                       *)
Stages ==
    {<<"none", "no", "new">>, <<"made", "no", "connected">>,
     <<"client", "no", "connected">>, <<"client", "started", "connected">>,
     <<"null", "released", "connected">>, <<"null", "handled", "departed">>,
     <<"erased", "freed", "departed">>}

NodeInv ==
    \A c \in Clients :
        /\ <<client[c].node, client[c].leaving, client[c].stage>> \in Stages
        /\ client[c].access # Nobody => client[c].node = "client"

(* A client that is being added is not in the list yet, the two who add    *)
(* clients never add the same, the poll is at a client while it visits,    *)
(* and a server that may be started has no poll.                           *)
ThreadInv ==
    /\ pc.owner = "add" => /\ adding["owner"] \in Outgoing
                           /\ client[adding["owner"]].node = "made"
    /\ pc.acceptor = "add" => /\ adding["acceptor"] \in Clients \ Outgoing
                              /\ client[adding["acceptor"]].node = "made"
    /\ pc.poll \in {"visit", "recv", "recvLost"} => walk.at \in Clients
    /\ pc.owner \in {"idle", "add"} /\ status # "up" => pc.poll = "off"

(* Is the poll between the size of a message and its data?                 *)
Turn(c) == IF pc.poll = "recv" /\ walk.at = c THEN 1 ELSE 0

StreamInv == \A c \in Clients : client[c].read <= client[c].sent

ServerInv == TypeOK /\ ThreadInv /\ NodeInv /\ StreamInv

-----------------------------------------------------------------------------
(* One thread of a message more, or one less, is a count of threads.       *)
LEMMA Waiting ==
  ASSUME NEW w \in [Messages -> Nat], NEW m \in Messages
  PROVE  /\ [w EXCEPT ![m] = @ + 1] \in [Messages -> Nat]
         /\ w[m] > 0 => [w EXCEPT ![m] = @ - 1] \in [Messages -> Nat]
OBVIOUS

(* A connection that was not made has its type.                            *)
LEMMA NewClientType == NewClient \in ClientType
BY DEF NewClient, ClientType

-----------------------------------------------------------------------------
(* A step that changes one connection, and of the threads at most where    *)
(* the poll goes from that connection.                                     *)
LEMMA OneClient ==
  ASSUME ServerInv, NEW c \in Clients, NEW r \in ClientType,
         client' = [client EXCEPT ![c] = r],
         UNCHANGED <<build, status, adding, mutex, walk, crashed>>,
         \/ UNCHANGED pc
         \/ /\ walk.at = c
            /\ pc.poll \in {"visit", "recv", "recvLost"}
            /\ \E p \in {"walk", "recv", "recvLost"} :
                  pc' = [pc EXCEPT !.poll = p],
         <<r.node, r.leaving, r.stage>> \in Stages,
         r.access # Nobody => r.node = "client",
         client[c].node = "made" => r.node = "made",
         r.read <= r.sent
  PROVE  ServerInv'
<1>. USE DEF ServerInv
<1>1. /\ client' \in [Clients -> ClientType]
      /\ client'[c] = r
      /\ \A d \in Clients : d # c => client'[d] = client[d]
  BY DEF TypeOK
<1>2. pc'.owner = pc.owner /\ pc'.acceptor = pc.acceptor
  BY DEF TypeOK
<1>3. TypeOK' /\ (pc'.poll = "off" <=> pc.poll = "off")
  <2>1. CASE UNCHANGED pc
    BY <1>1, <2>1 DEF TypeOK
  <2>2. CASE ~UNCHANGED pc
    <3>1. /\ pc.poll \in {"visit", "recv", "recvLost"}
          /\ pc'.poll \in {"walk", "recv", "recvLost"}
          /\ pc' \in
               [owner : {"idle", "add", "joinAcceptor", "joinPoll", "off"},
                acceptor : {"off", "loop", "accept", "add", "ended"},
                poll : {"off", "sleep", "walk", "visit", "recv", "recvLost"}]
      BY <2>2 DEF TypeOK
    <3> QED
      BY <1>1, <3>1 DEF TypeOK
  <2> QED
    BY <2>1, <2>2
<1>4. ThreadInv'
  BY <1>1, <1>2, <1>3, ConstantsAssumption DEF ThreadInv
<1>5. NodeInv'
  BY <1>1 DEF NodeInv
<1>6. StreamInv'
  BY <1>1 DEF StreamInv
<1> QED
  BY <1>3, <1>4, <1>5, <1>6

(* A program that has crashed has no threads and no connections.           *)
LEMMA CrashInv == ServerInv /\ Crash => ServerInv'
<1> SUFFICES ASSUME ServerInv, Crash PROVE ServerInv'
  OBVIOUS
<1>1. TypeOK'
  BY NewClientType DEF ServerInv, TypeOK, Crash, NewWalk
<1>2. ThreadInv'
  BY DEF ThreadInv, Crash
<1>3. NodeInv'
  BY DEF NodeInv, Crash, NewClient, Stages
<1>5. StreamInv'
  BY DEF StreamInv, Crash, NewClient
<1> QED
  BY <1>1, <1>2, <1>3, <1>5 DEF ServerInv

(* Before the start there are none either.                                 *)
LEMMA InitInv == Init => ServerInv
<1> SUFFICES ASSUME Init PROVE ServerInv
  OBVIOUS
<1>1. TypeOK
  BY NewClientType DEF Init, TypeOK, NewWalk
<1>2. ThreadInv
  BY DEF ThreadInv, Init
<1>3. NodeInv
  BY DEF NodeInv, Init, NewClient, Stages
<1>5. StreamInv
  <2> SUFFICES ASSUME NEW c \in Clients PROVE client[c].read <= client[c].sent
    BY DEF StreamInv
  <2>1. client[c].read = 0 /\ client[c].sent = 0
    BY DEF Init, NewClient
  <2> QED
    BY <2>1
<1> QED
  BY <1>1, <1>2, <1>3, <1>5 DEF ServerInv

(* The steps that leave the connections alone.                             *)
LEMMA ThreadStep ==
  ASSUME ServerInv, ~Crash,
         \/ Start \/ Stop \/ AcceptorJoined \/ AcceptLoop
         \/ BeginPass \/ Look \/ EndPass \/ UNCHANGED vars
  PROVE  ServerInv'
<1>. USE DEF ServerInv
<1>1. CASE Start
  <2>1. TypeOK'
    BY <1>1 DEF TypeOK, ThreadInv, Start
  <2>2. ThreadInv'
    BY <1>1 DEF TypeOK, ThreadInv, Start
  <2>3. NodeInv' /\ StreamInv'
    BY <1>1 DEF TypeOK, ThreadInv, NodeInv, StreamInv, Start
  <2> QED
    BY <2>1, <2>2, <2>3
<1>2. CASE Stop
  <2>1. TypeOK'
    BY <1>2 DEF TypeOK, ThreadInv, Stop
  <2>2. ThreadInv'
    BY <1>2 DEF TypeOK, ThreadInv, Stop
  <2>3. NodeInv' /\ StreamInv'
    BY <1>2 DEF TypeOK, NodeInv, StreamInv, Stop
  <2> QED
    BY <2>1, <2>2, <2>3
<1>3. CASE AcceptorJoined
  <2>1. TypeOK'
    BY <1>3 DEF TypeOK, ThreadInv, AcceptorJoined
  <2>2. ThreadInv'
    BY <1>3 DEF TypeOK, ThreadInv, AcceptorJoined
  <2>3. NodeInv' /\ StreamInv'
    BY <1>3 DEF TypeOK, NodeInv, StreamInv, AcceptorJoined
  <2> QED
    BY <2>1, <2>2, <2>3
<1>4. CASE AcceptLoop
  <2>1. TypeOK'
    BY <1>4 DEF TypeOK, ThreadInv, AcceptLoop, Closed
  <2>2. ThreadInv'
    BY <1>4 DEF TypeOK, ThreadInv, AcceptLoop, Closed
  <2>3. NodeInv' /\ StreamInv'
    BY <1>4 DEF TypeOK, NodeInv, StreamInv, AcceptLoop, Closed
  <2> QED
    BY <2>1, <2>2, <2>3
<1>5. CASE BeginPass
  <2>1. TypeOK'
    BY <1>5 DEF TypeOK, ThreadInv, BeginPass
  <2>2. ThreadInv'
    BY <1>5 DEF TypeOK, ThreadInv, BeginPass
  <2>3. NodeInv' /\ StreamInv'
    BY <1>5 DEF TypeOK, NodeInv, StreamInv, BeginPass
  <2> QED
    BY <2>1, <2>2, <2>3
<1>6. CASE Look
  <2>1. TypeOK'
    BY <1>6 DEF TypeOK, ThreadInv, Look, Ahead
  <2>2. ThreadInv'
    BY <1>6 DEF TypeOK, ThreadInv, Look, Ahead
  <2>3. NodeInv' /\ StreamInv'
    BY <1>6 DEF TypeOK, NodeInv, StreamInv, Look, Ahead
  <2> QED
    BY <2>1, <2>2, <2>3
<1>7. CASE EndPass
  <2>1. TypeOK'
    BY <1>7 DEF TypeOK, ThreadInv, EndPass, Unlock, NewWalk
  <2>2. ThreadInv'
    BY <1>7 DEF TypeOK, ThreadInv, EndPass, Unlock, NewWalk
  <2>3. NodeInv' /\ StreamInv'
    BY <1>7 DEF TypeOK, NodeInv, StreamInv, EndPass, Unlock, NewWalk
  <2> QED
    BY <2>1, <2>2, <2>3
<1>8. CASE UNCHANGED vars
  <2>1. TypeOK'
    BY <1>8 DEF TypeOK, ThreadInv, vars
  <2>2. ThreadInv'
    BY <1>8 DEF TypeOK, ThreadInv, vars
  <2>3. NodeInv' /\ StreamInv'
    BY <1>8 DEF TypeOK, NodeInv, StreamInv, vars
  <2> QED
    BY <2>1, <2>2, <2>3
<1> QED
  BY <1>1, <1>2, <1>3, <1>4, <1>5, <1>6, <1>7, <1>8

(* The steps of a detached thread, of the owner and of the peer at one     *)
(* connection.                                                             *)
LEMMA DetachedStep ==
  ASSUME ServerInv, ~Crash, NEW c \in Clients,
         DisconnectBy(c) \/ Detached(c) \/ Send(c) \/ Leave(c)
  PROVE  ServerInv'
<1>. USE DEF ServerInv
<1>0. /\ client[c] \in ClientType
      /\ client[c].read <= client[c].sent
  BY DEF TypeOK, StreamInv
<1>1. CASE DisconnectBy(c)
  <2>. DEFINE r == Disconnected(client[c])
  <2>1. /\ client' = [client EXCEPT ![c] = r]
        /\ UNCHANGED <<build, status, pc, adding, mutex, walk, crashed>>
    BY <1>1 DEF TypeOK, DisconnectBy, Disconnected
  <2>3. r \in ClientType
    BY <1>0 DEF ClientType, Disconnected
  <2>4. /\ <<r.node, r.leaving, r.stage>> \in Stages
        /\ r.access # Nobody => r.node = "client"
        /\ client[c].node = "made" => r.node = "made"
    BY <1>0, <1>1 DEF NodeInv, Stages, ClientType, DisconnectBy, Disconnected
  <2>5. r.read <= r.sent
    BY <1>0 DEF ClientType, Disconnected
  <2> QED
    BY <1>0, <2>1, <2>3, <2>4, <2>5, OneClient
<1>2. CASE DataHandled(c)
  <2>. DEFINE r == [client[c] EXCEPT !.access = Nobody]
  <2>1. /\ client' = [client EXCEPT ![c] = r]
        /\ UNCHANGED <<build, status, pc, adding, mutex, walk, crashed>>
    BY <1>2 DEF TypeOK, DataHandled
  <2>2. r \in ClientType
    BY <1>0 DEF ClientType
  <2>3. /\ <<r.node, r.leaving, r.stage>> \in Stages
        /\ r.access # Nobody => r.node = "client"
        /\ client[c].node = "made" => r.node = "made"
    BY <1>0, <1>2 DEF NodeInv, Stages, ClientType, DataHandled
  <2>4. r.read <= r.sent
    BY <1>0 DEF ClientType
  <2> QED
    BY <1>0, <2>1, <2>2, <2>3, <2>4, OneClient
<1>3. CASE Release(c)
  <2>. DEFINE r == [client[c] EXCEPT !.node = "null", !.leaving = "released"]
  <2>1. /\ client' = [client EXCEPT ![c] = r]
        /\ UNCHANGED <<build, status, pc, adding, mutex, walk, crashed>>
    BY <1>3 DEF TypeOK, Release, AccessFree
  <2>2. r \in ClientType
    BY <1>0 DEF ClientType, AccessFree
  <2>3. /\ <<r.node, r.leaving, r.stage>> \in Stages
        /\ r.access # Nobody => r.node = "client"
        /\ client[c].node = "made" => r.node = "made"
    BY <1>0, <1>3 DEF NodeInv, Stages, ClientType, Release, AccessFree
  <2>4. r.read <= r.sent
    BY <1>0 DEF ClientType
  <2> QED
    BY <1>0, <2>1, <2>2, <2>3, <2>4, OneClient
<1>4. CASE DisconnectHndl(c)
  <2>. DEFINE r == [client[c] EXCEPT !.leaving = "handled",
                                  !.stage = "departed"]
  <2>1. /\ client' = [client EXCEPT ![c] = r]
        /\ UNCHANGED <<build, status, pc, adding, mutex, walk, crashed>>
    BY <1>4 DEF TypeOK, DisconnectHndl
  <2>2. r \in ClientType
    BY <1>0 DEF ClientType
  <2>3. /\ <<r.node, r.leaving, r.stage>> \in Stages
        /\ r.access # Nobody => r.node = "client"
        /\ client[c].node = "made" => r.node = "made"
    BY <1>0, <1>4 DEF NodeInv, Stages, ClientType, DisconnectHndl
  <2>4. r.read <= r.sent
    BY <1>0 DEF ClientType
  <2> QED
    BY <1>0, <2>1, <2>2, <2>3, <2>4, OneClient
<1>5. CASE Erase(c)
  <2>. DEFINE r == [client[c] EXCEPT !.node = "erased", !.leaving = "freed"]
  <2>1. /\ client' = [client EXCEPT ![c] = r]
        /\ UNCHANGED <<build, status, pc, adding, mutex, walk, crashed>>
    BY <1>5 DEF TypeOK, Erase
  <2>2. r \in ClientType
    BY <1>0 DEF ClientType
  <2>3. /\ <<r.node, r.leaving, r.stage>> \in Stages
        /\ r.access # Nobody => r.node = "client"
        /\ client[c].node = "made" => r.node = "made"
    BY <1>0, <1>5 DEF NodeInv, Stages, ClientType, Erase
  <2>4. r.read <= r.sent
    BY <1>0 DEF ClientType
  <2> QED
    BY <1>0, <2>1, <2>2, <2>3, <2>4, OneClient
<1>6. CASE Leave(c)
  <2>. DEFINE r == [client[c] EXCEPT !.gone = TRUE]
  <2>1. /\ client' = [client EXCEPT ![c] = r]
        /\ UNCHANGED <<build, status, pc, adding, mutex, walk, crashed>>
    BY <1>6 DEF TypeOK, Leave
  <2>2. r \in ClientType
    BY <1>0 DEF ClientType
  <2>3. /\ <<r.node, r.leaving, r.stage>> \in Stages
        /\ r.access # Nobody => r.node = "client"
        /\ client[c].node = "made" => r.node = "made"
    BY <1>0, <1>6 DEF NodeInv, Stages, ClientType, Leave
  <2>4. r.read <= r.sent
    BY <1>0 DEF ClientType
  <2> QED
    BY <1>0, <2>1, <2>2, <2>3, <2>4, OneClient
<1>7. ASSUME NEW m \in Messages, DataLock(c, m) PROVE ServerInv'
  <2>. DEFINE w == [client[c].waiting EXCEPT ![m] = @ - 1]
              h == IF m = "whole" THEN client[c].handled + 1
                                 ELSE client[c].handled
              r == [client[c] EXCEPT !.access = m, !.waiting = w, !.handled = h]
  <2>1. /\ client' = [client EXCEPT ![c] = r]
        /\ UNCHANGED <<build, status, pc, adding, mutex, walk, crashed>>
    BY <1>0, <1>7 DEF TypeOK, ClientType, DataLock
  <2>2. /\ w \in [Messages -> Nat] /\ h \in Nat
    <3>1. /\ client[c].waiting \in [Messages -> Nat]
          /\ client[c].handled \in Nat /\ client[c].waiting[m] > 0
      BY <1>0, <1>7 DEF ClientType, DataLock
    <3>2. w \in [Messages -> Nat]
      BY <3>1, Waiting
    <3>3. h \in Nat
      BY <3>1
    <3> QED
      BY <3>2, <3>3
  <2>. HIDE DEF w, h
  <2>3. r \in ClientType
    BY <1>0, <2>2 DEF ClientType
  <2>4. /\ <<r.node, r.leaving, r.stage>> \in Stages
        /\ r.node = "client" /\ client[c].node = "client"
    BY <1>0, <1>7 DEF NodeInv, Stages, ClientType, DataLock
  <2>6. r.read <= r.sent
    BY <1>0 DEF ClientType
  <2> QED
    BY <1>0, <2>1, <2>3, <2>4, <2>6, OneClient
<1>8. CASE Send(c)
  <2>. DEFINE r == [client[c] EXCEPT !.sent = @ + 1]
  <2>1. /\ client' = [client EXCEPT ![c] = r]
        /\ UNCHANGED <<build, status, pc, adding, mutex, walk, crashed>>
    BY <1>8 DEF TypeOK, Send
  <2>2. r \in ClientType /\ r.read <= r.sent
    BY <1>0 DEF ClientType
  <2>3. /\ <<r.node, r.leaving, r.stage>> \in Stages
        /\ r.access # Nobody => r.node = "client"
        /\ client[c].node = "made" => r.node = "made"
    BY <1>0, <1>8 DEF NodeInv, Stages, ClientType, Send
  <2> QED
    BY <1>0, <2>1, <2>2, <2>3, OneClient
<1> QED
  BY <1>1, <1>2, <1>3, <1>4, <1>5, <1>6, <1>7, <1>8 DEF Detached, LeaveAgain

(* The steps of the poll at the connection it visits.                      *)
LEMMA VisitStep ==
  ASSUME ServerInv, ~Crash, Load \/ Recv
  PROVE  ServerInv'
<1>. DEFINE c == walk.at
<1>. USE DEF ServerInv
<1>0. /\ c \in Clients /\ client[c] \in ClientType
      /\ client[c].read <= client[c].sent
      /\ pc.poll \in {"visit", "recv", "recvLost"}
  BY DEF TypeOK, ThreadInv, StreamInv, Load, Recv
<1>1. /\ client[c].read \in Nat /\ client[c].sent \in Nat
      /\ client[c].waiting \in [Messages -> Nat]
  BY <1>0 DEF ClientType
<1>. HIDE DEF c
<1>4. CASE Load /\ ReadSize(c)
  <2>. DEFINE d == client[c].read + Taken(client[c], Half)
              r == [client[c] EXCEPT !.read = d]
  <2>1. /\ client' = [client EXCEPT ![c] = r]
        /\ UNCHANGED <<build, status, adding, mutex, walk, crashed>>
        /\ client[c].node = "client"
        /\ pc.poll = "visit"
    BY <1>4 DEF TypeOK, Load, ReadSize, c
  <2>2. \E p \in {"walk", "recv", "recvLost"} : pc' = [pc EXCEPT !.poll = p]
    BY <1>4 DEF ReadSize
  <2>3. d \in Nat /\ d <= client[c].sent
    BY <1>0, <1>1 DEF Taken, Unread, Half
  <2>. HIDE DEF d
  <2>4. r \in ClientType /\ r.read <= r.sent
    BY <1>0, <2>3 DEF ClientType
  <2>5. <<r.node, r.leaving, r.stage>> \in Stages /\ r.node = "client"
    BY <1>0, <2>1 DEF NodeInv, Stages, ClientType
  <2> QED
    BY <1>0, <2>1, <2>2, <2>4, <2>5, OneClient DEF c
<1>5. CASE Load /\ NothingToRead(c)
  <2>. DEFINE r == client[c]
  <2>1. /\ client' = [client EXCEPT ![c] = r]
        /\ UNCHANGED <<build, status, adding, mutex, walk, crashed>>
        /\ pc' = [pc EXCEPT !.poll = "walk"] /\ pc.poll = "visit"
    BY <1>5 DEF TypeOK, Load, NothingToRead, c
  <2>2. /\ <<r.node, r.leaving, r.stage>> \in Stages
        /\ r.access # Nobody => r.node = "client"
    BY <1>0 DEF NodeInv
  <2> QED
    BY <1>0, <2>1, <2>2, OneClient DEF c
<1>6. CASE Load /\ Depart(c)
  <2>. DEFINE r == StartDeparture(Disconnected(client[c]))
  <2>1. /\ client' = [client EXCEPT ![c] = r]
        /\ UNCHANGED <<build, status, adding, mutex, walk, crashed>>
        /\ pc' = [pc EXCEPT !.poll = "walk"]
        /\ client[c].node = "client" /\ client[c].gone
    BY <1>6 DEF TypeOK, Load, Depart, c
  <2>2. Disconnected(client[c]) \in ClientType
    BY <1>0, <1>1 DEF ClientType, Disconnected
  <2>3. r \in ClientType
    BY <2>2 DEF ClientType, StartDeparture
  <2>4. /\ <<r.node, r.leaving, r.stage>> \in Stages
        /\ r.node = "client"
        /\ r.read = r.sent
    BY <1>0, <2>1 DEF NodeInv, Stages, ClientType, Disconnected,
                      StartDeparture
  <2>5. r.read <= r.sent
    BY <2>3, <2>4 DEF ClientType
  <2> QED
    BY <1>0, <2>1, <2>3, <2>4, <2>5, OneClient DEF c
<1>7. CASE Recv
  <2>1. PICK m \in Messages, n \in Int :
          /\ n >= 0 /\ n <= Unread(client[c])
          /\ client' = [client EXCEPT ![c].waiting[m] = @ + 1,
                                      ![c].read = @ + n]
    <3>1. PICK n \in IF pc.poll = "recv" THEN {Taken(client[c], Half)}
                                         ELSE 0 .. Unread(client[c]) :
            \E m \in Messages :
              client' = [client EXCEPT ![c].waiting[m] = @ + 1,
                                       ![c].read = @ + n]
      BY <1>7 DEF Recv, c, Messages
    <3>2. n \in Int /\ n >= 0 /\ n <= Unread(client[c])
      BY <1>0, <1>1, <3>1 DEF Taken, Unread, Half
    <3> QED
      BY <3>1, <3>2
  <2>. DEFINE w == [client[c].waiting EXCEPT ![m] = @ + 1]
              d == client[c].read + n
              r == [client[c] EXCEPT !.waiting = w, !.read = d]
  <2>2. /\ client' = [client EXCEPT ![c] = r]
        /\ UNCHANGED <<build, status, adding, mutex, walk, crashed>>
        /\ pc' = [pc EXCEPT !.poll = "walk"]
    BY <1>0, <1>7, <2>1 DEF Recv, TypeOK
  <2>3. w \in [Messages -> Nat] /\ d \in Nat /\ d <= client[c].sent
    <3>1. w \in [Messages -> Nat]
      BY <1>1, Waiting
    <3> QED
      BY <1>1, <2>1, <3>1 DEF Unread
  <2>. HIDE DEF w, d
  <2>4. r \in ClientType /\ r.read <= r.sent
    BY <1>0, <2>3 DEF ClientType
  <2>5. /\ <<r.node, r.leaving, r.stage>> \in Stages
        /\ r.access # Nobody => r.node = "client"
        /\ r.node = client[c].node
    BY <1>0 DEF NodeInv, ClientType
  <2> QED
    BY <1>0, <2>2, <2>4, <2>5, OneClient DEF c
<1> QED
  BY <1>4, <1>5, <1>6, <1>7 DEF Load, c

(* A connection that is made is new, and made by one thread only.          *)
LEMMA Made ==
  ASSUME ServerInv, NEW w \in Adders, NEW c \in Clients, Connected(w, c),
         pc[w] # "add", w = "owner" <=> c \in Outgoing,
         w = "owner" => pc.owner = "idle"
  PROVE  ServerInv'
<1>. DEFINE r == [client[c] EXCEPT !.node = "made", !.stage = "connected"]
<1>. USE DEF ServerInv
<1>0. /\ client[c] \in ClientType
      /\ client[c].read <= client[c].sent
  BY DEF TypeOK, StreamInv
<1>1. /\ client' = [client EXCEPT ![c] = r] /\ client[c].node = "none"
      /\ UNCHANGED <<build, status, mutex, walk, crashed>>
      /\ adding' = [adding EXCEPT ![w] = c]
      /\ pc' = [pc EXCEPT ![w] = "add"]
  BY DEF TypeOK, Connected
<1>2. r \in ClientType
  BY <1>0 DEF ClientType
<1>3. /\ <<r.node, r.leaving, r.stage>> \in Stages
      /\ r.access = Nobody /\ r.node = "made"
      /\ r.read = client[c].read /\ r.sent = client[c].sent
  BY <1>0, <1>1 DEF NodeInv, Stages, ClientType
<1>. HIDE DEF r
<1>4. /\ client' \in [Clients -> ClientType]
      /\ client'[c] = r
      /\ \A d \in Clients : d # c => client'[d] = client[d]
  BY <1>1, <1>2 DEF TypeOK
<1>5. /\ pc'.poll = pc.poll
      /\ pc' \in [owner : {"idle", "add", "joinAcceptor", "joinPoll", "off"},
                  acceptor : {"off", "loop", "accept", "add", "ended"},
                  poll : {"off", "sleep", "walk", "visit", "recv", "recvLost"}]
      /\ w = "owner" => pc'.owner = "add" /\ pc'.acceptor = pc.acceptor
      /\ w = "acceptor" => pc'.acceptor = "add" /\ pc'.owner = pc.owner
  BY <1>1 DEF TypeOK, Adders
<1>6. /\ adding' \in [Adders -> Clients \cup {Nobody}]
      /\ adding'[w] = c
      /\ \A v \in Adders : v # w => adding'[v] = adding[v]
  BY <1>1 DEF TypeOK
<1>7. TypeOK'
  BY <1>1, <1>4, <1>5, <1>6 DEF TypeOK
<1>8. ThreadInv'
  <2>1. CASE w = "owner"
    BY <1>1, <1>3, <1>4, <1>5, <1>6, <2>1, ConstantsAssumption
       DEF ThreadInv, Adders
  <2>2. CASE w = "acceptor"
    BY <1>1, <1>3, <1>4, <1>5, <1>6, <2>2, ConstantsAssumption
       DEF ThreadInv, Adders
  <2> QED
    BY <2>1, <2>2 DEF Adders
<1>9. NodeInv'
  BY <1>3, <1>4 DEF NodeInv
<1>10. StreamInv'
  BY <1>0, <1>3, <1>4 DEF StreamInv
<1> QED
  BY <1>7, <1>8, <1>9, <1>10

(* The connection that a thread adds is in the list, and no other changes. *)
LEMMA Added ==
  ASSUME ServerInv, NEW w \in Adders, Add(w)
  PROVE  ServerInv'
<1>. DEFINE c == adding[w]
            r == [client[c] EXCEPT !.node = "client"]
            p == IF w = "owner" THEN "idle" ELSE "loop"
<1>. USE DEF ServerInv
<1>0. /\ c \in Clients /\ client[c] \in ClientType
      /\ client[c].node = "made"
      /\ client[c].read <= client[c].sent
  BY ConstantsAssumption DEF TypeOK, StreamInv, ThreadInv, Add, Adders
<1>1. /\ client' = [client EXCEPT ![c] = r]
      /\ UNCHANGED <<build, status, mutex, walk, crashed>>
      /\ adding' = [adding EXCEPT ![w] = Nobody]
      /\ pc' = [pc EXCEPT ![w] = p] /\ pc[w] = "add"
  BY DEF TypeOK, Add
<1>2. /\ r \in ClientType
      /\ <<r.node, r.leaving, r.stage>> \in Stages
      /\ r.node = "client"
      /\ r.read = client[c].read /\ r.sent = client[c].sent
  BY <1>0 DEF NodeInv, Stages, ClientType
<1>3. \A v \in Adders : v # w /\ pc[v] = "add" => adding[v] # c
  BY <1>1 DEF ThreadInv, Adders
<1>. HIDE DEF r, c
<1>4. /\ client' \in [Clients -> ClientType]
      /\ client'[c] = r
      /\ \A d \in Clients : d # c => client'[d] = client[d]
  BY <1>0, <1>1, <1>2 DEF TypeOK
<1>5. /\ pc'.poll = pc.poll
      /\ pc' \in [owner : {"idle", "add", "joinAcceptor", "joinPoll", "off"},
                  acceptor : {"off", "loop", "accept", "add", "ended"},
                  poll : {"off", "sleep", "walk", "visit", "recv", "recvLost"}]
      /\ w = "owner" => /\ pc.owner = "add" /\ pc'.owner = "idle"
                        /\ pc'.acceptor = pc.acceptor
      /\ w = "acceptor" => pc'.acceptor = "loop" /\ pc'.owner = pc.owner
  BY <1>1 DEF TypeOK, Adders
<1>6. /\ adding' \in [Adders -> Clients \cup {Nobody}]
      /\ \A v \in Adders : v # w => adding'[v] = adding[v]
  BY <1>1 DEF TypeOK
<1>7. TypeOK'
  BY <1>1, <1>4, <1>5, <1>6 DEF TypeOK
<1>8. ThreadInv'
  <2>1. CASE w = "owner"
    BY <1>1, <1>3, <1>4, <1>5, <1>6, <2>1, ConstantsAssumption
       DEF ThreadInv, Adders
  <2>2. CASE w = "acceptor"
    BY <1>1, <1>3, <1>4, <1>5, <1>6, <2>2, ConstantsAssumption
       DEF ThreadInv, Adders
  <2> QED
    BY <2>1, <2>2 DEF Adders
<1>9. NodeInv'
  BY <1>2, <1>4 DEF NodeInv
<1>10. StreamInv'
  BY <1>0, <1>2, <1>4 DEF StreamInv
<1> QED
  BY <1>7, <1>8, <1>9, <1>10

(* Every step keeps the invariant, one that crashes the program included.  *)
LEMMA ServerStep == ServerInv /\ [Next]_vars => ServerInv'
<1> SUFFICES ASSUME ServerInv, [Next]_vars, ~Crash PROVE ServerInv'
  BY CrashInv
<1>1. ASSUME NEW c \in Clients, ConnectTo(c) PROVE ServerInv'
  BY <1>1, Made DEF ConnectTo, Adders
<1>2. ASSUME NEW c \in Clients, Accept(c) PROVE ServerInv'
  BY <1>2, Made DEF Accept, Adders
<1> QED
  BY <1>1, <1>2, ThreadStep, VisitStep, Added, DetachedStep DEF Next, Poll

(* The invariant of all threads and connections holds always.              *)
LEMMA ServerInvAlways == Spec => []ServerInv
BY InitInv, ServerStep, PTL DEF Spec

(* The state keeps its types; in particular the list is locked during a    *)
(* pass of the poll and only then.                                         *)
THEOREM TypeCorrect == Spec => []TypeOK
<1>1. ServerInv => TypeOK
  BY DEF ServerInv
<1> QED
  BY <1>1, ServerInvAlways, PTL

-----------------------------------------------------------------------------
(* The account of a connection: no more messages are handled as whole, or  *)
(* wait for it, than what was read makes up, a size and data for each; n   *)
(* is 1 while the size of the next is read and its data are not.  And it   *)
(* has ended if it departs.                                                *)
Account(h, w, d, n, s) == 4 * (h + w) + 2 * n <= d /\ d <= s

Told(r, n) ==
    /\ Account(r.handled, r.waiting["whole"], r.read, n, r.sent)
    /\ r.leaving # "no" => r.gone

CountInv == \A c \in Clients : Told(client[c], Turn(c))

(* What the handlers see of a connection.                                  *)
Seen(r) ==
    [stage |-> r.stage, handling |-> r.access, sent |-> r.sent \div Message,
     handled |-> r.handled, ended |-> r.gone]

Simulated == Abstract!Next \/ UNCHANGED <<Session, crashed>>

(* Every fourth piece completes a message.                                 *)
LEMMA Pieces ==
  ASSUME NEW s \in Nat
  PROVE  (s + 1) \div Message \in {s \div Message, s \div Message + 1}
BY DEF Message, Half

(* What may happen to an account: pieces are read or lost, a size is read, *)
(* the data then make a message wait, its handler is called, one more      *)
(* piece is sent.                                                          *)
LEMMA AccountLost ==
  ASSUME NEW h \in Nat, NEW w \in Nat, NEW d \in Nat, NEW n \in {0, 1},
         NEW s \in Nat, Account(h, w, d, n, s),
         NEW k \in Nat, d <= k, k <= s
  PROVE  Account(h, w, k, n, s) /\ Account(h, w, k, 0, s)
BY DEF Account

LEMMA AccountRead ==
  ASSUME NEW h \in Nat, NEW w \in Nat, NEW d \in Nat, NEW s \in Nat,
         Account(h, w, d, 0, s), d + 2 <= s
  PROVE  Account(h, w, d + 2, 1, s)
BY DEF Account

LEMMA AccountWaits ==
  ASSUME NEW h \in Nat, NEW w \in Nat, NEW d \in Nat, NEW s \in Nat,
         Account(h, w, d, 1, s), d + 2 <= s
  PROVE  Account(h, w + 1, d + 2, 0, s)
BY DEF Account

LEMMA AccountHandled ==
  ASSUME NEW h \in Nat, NEW w \in Nat, NEW d \in Nat, NEW n \in {0, 1},
         NEW s \in Nat, Account(h, w, d, n, s)
  PROVE  w > 0 => Account(h + 1, w - 1, d, n, s) /\ h < s \div Message
BY DEF Account, Message, Half

LEMMA AccountSent ==
  ASSUME NEW h \in Nat, NEW w \in Nat, NEW d \in Nat, NEW n \in {0, 1},
         NEW s \in Nat, Account(h, w, d, n, s)
  PROVE  Account(h, w, d, n, s + 1)
BY DEF Account

(* A step that changes one connection keeps the accounts if it keeps that  *)
(* one's, and the session it changes is that one's.                        *)
LEMMA OneSession ==
  ASSUME ServerInv, CountInv, NEW c \in Clients, NEW r,
         client' = [client EXCEPT ![c] = r],
         \A d \in Clients : d # c => Turn(d)' = Turn(d),
         Told(r, Turn(c)')
  PROVE  /\ CountInv'
         /\ Session' = [Session EXCEPT ![c] = Seen(r)]
         /\ Session[c] = Seen(client[c])
<1>1. /\ client'[c] = r
      /\ \A d \in Clients : d # c => client'[d] = client[d]
  BY DEF ServerInv, TypeOK
<1>2. CountInv'
  BY <1>1 DEF CountInv
<1>3. /\ Session = [d \in Clients |-> Seen(client[d])]
      /\ Session' = [d \in Clients |-> Seen(client'[d])]
  BY DEF Session, Seen
<1> QED
  BY <1>1, <1>2, <1>3

(* If nothing is to be seen of its change, the sessions stutter.           *)
LEMMA Unseen ==
  ASSUME ServerInv, CountInv, NEW c \in Clients, NEW r,
         client' = [client EXCEPT ![c] = r],
         \A d \in Clients : d # c => Turn(d)' = Turn(d),
         Told(r, Turn(c)'),
         Seen(r) = Seen(client[c]), UNCHANGED crashed
  PROVE  CountInv' /\ Simulated
<1>1. /\ CountInv' /\ Session' = [Session EXCEPT ![c] = Seen(r)]
      /\ Session[c] = Seen(client[c])
  BY OneSession
<1>2. Session' = Session
  BY <1>1 DEF Session
<1> QED
  BY <1>1, <1>2 DEF Simulated

(* A crash breaks all sessions off.                                        *)
LEMMA CrashSession ==
  ASSUME ServerInv, Crash, crashed = FALSE PROVE CountInv' /\ Simulated
<1>1. Told(NewClient, 0)
  BY DEF Told, Account, NewClient, Messages
<1>2. CountInv'
  BY <1>1 DEF CountInv, Crash, Turn
<1>3. Session' = [c \in Clients |-> Abstract!NewSession]
  <2>1. 0 \div Message = 0
    BY DEF Message, Half
  <2>2. Seen(NewClient) = Abstract!NewSession
    BY <2>1 DEF Seen, NewClient, Abstract!NewSession
  <2>3. Session' = [c \in Clients |-> Seen(NewClient)]
    BY DEF Session, Seen, Crash
  <2> QED
    BY <2>2, <2>3
<1>4. Abstract!BreakOff
  BY <1>3 DEF Crash, Abstract!BreakOff
<1> QED
  BY <1>2, <1>4 DEF Simulated, Abstract!Next

(* The threads of the server, away from the connections.                   *)
LEMMA ThreadSession ==
  ASSUME ServerInv, CountInv, ~Crash,
         \/ Start \/ Stop \/ AcceptorJoined \/ AcceptLoop
         \/ BeginPass \/ Look \/ EndPass \/ UNCHANGED vars
  PROVE  CountInv' /\ Simulated
<1>1. UNCHANGED <<client, crashed>>
  BY DEF Start, Stop, AcceptorJoined, AcceptLoop, BeginPass, Look, EndPass, vars
<1>2. \A d \in Clients : Turn(d)' = Turn(d)
  <2>1. pc'.poll = "recv" <=> pc.poll = "recv"
    <3>1. CASE \/ Stop \/ AcceptorJoined \/ AcceptLoop \/ UNCHANGED vars
      BY <3>1 DEF ServerInv, TypeOK, Stop, AcceptorJoined, AcceptLoop, vars
    <3>2. CASE BeginPass \/ Look \/ EndPass
      BY <3>2 DEF ServerInv, TypeOK, BeginPass, Look, EndPass
    <3>3. CASE Start
      BY <3>3 DEF ServerInv, TypeOK, ThreadInv, Start
    <3> QED
      BY <3>1, <3>2, <3>3
  <2>2. pc.poll = "recv" => UNCHANGED walk
    BY DEF Start, Stop, AcceptorJoined, AcceptLoop, BeginPass, Look, EndPass,
           vars
  <2> QED
    BY <2>1, <2>2 DEF Turn
<1> QED
  BY <1>1, <1>2 DEF CountInv, Session, Simulated

(* A connection is made and added.                                         *)
LEMMA MadeSession ==
  ASSUME ServerInv, CountInv, NEW w \in Adders, NEW c \in Clients,
         Connected(w, c), pc[w] # "add", crashed = FALSE
  PROVE  CountInv' /\ Simulated
<1>. DEFINE r == [client[c] EXCEPT !.node = "made", !.stage = "connected"]
<1>1. /\ client[c] \in ClientType /\ Told(client[c], Turn(c))
      /\ client[c].stage = "new"
      /\ client' = [client EXCEPT ![c] = r]
      /\ UNCHANGED <<walk, crashed>> /\ pc'.poll = pc.poll
  BY DEF ServerInv, TypeOK, CountInv, NodeInv, Stages, Connected, Adders
<1>2. /\ r.stage = "connected" /\ r.access = client[c].access
      /\ r.sent = client[c].sent /\ r.handled = client[c].handled
      /\ r.gone = client[c].gone /\ r.waiting = client[c].waiting
      /\ r.read = client[c].read /\ r.leaving = client[c].leaving
  BY <1>1 DEF ClientType
<1>. HIDE DEF r
<1>3. \A d \in Clients : Turn(d)' = Turn(d)
  BY <1>1 DEF Turn
<1>4. /\ CountInv' /\ Session' = [Session EXCEPT ![c] = Seen(r)]
      /\ Session[c] = Seen(client[c])
  BY <1>1, <1>2, <1>3, OneSession DEF Told
<1>5. Seen(r) = [Seen(client[c]) EXCEPT !.stage = "connected"]
  BY <1>2 DEF Seen
<1>6. Abstract!Connect(c)
  <2>1. Session[c].stage = "new"
    BY <1>1, <1>4 DEF Seen
  <2>2. Session' = [Session EXCEPT ![c] = [Session[c] EXCEPT
                                               !.stage = "connected"]]
    BY <1>4, <1>5
  <2> QED
    BY <1>1, <2>1, <2>2 DEF Abstract!Connect, Abstract!Becomes
<1> QED
  BY <1>1, <1>4, <1>6 DEF Simulated, Abstract!Next

LEMMA AddedSession ==
  ASSUME ServerInv, CountInv, NEW w \in Adders, Add(w), crashed = FALSE
  PROVE  CountInv' /\ Simulated
<1>0. PICK c \in Clients : c = adding[w]
  BY ConstantsAssumption DEF ServerInv, ThreadInv, Add, Adders
<1>. DEFINE r == [client[c] EXCEPT !.node = "client"]
<1>1. /\ client[c] \in ClientType /\ Told(client[c], Turn(c))
      /\ client' = [client EXCEPT ![c] = r]
      /\ UNCHANGED <<walk, crashed>> /\ pc'.poll = pc.poll
  BY <1>0 DEF ServerInv, TypeOK, CountInv, Add, Adders
<1>2. /\ r.stage = client[c].stage /\ r.access = client[c].access
      /\ r.sent = client[c].sent /\ r.handled = client[c].handled
      /\ r.gone = client[c].gone /\ r.waiting = client[c].waiting
      /\ r.read = client[c].read /\ r.leaving = client[c].leaving
  BY <1>1 DEF ClientType
<1>. HIDE DEF r
<1>3. \A d \in Clients : Turn(d)' = Turn(d)
  BY <1>1 DEF Turn
<1>4. Told(r, Turn(c)') /\ Seen(r) = Seen(client[c])
  BY <1>0, <1>1, <1>2, <1>3 DEF Told, Seen
<1> QED
  BY <1>0, <1>1, <1>3, <1>4, Unseen

(* The poll reads: of the three outcomes of loadData none is seen.         *)
LEMMA LoadSession ==
  ASSUME ServerInv, CountInv, Load, ~Crash, crashed = FALSE
  PROVE  CountInv' /\ Simulated
<1>0a. PICK c \in Clients : c = walk.at
  BY DEF ServerInv, ThreadInv, Load
<1>0. /\ client[c] \in ClientType
      /\ Told(client[c], Turn(c)) /\ Turn(c) = 0
      /\ UNCHANGED <<walk, crashed>>
      /\ \A d \in Clients : d # c => Turn(d)' = Turn(d)
  BY <1>0a DEF ServerInv, TypeOK, CountInv, Turn, Load
<1>1. /\ client[c].read \in Nat
      /\ client[c].waiting["whole"] \in Nat
      /\ client[c].handled \in Nat /\ client[c].sent \in Nat
      /\ client[c].read <= client[c].sent
  BY <1>0 DEF ClientType, Messages, ServerInv, StreamInv
<1>3. CASE ReadSize(c)
  <2>. DEFINE d == client[c].read + Taken(client[c], Half)
              r == [client[c] EXCEPT !.read = d]
  <2>1. client' = [client EXCEPT ![c] = r]
    BY <1>0, <1>3 DEF ReadSize, ServerInv, TypeOK
  <2>2. /\ d \in Nat /\ client[c].read <= d /\ d <= client[c].sent
        /\ Turn(c)' = 1 => d = client[c].read + 2
    <3>1. Turn(c)' = 1 => Unread(client[c]) >= Half
      BY <1>3 DEF ReadSize, Turn, ServerInv, TypeOK
    <3> QED
      BY <1>1, <3>1 DEF Taken, Unread, Half
  <2>. HIDE DEF d
  <2>3. /\ r.stage = client[c].stage /\ r.access = client[c].access
        /\ r.sent = client[c].sent /\ r.handled = client[c].handled
        /\ r.gone = client[c].gone /\ r.waiting = client[c].waiting
        /\ r.read = d /\ r.leaving = client[c].leaving
    BY <1>0 DEF ClientType
  <2>. HIDE DEF r
  <2>4. Turn(c)' \in {0, 1}
    BY DEF Turn
  <2>6. Told(r, Turn(c)')
    <3>1. Account(client[c].handled, client[c].waiting["whole"],
                  client[c].read, 0, client[c].sent)
      BY <1>0 DEF Told
    <3>2. Account(client[c].handled, client[c].waiting["whole"],
                  d, Turn(c)', client[c].sent)
      <4>1. CASE Turn(c)' = 0
        BY <1>1, <2>2, <3>1, <4>1, AccountLost
      <4>2. CASE Turn(c)' = 1
        BY <1>1, <2>2, <3>1, <4>2, AccountRead
      <4> QED
        BY <2>4, <4>1, <4>2
    <3> QED
      BY <1>0, <2>3, <3>2 DEF Told
  <2>7. Seen(r) = Seen(client[c])
    BY <2>3 DEF Seen
  <2> QED
    BY <1>0, <2>1, <2>6, <2>7, Unseen
<1>4. CASE NothingToRead(c)
  <2>1. client' = [client EXCEPT ![c] = client[c]]
    BY <1>0, <1>4 DEF NothingToRead, ServerInv, TypeOK
  <2>2. Turn(c)' = 0
    BY <1>4 DEF NothingToRead, Turn, ServerInv, TypeOK
  <2> QED
    BY <1>0, <2>1, <2>2, Unseen
<1>5. CASE Depart(c)
  <2>. DEFINE r == StartDeparture(Disconnected(client[c]))
  <2>1. client' = [client EXCEPT ![c] = r] /\ client[c].gone
    BY <1>0, <1>5 DEF Depart, ServerInv, TypeOK
  <2>2. /\ r.stage = client[c].stage /\ r.access = client[c].access
        /\ r.sent = client[c].sent /\ r.handled = client[c].handled
        /\ r.gone /\ r.gone = client[c].gone
        /\ r.waiting = client[c].waiting /\ r.read = client[c].sent
    BY <1>0, <2>1 DEF ClientType, StartDeparture, Disconnected
  <2>. HIDE DEF r
  <2>3. Turn(c)' = 0
    BY <1>5 DEF Depart, Turn, ServerInv, TypeOK
  <2>4. Told(r, Turn(c)')
    <3>1. Account(client[c].handled, client[c].waiting["whole"],
                  client[c].read, 0, client[c].sent)
      BY <1>0 DEF Told
    <3>2. Account(client[c].handled, client[c].waiting["whole"],
                  client[c].sent, 0, client[c].sent)
      BY <1>1, <3>1, AccountLost
    <3> QED
      BY <2>2, <2>3, <3>2 DEF Told
  <2>5. Seen(r) = Seen(client[c])
    BY <2>2 DEF Seen
  <2> QED
    BY <1>0, <2>1, <2>4, <2>5, Unseen
<1> QED
  BY <1>0a, <1>3, <1>4, <1>5 DEF Load

(* The data make the message of which the size was read wait, if they are  *)
(* whole.                                                                  *)
LEMMA RecvSession ==
  ASSUME ServerInv, CountInv, Recv, crashed = FALSE
  PROVE  CountInv' /\ Simulated
<1>0a. PICK c \in Clients : c = walk.at
  BY DEF ServerInv, ThreadInv, Recv
<1>0. /\ client[c] \in ClientType
      /\ Told(client[c], Turn(c)) /\ Turn(c) = IF pc.poll = "recv" THEN 1 ELSE 0
      /\ UNCHANGED <<walk, crashed>> /\ Turn(c)' = 0
      /\ \A d \in Clients : d # c => Turn(d)' = Turn(d)
  BY <1>0a DEF ServerInv, TypeOK, CountInv, Turn, Recv
<1>1. /\ client[c].waiting \in [Messages -> Nat]
      /\ client[c].waiting["whole"] \in Nat
      /\ client[c].handled \in Nat /\ client[c].sent \in Nat
      /\ client[c].read \in Nat /\ client[c].read <= client[c].sent
  BY <1>0 DEF ClientType, Messages, ServerInv, StreamInv
<1>. DEFINE whole == pc.poll = "recv" /\ Unread(client[c]) >= Half
            m == IF whole THEN "whole" ELSE "broken"
<1>2. PICK n \in IF pc.poll = "recv" THEN {Taken(client[c], Half)}
                                     ELSE 0 .. Unread(client[c]) :
        client' = [client EXCEPT ![c].waiting[m] = @ + 1, ![c].read = @ + n]
  BY <1>0a DEF Recv
<1>. DEFINE w == [client[c].waiting EXCEPT ![m] = @ + 1]
            q == client[c].read + n
            r == [client[c] EXCEPT !.waiting = w, !.read = q]
<1>3. /\ q \in Nat /\ client[c].read <= q /\ q <= client[c].sent
      /\ m = "whole" => q = client[c].read + 2 /\ pc.poll = "recv"
  BY <1>1, <1>2 DEF Taken, Unread, Half
<1>3a. m \in Messages
  BY DEF Messages
<1>. HIDE DEF m, q
<1>4. client' = [client EXCEPT ![c] = r]
  BY <1>0, <1>1, <1>2 DEF ServerInv, TypeOK, ClientType, q
<1>5. /\ m = "whole" => w["whole"] = client[c].waiting["whole"] + 1
      /\ m # "whole" => w["whole"] = client[c].waiting["whole"]
  BY <1>1, <1>3a DEF Messages
<1>. HIDE DEF w
<1>6. /\ r.stage = client[c].stage /\ r.access = client[c].access
      /\ r.sent = client[c].sent /\ r.handled = client[c].handled
      /\ r.gone = client[c].gone /\ r.waiting = w
      /\ r.read = q /\ r.leaving = client[c].leaving
  BY <1>0 DEF ClientType
<1>. HIDE DEF r
<1>7. Told(r, Turn(c)')
  <2>1. Account(client[c].handled, client[c].waiting["whole"],
                client[c].read, Turn(c), client[c].sent)
    BY <1>0 DEF Told
  <2>2. Account(client[c].handled, w["whole"], q, 0, client[c].sent)
    <3>1. CASE m = "whole"
      BY <1>0, <1>1, <1>3, <1>5, <2>1, <3>1, AccountWaits
    <3>2. CASE m # "whole"
      BY <1>0, <1>1, <1>3, <1>5, <2>1, <3>2, AccountLost
    <3> QED
      BY <3>1, <3>2
  <2> QED
    BY <1>0, <1>6, <2>2 DEF Told
<1>8. Seen(r) = Seen(client[c])
  BY <1>6 DEF Seen
<1> QED
  BY <1>0, <1>4, <1>7, <1>8, Unseen

(* The handler of a whole message, as it is seen.                          *)
LEMMA OneHandled ==
  ASSUME NEW p, NEW r,
         r.stage = p.stage, r.access = "whole", r.sent = p.sent,
         r.handled = p.handled + 1, r.gone = p.gone
  PROVE  Seen(r) = [Seen(p) EXCEPT !.handling = "whole", !.handled = @ + 1]
<1>. DEFINE s == Seen(p)
            t == [s EXCEPT !.handling = "whole", !.handled = @ + 1]
            S == [stage : {p.stage}, handling : {p.access, "whole"},
                  sent : {p.sent \div Message},
                  handled : {p.handled, p.handled + 1}, ended : {p.gone}]
<1>1. /\ s \in S /\ s.stage = p.stage /\ s.handled = p.handled
      /\ s.sent = p.sent \div Message /\ s.ended = p.gone
  BY DEF Seen
<1>2. Seen(r) \in S
  BY DEF Seen
<1>3. /\ Seen(r).stage = p.stage /\ Seen(r).handling = "whole"
      /\ Seen(r).sent = p.sent \div Message /\ Seen(r).handled = p.handled + 1
      /\ Seen(r).ended = p.gone
  BY DEF Seen
<1>. HIDE DEF s
<1>4. t \in S
  BY <1>1
<1>5. /\ t.stage = p.stage /\ t.handling = "whole"
      /\ t.sent = p.sent \div Message /\ t.handled = p.handled + 1
      /\ t.ended = p.gone
  BY <1>1
<1>. HIDE DEF t
<1>6. Seen(r) = t
  BY <1>2, <1>3, <1>4, <1>5
<1> QED
  BY <1>6 DEF t, s

(* A step away from the poll: what its connection becomes, the session      *)
(* becomes with it.                                                        *)
LEMMA OneStep ==
  ASSUME ServerInv, CountInv, NEW c \in Clients, NEW r,
         client' = [client EXCEPT ![c] = r],
         UNCHANGED <<pc, walk, crashed>>, crashed = FALSE,
         Told(r, Turn(c))
  PROVE  /\ CountInv'
         /\ Session[c] = Seen(client[c])
         /\ Abstract!Becomes(c, Seen(r))
<1>1. \A d \in Clients : Turn(d)' = Turn(d)
  BY DEF Turn
<1>2. /\ CountInv' /\ Session' = [Session EXCEPT ![c] = Seen(r)]
      /\ Session[c] = Seen(client[c])
  BY <1>1, OneSession
<1> QED
  BY <1>2 DEF Abstract!Becomes

(* The end of a connection, by the owner or by its peer.                   *)
LEMMA EndSession ==
  ASSUME ServerInv, CountInv, NEW c \in Clients, crashed = FALSE, ~Crash,
         DisconnectBy(c) \/ Leave(c)
  PROVE  CountInv' /\ Simulated
<1>. DEFINE r == IF DisconnectBy(c) THEN Disconnected(client[c])
                                   ELSE [client[c] EXCEPT !.gone = TRUE]
<1>1. /\ client[c] \in ClientType /\ Told(client[c], Turn(c))
      /\ client[c].node \in {"made", "client"}
      /\ client[c].stage = "connected"
      /\ client' = [client EXCEPT ![c] = r]
      /\ UNCHANGED <<pc, walk, crashed>>
  BY DEF ServerInv, TypeOK, CountInv, NodeInv, Stages, DisconnectBy, Leave
<1>2. /\ r.stage = client[c].stage /\ r.access = client[c].access
      /\ r.sent = client[c].sent /\ r.handled = client[c].handled
      /\ r.gone = TRUE /\ r.waiting = client[c].waiting
      /\ r.read = client[c].read \/ r.read = client[c].sent
  BY <1>1 DEF ClientType, Disconnected
<1>. HIDE DEF r
<1>3. Told(r, Turn(c))
  <2>1. /\ client[c].waiting["whole"] \in Nat
        /\ client[c].handled \in Nat /\ client[c].sent \in Nat
        /\ client[c].read \in Nat /\ client[c].read <= client[c].sent
        /\ Turn(c) \in {0, 1}
    BY <1>1 DEF ClientType, Messages, Turn, ServerInv, StreamInv
  <2>2. /\ Account(client[c].handled, client[c].waiting["whole"],
                   client[c].read, Turn(c), client[c].sent)
        /\ Account(client[c].handled, client[c].waiting["whole"],
                   client[c].sent, Turn(c), client[c].sent)
    <3>1. Account(client[c].handled, client[c].waiting["whole"],
                  client[c].read, Turn(c), client[c].sent)
      BY <1>1 DEF Told
    <3> QED
      BY <2>1, <3>1, AccountLost
  <2>3. Account(r.handled, r.waiting["whole"], r.read, Turn(c), r.sent)
    BY <1>2, <2>1, <2>2
  <2> QED
    BY <1>2, <2>3 DEF Told
<1>4. /\ CountInv' /\ Session[c] = Seen(client[c])
      /\ Abstract!Becomes(c, Seen(r))
  BY <1>1, <1>3, OneStep
<1>5. Seen(r) = [Seen(client[c]) EXCEPT !.ended = TRUE]
  <2>1. Seen(r) = [Seen(client[c]) EXCEPT !.ended = r.gone]
    <3>1. /\ r.stage = client[c].stage /\ r.access = client[c].access
          /\ r.sent = client[c].sent /\ r.handled = client[c].handled
      BY <1>2
    <3> QED
      BY <3>1 DEF Seen
  <2> QED
    BY <1>2, <2>1
<1>6. Abstract!End(c)
  BY <1>1, <1>4, <1>5 DEF Abstract!End, Seen
<1> QED
  BY <1>4, <1>6 DEF Simulated, Abstract!Next

(* One more piece of the peer completes one more message, or does not.     *)
LEMMA SendSession ==
  ASSUME ServerInv, CountInv, NEW c \in Clients, crashed = FALSE, Send(c)
  PROVE  CountInv' /\ Simulated
<1>. DEFINE r == [client[c] EXCEPT !.sent = @ + 1]
<1>1. /\ client[c] \in ClientType /\ Told(client[c], Turn(c))
      /\ client[c].stage = "connected" /\ ~client[c].gone
      /\ client' = [client EXCEPT ![c] = r]
      /\ UNCHANGED <<pc, walk, crashed>>
  BY DEF ServerInv, TypeOK, CountInv, NodeInv, Stages, Send
<1>2. /\ client[c].waiting["whole"] \in Nat
      /\ client[c].handled \in Nat /\ client[c].sent \in Nat
      /\ client[c].read \in Nat
      /\ Turn(c) \in {0, 1}
  BY <1>1 DEF ClientType, Messages, Turn
<1>4. /\ r.stage = client[c].stage /\ r.access = client[c].access
      /\ r.sent = client[c].sent + 1 /\ r.handled = client[c].handled
      /\ r.gone = client[c].gone /\ r.waiting = client[c].waiting
      /\ r.read = client[c].read /\ r.leaving = client[c].leaving
  BY <1>1 DEF ClientType
<1>. HIDE DEF r
<1>5. Told(r, Turn(c))
  <2>1. Account(client[c].handled, client[c].waiting["whole"],
                client[c].read, Turn(c), client[c].sent)
    BY <1>1 DEF Told
  <2>2. Account(client[c].handled, client[c].waiting["whole"],
                client[c].read, Turn(c), client[c].sent + 1)
    BY <1>2, <2>1, AccountSent
  <2> QED
    BY <1>1, <1>4, <2>2 DEF Told
<1>6. /\ CountInv' /\ Session[c] = Seen(client[c])
      /\ Abstract!Becomes(c, Seen(r))
  BY <1>1, <1>5, OneStep
<1>7. r.sent \div Message \in {client[c].sent \div Message, client[c].sent \div Message + 1}
  BY <1>2, <1>4, Pieces
<1>8. CASE r.sent \div Message = client[c].sent \div Message
  <2>1. Seen(r) = Seen(client[c])
    BY <1>4, <1>8 DEF Seen
  <2>2. \A d \in Clients : Turn(d)' = Turn(d)
    BY <1>1 DEF Turn
  <2> QED
    BY <1>1, <1>5, <2>1, <2>2, Unseen
<1>9. CASE r.sent \div Message = client[c].sent \div Message + 1
  <2>1. Seen(r) = [Seen(client[c]) EXCEPT !.sent = @ + 1]
    BY <1>4, <1>9 DEF Seen
  <2>2. Abstract!Send(c)
    BY <1>1, <1>6, <2>1 DEF Abstract!Send, Seen
  <2> QED
    BY <1>6, <2>2 DEF Simulated, Abstract!Next
<1> QED
  BY <1>7, <1>8, <1>9

(* The handler of a message is called.  If the message is whole, it is one *)
(* of those sent that none was called for.                                 *)
LEMMA LockSession ==
  ASSUME ServerInv, CountInv, NEW c \in Clients, NEW m \in Messages,
         DataLock(c, m), ~Crash, crashed = FALSE
  PROVE  CountInv' /\ Simulated
<1>. DEFINE w == [client[c].waiting EXCEPT ![m] = @ - 1]
            h == IF m = "whole" THEN client[c].handled + 1
                               ELSE client[c].handled
            r == [client[c] EXCEPT !.access = m, !.waiting = w, !.handled = h]
<1>1. /\ client[c] \in ClientType /\ Told(client[c], Turn(c))
      /\ client[c].stage = "connected" /\ client[c].access = Nobody
      /\ client[c].waiting[m] > 0
      /\ client' = [client EXCEPT ![c] = r]
      /\ UNCHANGED <<pc, walk, crashed>>
  BY DEF ServerInv, TypeOK, CountInv, NodeInv, Stages, ClientType, DataLock
<1>2. /\ client[c].waiting \in [Messages -> Nat]
      /\ client[c].waiting["whole"] \in Nat
      /\ client[c].handled \in Nat /\ client[c].sent \in Nat
      /\ client[c].read \in Nat /\ Turn(c) \in {0, 1}
  BY <1>1 DEF ClientType, Messages, Turn
<1>3. m = "whole" => w["whole"] = client[c].waiting["whole"] - 1
  BY <1>2
<1>4. m = "broken" => w["whole"] = client[c].waiting["whole"]
  BY <1>2 DEF Messages
<1>5. /\ m = "whole" => h = client[c].handled + 1
      /\ m = "broken" => h = client[c].handled
  OBVIOUS
<1>. HIDE DEF w, h
<1>6. /\ r.stage = client[c].stage /\ r.access = m
      /\ r.sent = client[c].sent /\ r.handled = h
      /\ r.gone = client[c].gone /\ r.waiting = w
      /\ r.read = client[c].read /\ r.leaving = client[c].leaving
  BY <1>1 DEF ClientType
<1>. HIDE DEF r
<1>7. Told(r, Turn(c))
  <2>1. m = "whole" =>
          Account(client[c].handled + 1, client[c].waiting["whole"] - 1,
                  client[c].read, Turn(c), client[c].sent)
    <3>1. Account(client[c].handled, client[c].waiting["whole"],
                  client[c].read, Turn(c), client[c].sent)
      BY <1>1 DEF Told
    <3> QED
      BY <1>1, <1>2, <3>1, AccountHandled
  <2>2. Account(h, w["whole"], client[c].read, Turn(c), client[c].sent)
    BY <1>1, <1>3, <1>4, <1>5, <2>1 DEF Told, Messages
  <2> QED
    BY <1>1, <1>6, <2>2 DEF Told
<1>8. /\ CountInv' /\ Session[c] = Seen(client[c])
      /\ Abstract!Becomes(c, Seen(r))
  BY <1>1, <1>7, OneStep
<1>9. Abstract!Idle(c)
  BY <1>1, <1>8 DEF Abstract!Idle, Seen
<1>10. CASE m = "whole"
  <2>1. client[c].handled < client[c].sent \div Message
    <3>1. Account(client[c].handled, client[c].waiting["whole"],
                  client[c].read, Turn(c), client[c].sent)
      BY <1>1 DEF Told
    <3> QED
      BY <1>1, <1>2, <1>10, <3>1, AccountHandled, SMTT(60)
  <2>2. r.access = "whole" /\ r.handled = client[c].handled + 1
    BY <1>5, <1>6, <1>10
  <2>3. Seen(r) = [Seen(client[c]) EXCEPT !.handling = "whole",
                                          !.handled = @ + 1]
    BY <1>6, <2>2, OneHandled
  <2>4. Abstract!BeginWhole(c)
    BY <1>8, <1>9, <2>1, <2>3 DEF Abstract!BeginWhole, Seen
  <2> QED
    BY <1>8, <2>4 DEF Simulated, Abstract!Next
<1>11. CASE m = "broken"
  <2>1. Seen(r) = [Seen(client[c]) EXCEPT !.handling = "broken"]
    BY <1>5, <1>6, <1>11 DEF Seen
  <2>2. Abstract!BeginBroken(c)
    BY <1>8, <1>9, <2>1 DEF Abstract!BeginBroken
  <2> QED
    BY <1>8, <2>2 DEF Simulated, Abstract!Next
<1> QED
  BY <1>10, <1>11 DEF Messages

(* The other steps of the detached threads leave the account alone.  The   *)
(* handler of the departure is called once the connection has ended and    *)
(* while no handler of a message runs, as the node has no client then.     *)
LEMMA DetachedSession ==
  ASSUME ServerInv, CountInv, NEW c \in Clients, ~Crash, crashed = FALSE,
         DataHandled(c) \/ Release(c) \/ DisconnectHndl(c) \/ Erase(c)
  PROVE  CountInv' /\ Simulated
<1>1. /\ client[c] \in ClientType /\ Told(client[c], Turn(c))
      /\ <<client[c].node, client[c].leaving, client[c].stage>> \in Stages
      /\ client[c].access # Nobody => client[c].node = "client"
      /\ UNCHANGED <<pc, walk, crashed>>
  BY DEF ServerInv, TypeOK, CountInv, NodeInv, DataHandled, Release,
         DisconnectHndl, Erase
<1>2. \A d \in Clients : Turn(d)' = Turn(d)
  BY <1>1 DEF Turn
<1>3. CASE DataHandled(c)
  <2>. DEFINE r == [client[c] EXCEPT !.access = Nobody]
  <2>1. /\ client' = [client EXCEPT ![c] = r] /\ client[c].access # Nobody
        /\ client[c].stage = "connected"
    BY <1>1, <1>3 DEF DataHandled, Stages
  <2>2. /\ r.stage = client[c].stage /\ r.access = Nobody
        /\ r.sent = client[c].sent /\ r.handled = client[c].handled
        /\ r.gone = client[c].gone /\ r.waiting = client[c].waiting
        /\ r.read = client[c].read /\ r.leaving = client[c].leaving
    BY <1>1 DEF ClientType
  <2>. HIDE DEF r
  <2>3. Told(r, Turn(c))
    BY <1>1, <2>2 DEF Told
  <2>4. /\ CountInv' /\ Session[c] = Seen(client[c])
        /\ Abstract!Becomes(c, Seen(r))
    BY <1>1, <2>1, <2>3, OneStep
  <2>5. Seen(r) = [Seen(client[c]) EXCEPT !.handling = Nobody]
    BY <2>2 DEF Seen
  <2>6. Abstract!Finish(c)
    BY <2>1, <2>4, <2>5 DEF Abstract!Finish, Seen
  <2> QED
    BY <2>4, <2>6 DEF Simulated, Abstract!Next
<1>4. CASE Release(c) \/ Erase(c)
  <2>. DEFINE r == IF Release(c)
                   THEN [client[c] EXCEPT !.node = "null",
                                          !.leaving = "released"]
                   ELSE [client[c] EXCEPT !.node = "erased",
                                          !.leaving = "freed"]
  <2>1. /\ client' = [client EXCEPT ![c] = r] /\ client[c].leaving # "no"
    BY <1>1, <1>4 DEF Release, Erase
  <2>2. /\ r.stage = client[c].stage /\ r.access = client[c].access
        /\ r.sent = client[c].sent /\ r.handled = client[c].handled
        /\ r.gone = client[c].gone /\ r.waiting = client[c].waiting
        /\ r.read = client[c].read
    BY <1>1 DEF ClientType
  <2>. HIDE DEF r
  <2>3. Told(r, Turn(c)') /\ Seen(r) = Seen(client[c])
    BY <1>1, <1>2, <2>1, <2>2 DEF Told, Seen
  <2> QED
    BY <1>1, <1>2, <2>1, <2>3, Unseen
<1>5. CASE DisconnectHndl(c)
  <2>. DEFINE r == [client[c] EXCEPT !.leaving = "handled",
                                     !.stage = "departed"]
  <2>1. /\ client' = [client EXCEPT ![c] = r] /\ client[c].leaving # "no"
        /\ client[c].stage = "connected" /\ client[c].access = Nobody
    BY <1>1, <1>5 DEF DisconnectHndl, Stages
  <2>2. /\ r.stage = "departed" /\ r.access = client[c].access
        /\ r.sent = client[c].sent /\ r.handled = client[c].handled
        /\ r.gone = client[c].gone /\ r.waiting = client[c].waiting
        /\ r.read = client[c].read
    BY <1>1 DEF ClientType
  <2>. HIDE DEF r
  <2>3. client[c].gone = TRUE /\ Told(r, Turn(c))
    BY <1>1, <2>1, <2>2 DEF Told, ClientType
  <2>4. /\ CountInv' /\ Session[c] = Seen(client[c])
        /\ Abstract!Becomes(c, Seen(r))
    BY <1>1, <2>1, <2>3, OneStep
  <2>5. Seen(r) = [Seen(client[c]) EXCEPT !.stage = "departed"]
    BY <2>2 DEF Seen
  <2>6. Abstract!Depart(c)
    BY <2>1, <2>3, <2>4, <2>5 DEF Abstract!Depart, Abstract!Idle, Seen
  <2> QED
    BY <2>4, <2>6 DEF Simulated, Abstract!Next
<1> QED
  BY <1>3, <1>4, <1>5

-----------------------------------------------------------------------------
(* Every step keeps the accounts, and is one of the sessions or unseen.    *)
LEMMA SessionStep == ServerInv /\ CountInv /\ [Next]_vars =>
                       CountInv' /\ Simulated
<1>. SUFFICES ASSUME ServerInv, CountInv, [Next]_vars
              PROVE  CountInv' /\ Simulated
  OBVIOUS
<1>1. CASE ~Crash /\ UNCHANGED vars
  BY <1>1, ThreadSession
<1>2. CASE Next
  <2>1. crashed = FALSE
    BY <1>2 DEF ServerInv, TypeOK, Next
  <2>2. CASE Crash
    BY <2>1, <2>2, CrashSession
  <2>3. CASE ~Crash
    <3>1. CASE \/ Start \/ Stop \/ AcceptorJoined \/ AcceptLoop
               \/ BeginPass \/ Look \/ EndPass
      BY <2>3, <3>1, ThreadSession
    <3>2. CASE Load
      BY <2>1, <2>3, <3>2, LoadSession
    <3>3. CASE Recv
      BY <2>1, <3>3, RecvSession
    <3>4. ASSUME NEW w \in Adders, Add(w) PROVE CountInv' /\ Simulated
      BY <2>1, <3>4, AddedSession
    <3>5. ASSUME NEW c \in Clients, ConnectTo(c) \/ Accept(c)
          PROVE  CountInv' /\ Simulated
      <4>1. CASE ConnectTo(c)
        <5>1. "owner" \in Adders /\ pc["owner"] # "add"
          BY <4>1 DEF ConnectTo, Adders
        <5>2. Connected("owner", c)
          BY <4>1 DEF ConnectTo
        <5> QED
          BY <2>1, <5>1, <5>2, MadeSession
      <4>2. CASE Accept(c)
        <5>1. "acceptor" \in Adders /\ pc["acceptor"] # "add"
          BY <4>2 DEF Accept, Adders
        <5>2. Connected("acceptor", c)
          BY <4>2 DEF Accept
        <5> QED
          BY <2>1, <5>1, <5>2, MadeSession
      <4> QED
        BY <3>5, <4>1, <4>2
    <3>6. ASSUME NEW c \in Clients, DisconnectBy(c) \/ Leave(c)
          PROVE  CountInv' /\ Simulated
      BY <2>1, <2>3, <3>6, EndSession
    <3>7. ASSUME NEW c \in Clients, Send(c) PROVE CountInv' /\ Simulated
      BY <2>1, <3>7, SendSession
    <3>8. ASSUME NEW c \in Clients, Detached(c) PROVE CountInv' /\ Simulated
      <4>1. ASSUME NEW m \in Messages, DataLock(c, m)
            PROVE  CountInv' /\ Simulated
        BY <2>1, <2>3, <4>1, LockSession
      <4>2. CASE \/ DataHandled(c) \/ Release(c)
                 \/ DisconnectHndl(c) \/ Erase(c)
        BY <2>1, <2>3, <4>2, DetachedSession
      <4> QED
        BY <2>3, <3>8, <4>1, <4>2 DEF Detached, LeaveAgain
    <3> QED
      BY <1>2, <3>1, <3>2, <3>3, <3>4, <3>5, <3>6, <3>7, <3>8 DEF Next, Poll
  <2> QED
    BY <2>2, <2>3
<1>3. CASE Crash /\ UNCHANGED vars
  BY <1>3 DEF CountInv, Turn, Simulated, Session, vars
<1> QED
  BY <1>1, <1>2, <1>3

(* Before the first connection nothing was sent and nothing handled.       *)
LEMMA InitSession == Init => CountInv /\ Abstract!Init
<1>. SUFFICES ASSUME Init PROVE CountInv /\ Abstract!Init
  OBVIOUS
<1>1. Told(NewClient, 0) /\ 0 \div Message = 0
  BY DEF Told, Account, NewClient, Messages, Message, Half
<1>2. Seen(NewClient) = Abstract!NewSession
  BY <1>1 DEF Seen, NewClient, Abstract!NewSession
<1>3. CountInv
  BY <1>1 DEF CountInv, Init, Turn
<1>4. Session = [c \in Clients |-> Seen(NewClient)]
  BY DEF Session, Seen, Init
<1> QED
  BY <1>2, <1>3, <1>4 DEF Init, Abstract!Init

(* Whatever the owner, the poll, the detached threads and the peers do and *)
(* however they interleave, what the handlers see of the server is what    *)
(* Sessions says, as long as the program lives: one session of each        *)
(* connection, its messages one at a time and never more of them whole     *)
(* than were sent, and one departure, after its end and after them.        *)
THEOREM ServerImplementsSessions == Spec => ImplementsSessions
<1>1. Simulated => [Abstract!Next]_<<Session, crashed>>
  BY DEF Simulated
<1> QED
  BY <1>1, InitSession, SessionStep, ServerInvAlways, PTL
     DEF Spec, ImplementsSessions, Abstract!Spec

(* The handlers of a client are called in the order their author relies    *)
(* on: the connection, messages, one departure, and none of a message      *)
(* while or after the departure is handled.  So they are in every step of  *)
(* Sessions but the one that breaks off.                                   *)
THEOREM HandlersAlwaysInOrder == Spec => HandlersInOrder
<1>1. Simulated =>
        [~crashed' => \A c \in Clients :
           /\ Handled(c) => /\ client[c].stage = "connected"
                            /\ client'[c].stage = "connected"
           /\ client'[c].stage # client[c].stage =>
                <<client[c].stage, client'[c].stage>> \in
                    {<<"new", "connected">>, <<"connected", "departed">>}]_vars
  <2>. SUFFICES ASSUME Simulated, ~crashed', NEW c \in Clients
                PROVE  /\ Handled(c) => /\ client[c].stage = "connected"
                                        /\ client'[c].stage = "connected"
                       /\ client'[c].stage # client[c].stage =>
                            <<client[c].stage, client'[c].stage>> \in
                              {<<"new", "connected">>,
                               <<"connected", "departed">>}
    OBVIOUS
  <2>1. /\ Session[c].stage = client[c].stage
        /\ Session[c].handling = client[c].access
        /\ Session'[c].stage = client'[c].stage
        /\ Session'[c].handling = client'[c].access
    BY DEF Session
  <2>2. CASE Session' = Session
    BY <2>1, <2>2 DEF Handled
  <2>3. ASSUME NEW d \in Clients, NEW s, Abstract!Becomes(d, s)
        PROVE  Session'[c] = IF c = d THEN s ELSE Session[c]
    BY <2>3 DEF Abstract!Becomes, Session
  <2>4. CASE Abstract!Next
    <3>1. PICK d \in Clients :
            \/ Abstract!Connect(d) \/ Abstract!Send(d) \/ Abstract!End(d)
            \/ Abstract!BeginWhole(d) \/ Abstract!BeginBroken(d)
            \/ Abstract!Finish(d) \/ Abstract!Depart(d)
      BY <2>4 DEF Abstract!Next, Abstract!BreakOff
    <3>2. Session[d] = Seen(client[d])
      BY DEF Session, Seen
    <3>3. CASE Abstract!Connect(d)
      BY <2>1, <2>3, <3>2, <3>3 DEF Abstract!Connect, Handled, Seen
    <3>4. CASE Abstract!Send(d)
      BY <2>1, <2>3, <3>2, <3>4 DEF Abstract!Send, Handled, Seen
    <3>5. CASE Abstract!End(d)
      BY <2>1, <2>3, <3>2, <3>5 DEF Abstract!End, Handled, Seen
    <3>6. CASE Abstract!BeginWhole(d) \/ Abstract!BeginBroken(d)
      <4>. DEFINE s == [Session[d] EXCEPT !.handling = "whole",
                                          !.handled = @ + 1]
                  b == [Session[d] EXCEPT !.handling = "broken"]
      <4>1. Session[d].handling = Nobody
        BY <3>6 DEF Abstract!BeginWhole, Abstract!BeginBroken, Abstract!Idle
      <4>2. s.stage = Session[d].stage /\ b.stage = Session[d].stage
        BY <3>2 DEF Seen
      <4>3. Abstract!Becomes(d, s) \/ Abstract!Becomes(d, b)
        BY <3>6 DEF Abstract!BeginWhole, Abstract!BeginBroken
      <4>. HIDE DEF s, b
      <4> QED
        BY <2>1, <2>3, <4>1, <4>2, <4>3 DEF Handled
    <3>7. CASE Abstract!Finish(d)
      BY <2>1, <2>3, <3>2, <3>7 DEF Abstract!Finish, Handled, Seen
    <3>8. CASE Abstract!Depart(d)
      BY <2>1, <2>3, <3>2, <3>8
         DEF Abstract!Depart, Abstract!Idle, Handled, Seen
    <3> QED
      BY <3>1, <3>3, <3>4, <3>5, <3>6, <3>7, <3>8
  <2> QED
    BY <2>2, <2>4 DEF Simulated
<1> QED
  BY <1>1, InitSession, SessionStep, ServerInvAlways, PTL
     DEF Spec, HandlersInOrder

=============================================================================
