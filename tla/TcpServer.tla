------------------------------- MODULE TcpServer -------------------------------
(***************************************************************************)
(* TcpServer (TcpServer.cpp, TcpServerClient.cpp): the owner that starts   *)
(* and stops it, the thread that accepts connections, the thread that      *)
(* polls the clients for data, and the detached threads the latter starts  *)
(* for every message and every departure.                                  *)
(*                                                                         *)
(* They share the list of clients.  A node of it holds a unique_ptr; the   *)
(* poll and the owner keep iterators into the list, the detached threads   *)
(* an iterator or a reference to the unique_ptr.  A step through one of    *)
(* them that finds the node erased or the pointer null is undefined: it    *)
(* ends the program here.                                                  *)
(***************************************************************************)
EXTENDS Naturals

CONSTANTS
    Clients,   \* the connections that may be made, each once
    Outgoing,  \* those of them that the owner makes, with connectTo
    Builds,    \* "win" and "nix": the expressions of WIN() and of NIX()
    MaxPieces  \* bounds the pieces of messages a peer sends

ASSUME ConstantsAssumption ==
    /\ Outgoing \subseteq Clients
    /\ Builds \subseteq {"win", "nix"}
    /\ MaxPieces \in [Clients -> Nat]

VARIABLES
    build,    \* which of the two was compiled
    status,   \* _status
    pc,       \* where the owner and the two threads of the server are
    adding,   \* who adds which client to the list
    mutex,    \* who holds client_mutex
    walk,     \* the poll's iterator, and the nodes it has been at
    client,   \* the connections, see NewClient
    crashed   \* has the program run into undefined behaviour?

vars == <<build, status, pc, adding, mutex, walk, client, crashed>>

Nobody == "nobody"
Adders == {"owner", "acceptor"}
Messages == {"whole", "broken"}
NewWalk == [at |-> Nobody, visited |-> {}]

(* A peer sends the size of a message and its data, and each may come in   *)
(* two pieces: half of it is all that recv need ever find.                 *)
Half == 2
Message == Half + Half

NewClient ==
    [node |-> "none",        \* its node: none yet, made for adding, in the
                             \* list with the client or with null, erased
     status |-> "connected", \* Client::_status
     access |-> Nobody,      \* the message whose thread holds access_mtx
     waiting |-> [m \in Messages |-> 0],
                             \* threads of messages that wait for it
     leaving |-> "no",       \* where the thread of its departure is
     again |-> FALSE,        \* was another one started for the departure?
     sent |-> 0,             \* pieces of messages its peer sent
     read |-> 0,             \* those of them read, or lost
     gone |-> FALSE,         \* has the connection ended, or failed?
     stage |-> "new",        \* for the properties only: which handler of a
                             \* connection and a departure was called last,
     handled |-> 0]          \* and for how many whole messages theirs was

(* No server, no thread, no client.                                        *)
Init ==
    /\ build \in Builds
    /\ status = "close"
    /\ pc = [owner |-> "idle", acceptor |-> "off", poll |-> "off"]
    /\ adding = [w \in Adders |-> Nobody]
    /\ mutex = Nobody
    /\ walk = NewWalk
    /\ client = [c \in Clients |-> NewClient]
    /\ crashed = FALSE

(* The process ends, and with it its threads and all they knew.            *)
Crash ==
    /\ crashed' = TRUE
    /\ status' = "close"
    /\ pc' = [owner |-> "off", acceptor |-> "off", poll |-> "off"]
    /\ adding' = [w \in Adders |-> Nobody]
    /\ mutex' = Nobody
    /\ walk' = NewWalk
    /\ client' = [c \in Clients |-> NewClient]
    /\ UNCHANGED build

-----------------------------------------------------------------------------
(* start: it may fail at the socket, at bind or at listen.  It stops a     *)
(* server that is up first, which Stop stands for.                         *)
Start ==
    /\ pc.owner = "idle"
    /\ status # "up"
    /\ \/ /\ status' = "up"
          /\ pc' = [pc EXCEPT !.acceptor = "loop", !.poll = "sleep"]
       \/ /\ status' = "err"
          /\ UNCHANGED pc
    /\ UNCHANGED <<build, adding, mutex, walk, client, crashed>>

(* stop closes the socket and waits, in joinLoop, for the acceptor and     *)
(* then for the poll, whose loop has no end.  An owner that calls joinLoop *)
(* alone is one that does nothing more.                                    *)
Stop ==
    /\ pc.owner = "idle"
    /\ status = "up"
    /\ status' = "close"
    /\ pc' = [pc EXCEPT !.owner = "joinAcceptor"]
    /\ UNCHANGED <<build, adding, mutex, walk, client, crashed>>

AcceptorJoined ==
    /\ pc.owner = "joinAcceptor"
    /\ pc.acceptor = "ended"
    /\ pc' = [pc EXCEPT !.owner = "joinPoll"]
    /\ UNCHANGED <<build, status, adding, mutex, walk, client, crashed>>

(* A connection is made and its handler called, before anyone else can see *)
(* the client.  A socket whose keep-alive fails is closed and added all    *)
(* the same: that is a connection that fails at once.                      *)
Connected(w, c) ==
    /\ client[c].node = "none"
    /\ client' = [client EXCEPT ![c].node = "made", ![c].stage = "connected"]
    /\ adding' = [adding EXCEPT ![w] = c]
    /\ pc' = [pc EXCEPT ![w] = "add"]
    /\ UNCHANGED <<build, status, mutex, walk, crashed>>

ConnectTo(c) ==
    /\ c \in Outgoing
    /\ pc.owner = "idle"
    /\ Connected("owner", c)

Accept(c) ==
    /\ c \notin Outgoing
    /\ pc.acceptor = "accept"
    /\ status = "up"
    /\ Connected("acceptor", c)

(* emplace_back, with client_mutex.                                        *)
Add(w) ==
    /\ pc[w] = "add"
    /\ mutex = Nobody
    /\ client' = [client EXCEPT ![adding[w]].node = "client"]
    /\ adding' = [adding EXCEPT ![w] = Nobody]
    /\ pc' = [pc EXCEPT ![w] = IF w = "owner" THEN "idle" ELSE "loop"]
    /\ UNCHANGED <<build, status, mutex, walk, crashed>>

(* The loop of the acceptor.  Closing the server's socket ends a blocked   *)
(* accept on Windows only.                                                 *)
NeverClosed == FALSE
Closed == status # "up"

AcceptLoop ==
    /\ \/ /\ pc.acceptor = "loop"
          /\ pc' = [pc EXCEPT !.acceptor = IF Closed THEN "ended" ELSE "accept"]
       \/ /\ pc.acceptor = "accept"
          /\ build = "win" /\ status # "up"
          /\ pc' = [pc EXCEPT !.acceptor = "loop"]
    /\ UNCHANGED <<build, status, adding, mutex, walk, client, crashed>>

(* Client::disconnect closes the socket; what was not read is lost.        *)
Disconnected(r) ==
    [r EXCEPT !.status = "disconnected", !.gone = TRUE, !.read = r.sent]

(* disconnectBy and disconnectAll come to a client on their walk, without  *)
(* client_mutex and without a look at the pointer, as do the two sendData. *)
DisconnectBy(c) ==
    /\ pc.owner = "idle"
    /\ \/ client[c].node = "null" /\ Crash
       \/ /\ client[c].node = "client"
          /\ client' = [client EXCEPT ![c] = Disconnected(@)]
          /\ UNCHANGED <<build, status, pc, adding, mutex, walk, crashed>>

-----------------------------------------------------------------------------
(* The poll walks the list, holding client_mutex.                          *)
BeginPass ==
    /\ pc.poll = "sleep"
    /\ mutex = Nobody
    /\ mutex' = "poll"
    /\ pc' = [pc EXCEPT !.poll = "walk"]
    /\ UNCHANGED <<build, status, adding, walk, client, crashed>>

(* ++it, the test for the end of the list, and if(client).                 *)
OffTheNode == walk.at # Nobody /\ client[walk.at].node = "erased"
Ahead == {c \in Clients : client[c].node \in {"client", "null"}} \ walk.visited

Look ==
    /\ pc.poll = "walk"
    /\ \/ OffTheNode /\ Crash
       \/ /\ ~OffTheNode
          /\ \E c \in Ahead :
               /\ walk' = [at |-> c, visited |-> walk.visited \cup {c}]
               /\ pc' = IF client[c].node = "client"
                        THEN [pc EXCEPT !.poll = "visit"] ELSE pc
          /\ UNCHANGED <<build, status, adding, mutex, client, crashed>>

KeepLocked == UNCHANGED mutex
Unlock == mutex' = Nobody

EndPass ==
    /\ pc.poll = "walk"
    /\ ~OffTheNode
    /\ Ahead = {}
    /\ walk' = NewWalk
    /\ Unlock
    /\ pc' = [pc EXCEPT !.poll = "sleep"]
    /\ UNCHANGED <<build, status, adding, client, crashed>>

(* A thread is started for every visit of a disconnected client that is    *)
(* still in the list; "again" stands for the second and every later one.   *)
NoDeparture(r) == r
StartDeparture(r) ==
    IF r.leaving = "no" THEN [r EXCEPT !.leaving = "started"]
                        ELSE [r EXCEPT !.again = TRUE]

(* recv takes what has come of what it is asked for.                       *)
Unread(r) == r.sent - r.read
Taken(r, wanted) == IF Unread(r) < wanted THEN Unread(r) ELSE wanted

(* loadData.  The size of a message is read if there is any of it; a       *)
(* connection that has ended disconnects the client; a disconnected client *)
(* departs.  What is read is the size of a message only at the beginning   *)
(* of one, and only all of it; else it is any number, and 0 is no message. *)
ReadSize(c) ==
    LET r == client[c] IN
    /\ r.status = "connected"
    /\ Unread(r) > 0
    /\ client' = [client EXCEPT ![c].read = @ + Taken(r, Half)]
    /\ IF r.read % Message = 0 /\ Unread(r) >= Half
       THEN pc' = [pc EXCEPT !.poll = "recv"]
       ELSE \E p \in {"recvLost", "walk"} : pc' = [pc EXCEPT !.poll = p]

NothingToRead(c) ==
    /\ Unread(client[c]) = 0
    /\ ~client[c].gone
    /\ pc' = [pc EXCEPT !.poll = "walk"]
    /\ UNCHANGED client

Depart(c) ==
    /\ client[c].gone
    /\ client' = [client EXCEPT ![c] = StartDeparture(Disconnected(@))]
    /\ pc' = [pc EXCEPT !.poll = "walk"]

Load ==
    /\ pc.poll = "visit"
    /\ \/ client[walk.at].node # "client" /\ Crash
       \/ /\ client[walk.at].node = "client"
          /\ ReadSize(walk.at) \/ NothingToRead(walk.at) \/ Depart(walk.at)
          /\ UNCHANGED <<build, status, adding, mutex, walk, crashed>>

(* Then the data, and a thread that handles the message, whatever came of *)
(* it.  On POSIX recv waits until there is something, on Windows not even  *)
(* for that: the socket was made non-blocking for the size and still is.   *)
SomethingCame(r) == Unread(r) > 0 \/ r.gone
MayReturn(r) == build = "win" \/ SomethingCame(r)

Recv ==
    /\ pc.poll \in {"recv", "recvLost"}
    /\ LET r == client[walk.at]
           whole == pc.poll = "recv" /\ Unread(r) >= Half
       IN /\ MayReturn(r)
          /\ \E n \in IF pc.poll = "recv" THEN {Taken(r, Half)}
                                         ELSE 0 .. Unread(r) :
               client' = [client EXCEPT
                  ![walk.at].waiting[IF whole THEN "whole" ELSE "broken"] =
                      @ + 1,
                  ![walk.at].read = @ + n]
    /\ pc' = [pc EXCEPT !.poll = "walk"]
    /\ UNCHANGED <<build, status, adding, mutex, walk, crashed>>

-----------------------------------------------------------------------------
(* The thread of a message: access_mtx, the handler.                       *)
DataLock(c, m) ==
    /\ client[c].waiting[m] > 0
    /\ \/ client[c].node # "client" /\ Crash
       \/ /\ client[c].node = "client"
          /\ client[c].access = Nobody
          /\ client' = [client EXCEPT ![c].access = m,
                                      ![c].waiting[m] = @ - 1,
                ![c].handled = IF m = "whole" THEN @ + 1 ELSE @]
          /\ UNCHANGED <<build, status, pc, adding, mutex, walk, crashed>>

DataHandled(c) ==
    /\ client[c].access # Nobody
    /\ client' = [client EXCEPT ![c].access = Nobody]
    /\ UNCHANGED <<build, status, pc, adding, mutex, walk, crashed>>

(* The thread of a departure takes the client out of its pointer, calls    *)
(* the handler, erases the node and frees the client.                      *)
AnyTime(r) == TRUE
AccessFree(r) == r.access = Nobody

Release(c) ==
    /\ client[c].leaving = "started"
    /\ AccessFree(client[c])
    /\ client' = [client EXCEPT ![c].node = "null", ![c].leaving = "released"]
    /\ UNCHANGED <<build, status, pc, adding, mutex, walk, crashed>>

DisconnectHndl(c) ==
    /\ client[c].leaving = "released"
    /\ client' = [client EXCEPT ![c].leaving = "handled",
                                ![c].stage = "departed"]
    /\ UNCHANGED <<build, status, pc, adding, mutex, walk, crashed>>

(* It does not take client_mutex: another thread may be changing the list, *)
(* or reading it.                                                          *)
Races(c) ==
    \/ mutex # Nobody
    \/ \E w \in Adders : pc[w] = "add"
    \/ \E d \in Clients \ {c} : client[d].leaving = "handled"

Erase(c) ==
    /\ client[c].leaving = "handled"
    /\ \/ Races(c) /\ Crash
       \/ /\ client' = [client EXCEPT ![c].node = "erased",
                                      ![c].leaving = "freed"]
          /\ UNCHANGED <<build, status, pc, adding, mutex, walk, crashed>>

(* Every other thread of the departure finds the pointer null.             *)
LeaveAgain(c) == client[c].again /\ client[c].node # "client" /\ Crash

-----------------------------------------------------------------------------
(* The peer sends pieces of messages, or the connection ends.              *)
Send(c) ==
    /\ client[c].node \in {"made", "client"}
    /\ ~client[c].gone
    /\ client[c].sent < MaxPieces[c]
    /\ client' = [client EXCEPT ![c].sent = @ + 1]
    /\ UNCHANGED <<build, status, pc, adding, mutex, walk, crashed>>

Leave(c) ==
    /\ client[c].node \in {"made", "client"}
    /\ ~client[c].gone
    /\ client' = [client EXCEPT ![c].gone = TRUE]
    /\ UNCHANGED <<build, status, pc, adding, mutex, walk, crashed>>

-----------------------------------------------------------------------------
Poll == BeginPass \/ Look \/ Load \/ Recv \/ EndPass

Detached(c) ==
    \/ (\E m \in Messages : DataLock(c, m)) \/ DataHandled(c)
    \/ Release(c) \/ DisconnectHndl(c) \/ Erase(c) \/ LeaveAgain(c)

Next ==
    /\ ~crashed
    /\ \/ Start \/ Stop \/ AcceptorJoined \/ AcceptLoop \/ Poll
       \/ \E w \in Adders : Add(w)
       \/ \E c \in Clients :
            \/ ConnectTo(c) \/ Accept(c) \/ DisconnectBy(c)
            \/ Detached(c) \/ Send(c) \/ Leave(c)

Spec == Init /\ [][Next]_vars

(* Every thread runs when it can, and one that waits for client_mutex gets *)
(* it in the 50 ms of a sleep of the poll.  A peer on which the poll waits *)
(* sends something or leaves: on POSIX nothing else ends the wait, and a   *)
(* stream out of step may be waited for between messages, too.  Nothing is *)
(* assumed of new connections and of the owner.                            *)
WaitedFor(c) ==
    /\ pc.poll \in {"recv", "recvLost"}
    /\ walk.at = c
    /\ ~MayReturn(client[c])

FairSpec ==
    /\ Spec
    /\ WF_vars(~crashed /\ (AcceptLoop \/ AcceptorJoined))
    /\ WF_vars(~crashed /\ Poll)
    /\ SF_vars(~crashed /\ Add("acceptor"))
    /\ \A c \in Clients :
         /\ WF_vars(~crashed /\ Detached(c))
         /\ WF_vars(~crashed /\ WaitedFor(c) /\ (Send(c) \/ Leave(c)))
-----------------------------------------------------------------------------
ClientType ==
    [node : {"none", "made", "client", "null", "erased"},
     status : {"connected", "disconnected"},
     access : Messages \cup {Nobody},
     waiting : [Messages -> Nat],
     leaving : {"no", "started", "released", "handled", "freed"},
     again : BOOLEAN,
     sent : Nat,
     read : Nat,
     gone : BOOLEAN,
     stage : {"new", "connected", "departed"},
     handled : Nat]

TypeOK ==
    /\ build \in Builds
    /\ status \in {"up", "close", "err"}
    /\ pc \in [owner : {"idle", "add", "joinAcceptor", "joinPoll", "off"},
               acceptor : {"off", "loop", "accept", "add", "ended"},
               poll : {"off", "sleep", "walk", "visit", "recv", "recvLost"}]
    /\ adding \in [Adders -> Clients \cup {Nobody}]
    /\ mutex = IF pc.poll \in {"off", "sleep"} THEN Nobody ELSE "poll"
    /\ walk \in [at : Clients \cup {Nobody}, visited : SUBSET Clients]
    /\ client \in [Clients -> ClientType]
    /\ crashed \in BOOLEAN

(* As long as the program lives, the handlers of a client are called in    *)
(* the order their author relies on: the connection, then messages, then   *)
(* one departure, and none of a message during the departure or after it.  *)
(* It is access_mtx and the null pointer that keep this order.             *)
Handled(c) == client[c].access # Nobody /\ client'[c].access = Nobody

HandlersInOrder ==
    [][~crashed' => \A c \in Clients :
         /\ Handled(c) => /\ client[c].stage = "connected"
                          /\ client'[c].stage = "connected"
         /\ client'[c].stage # client[c].stage =>
              <<client[c].stage, client'[c].stage>> \in
                  {<<"new", "connected">>, <<"connected", "departed">>}]_vars

(* It implements Sessions: that order follows, and that messages are       *)
(* handled one at a time, no more of them whole than were sent, and the    *)
(* departure only of a connection that has ended.  A session is what the   *)
(* handlers see of a connection.                                           *)
Session == [c \in Clients |->
    [stage |-> client[c].stage, handling |-> client[c].access,
     sent |-> client[c].sent \div Message, handled |-> client[c].handled,
     ended |-> client[c].gone]]

Abstract == INSTANCE Sessions WITH session <- Session, over <- crashed

ImplementsSessions == Abstract!Spec

(* A client in the list whose connection has ended is erased from the list *)
(* and freed, unless the program crashes first.                            *)
DepartureIsHandled ==
    \A c \in Clients :
        client[c].node = "client" /\ client[c].gone /\ pc.poll # "off" ~>
            client[c].leaving = "freed" \/ crashed

(* On Windows stop gets past the first of the two threads it waits for,    *)
(* however many clients connect meanwhile.                                 *)
AcceptorEnds ==
    build = "win" /\ pc.owner = "joinAcceptor" ~>
        pc.owner = "joinPoll" \/ crashed
=============================================================================
