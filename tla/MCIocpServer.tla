----------------------------- MODULE MCIocpServer ----------------------------
(***************************************************************************)
(* Model-checking instances of IocpServer: a client whose peer sends bytes *)
(* and others whose peers send nothing; what a comment of the code says of *)
(* the list of contexts, and the code does not keep in every case.         *)
(***************************************************************************)
EXTENDS IocpServer

MCMaxBytes == [c \in Clients |-> IF c = "talker" THEN 2 ELSE 0]

(* The life of a server with three clients is too long to be followed from *)
(* its start: it is taken up where three have connected, in the first run, *)
(* and each waits for its peer.  From the start, only the third connects.  *)
(* The first may close its connection, the third may close it or reset it; *)
(* g_bVerbose, which adds a use of a context that may be freed, is off.    *)
MCQueue == <<"first", "second", "third">>

ThreeConnected ==
    LET at(i) == IF i \in 1 .. 3 THEN MCQueue[i] ELSE Null
    IN /\ g = [Verbose |-> FALSE, EndServer |-> FALSE, Restart |-> FALSE,
               IOCP |-> TRUE, sdListen |-> 1, CtxtList |-> "third",
               ThreadHandles |-> [w \in Workers |-> 1]]
       /\ main = [pc |-> "accept", run |-> 1, sdAccept |-> "third",
                  at |-> Null, next |-> Null, late |-> FALSE, left |-> FALSE]
       /\ kernel = [ports |-> {1}, nulls |-> [r \in Runs |-> 0],
                    listening |-> {1}]
       /\ worker = [t \in Threads |->
            IF t[2] = 1 THEN [NewWorker EXCEPT !.pc = "wait"] ELSE NewWorker]
       /\ client = [c \in Clients |->
            LET i == CHOOSE i \in 1 .. 3 : MCQueue[i] = c
            IN [NewClient EXCEPT !.sock = "open", !.ctx = "live", !.port = 1,
                                 !.back = at(i - 1), !.forward = at(i + 1),
                                 !.io = "pending"]]
       /\ ctrl = [pc |-> "idle", sock |-> Invalid, events |-> 0, breaks |-> 0]
       /\ crashed = FALSE

OnlyThird ==
    \A c \in Clients \ {"third"} :
        /\ client[c].sock = "none" => client'[c].sock = "none"
        /\ client'[c].peer \in IF c = "first" THEN {"up", "closed"} ELSE {"up"}

MCInit == (Init /\ ~g.Verbose) \/ ThreeConnected
MCFairSpec == MCInit /\ [][Next /\ OnlyThird]_vars /\ Fairness

(* IocpServer.Cpp:102-105: the list of contexts is maintained so that the  *)
(* cleanup can close all sockets and free all resources.  So, whenever no  *)
(* thread is at the list, every context of it is alive and every context   *)
(* that is alive is on it.                                                 *)
Listed(c) ==
    \/ c = g.CtxtList
    \/ \E d \in Clients : client[d].ctx = "live" /\ client[d].back = c

CleanupReachesAll ==
    CriticalSectionFree /\ ~crashed =>
        \A c \in Clients : client[c].ctx = "live" <=> Listed(c)
=============================================================================
