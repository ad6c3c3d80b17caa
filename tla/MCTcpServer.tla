----------------------------- MODULE MCTcpServer ------------------------------
(***************************************************************************)
(* Model-checking instances of TcpServer: a client whose peer sends a      *)
(* message, and one whose peer sends nothing.                              *)
(***************************************************************************)
EXTENDS TcpServer

MCMaxPieces == [c \in Clients |-> IF c = "first" THEN 4 ELSE 0]

(* TcpServer.cpp:315-327: on a client's disconnection its handling is      *)
(* started in a separate thread, which calls the handler, erases the node  *)
(* and deletes the client: one thread for one disconnection.               *)
OneThreadPerDeparture == \A c \in Clients : ~client[c].again
=============================================================================
