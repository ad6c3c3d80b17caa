------------------------------- MODULE Sessions -------------------------------
(***************************************************************************)
(* What the author of the handlers of a TcpServer relies on (TcpServer.h,  *)
(* the three handler types): of each connection there is one session.  It  *)
(* begins with the handler of the connection, goes on with messages, one   *)
(* at a time and each sent by the peer before, and ends with the handler   *)
(* of the departure, once the connection has ended and no message is being *)
(* handled.  The program may break off all of them at once.                *)
(***************************************************************************)
EXTENDS Naturals

CONSTANTS
    Clients,
    Nobody   \* the message that is handled while none is

VARIABLES
    session, \* of each connection, see NewSession
    over     \* has the program broken off?

NewSession ==
    [stage |-> "new",    \* then "connected", then "departed"
     handling |-> Nobody,
     sent |-> 0,         \* messages the peer has sent
     handled |-> 0,      \* those of them a handler was called for
     ended |-> FALSE]    \* has the connection ended?

Init == session = [c \in Clients |-> NewSession] /\ over = FALSE

Becomes(c, s) == session' = [session EXCEPT ![c] = s] /\ over' = FALSE

Connect(c) ==
    /\ session[c].stage = "new"
    /\ Becomes(c, [session[c] EXCEPT !.stage = "connected"])

(* The peer, whose connection may end in the middle of a message.          *)
Send(c) ==
    /\ session[c].stage = "connected" /\ ~session[c].ended
    /\ Becomes(c, [session[c] EXCEPT !.sent = @ + 1])

End(c) ==
    /\ session[c].stage = "connected"
    /\ Becomes(c, [session[c] EXCEPT !.ended = TRUE])

Idle(c) == session[c].stage = "connected" /\ session[c].handling = Nobody

(* A whole message is one of those sent; a broken one is what is left of   *)
(* one, or what is taken for one.                                          *)
BeginWhole(c) ==
    /\ Idle(c) /\ session[c].handled < session[c].sent
    /\ Becomes(c, [session[c] EXCEPT !.handling = "whole", !.handled = @ + 1])

BeginBroken(c) ==
    /\ Idle(c)
    /\ Becomes(c, [session[c] EXCEPT !.handling = "broken"])

Finish(c) ==
    /\ session[c].stage = "connected" /\ session[c].handling # Nobody
    /\ Becomes(c, [session[c] EXCEPT !.handling = Nobody])

Depart(c) ==
    /\ Idle(c) /\ session[c].ended
    /\ Becomes(c, [session[c] EXCEPT !.stage = "departed"])

BreakOff == over' = TRUE /\ session' = [c \in Clients |-> NewSession]

Next ==
    /\ ~over
    /\ \/ BreakOff
       \/ \E c \in Clients :
            \/ Connect(c) \/ Send(c) \/ End(c) \/ BeginWhole(c)
            \/ BeginBroken(c) \/ Finish(c) \/ Depart(c)

Spec == Init /\ [][Next]_<<session, over>>
===============================================================================
