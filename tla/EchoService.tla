----------------------------- MODULE EchoService -----------------------------
(***************************************************************************)
(* What the peers of an echo server rely on: a connection is made once and *)
(* ends once; while it lasts, what comes back is what was sent, from the   *)
(* first byte on, each once, and what has come back is never taken back.   *)
(* A byte is named by its number.                                          *)
(***************************************************************************)
EXTENDS Naturals, Sequences

CONSTANT Clients

VARIABLES
    state,     \* of a connection: not made yet, open, ended
    said,      \* how many bytes its peer has sent
    returned   \* the bytes it got back

Init ==
    /\ state = [c \in Clients |-> "none"]
    /\ said = [c \in Clients |-> 0]
    /\ returned = [c \in Clients |-> <<>>]

Connect(c) ==
    /\ state[c] = "none"
    /\ state' = [state EXCEPT ![c] = "open"]
    /\ UNCHANGED <<said, returned>>

Say(c) ==
    /\ state[c] = "open"
    /\ said' = [said EXCEPT ![c] = @ + 1]
    /\ UNCHANGED <<state, returned>>

Return(c) ==
    /\ state[c] = "open"
    /\ \E n \in Len(returned[c]) + 1 .. said[c] :
         returned' = [returned EXCEPT ![c] = [i \in 1 .. n |-> i]]
    /\ UNCHANGED <<state, said>>

Close(c) ==
    /\ state[c] = "open"
    /\ state' = [state EXCEPT ![c] = "closed"]
    /\ said' = [said EXCEPT ![c] = 0]
    /\ returned' = [returned EXCEPT ![c] = <<>>]

(* The server may come to grief, and all its connections with it.          *)
Fail ==
    /\ state' = [c \in Clients |-> "closed"]
    /\ said' = [c \in Clients |-> 0]
    /\ returned' = [c \in Clients |-> <<>>]

Next == Fail \/ \E c \in Clients : Connect(c) \/ Say(c) \/ Return(c) \/ Close(c)

Spec == Init /\ [][Next]_<<state, said, returned>>
=============================================================================
