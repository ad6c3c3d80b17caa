----------------------------- MODULE Transaction -----------------------------
(***************************************************************************)
(* What the callers of Master_Request rely on: a request to a sensor ends, *)
(* with the data of that sensor or with an error, before the next one      *)
(* starts.                                                                 *)
(***************************************************************************)
CONSTANTS Buses, Sensors, None

VARIABLES
    phase,   \* "busy" while a request is in progress on the bus
    asked,   \* the sensor it is addressed to
    answer   \* whose data it brought, None after an error

Init ==
    /\ phase = [b \in Buses |-> "idle"]
    /\ asked \in [Buses -> Sensors]
    /\ answer = [b \in Buses |-> None]

Ask(b, s) ==
    /\ phase[b] = "idle"
    /\ phase' = [phase EXCEPT ![b] = "busy"]
    /\ asked' = [asked EXCEPT ![b] = s]
    /\ answer' = [answer EXCEPT ![b] = None]

Succeed(b) ==
    /\ phase[b] = "busy"
    /\ phase' = [phase EXCEPT ![b] = "idle"]
    /\ answer' = [answer EXCEPT ![b] = asked[b]]
    /\ UNCHANGED asked

Fail(b) ==
    /\ phase[b] = "busy"
    /\ phase' = [phase EXCEPT ![b] = "idle"]
    /\ UNCHANGED <<asked, answer>>

Next == \E b \in Buses : (\E s \in Sensors : Ask(b, s)) \/ Succeed(b) \/ Fail(b)

Spec == Init /\ [][Next]_<<phase, asked, answer>>

FairSpec ==
    Spec /\ \A b \in Buses : WF_<<phase, asked, answer>>(Succeed(b) \/ Fail(b))
=============================================================================
