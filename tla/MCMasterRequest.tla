--------------------------- MODULE MCMasterRequest ---------------------------
(***************************************************************************)
(* Model-checking instances of MasterRequest, and what the comments of     *)
(* ModBus.cpp say of it that the code does not keep in every case.         *)
(***************************************************************************)
EXTENDS MasterRequest

(* ModBus.cpp:705, of the branch that reports MB_ERROR_UART_RECIEVE: the   *)
(* interrupt did not happen, the semaphore was not obtained.  So a request *)
(* reports a reception exactly when it took the token of one.              *)
TimeoutIsReported ==
    \A b \in Buses : pc[b] = "return" =>
        /\ MB_ERR[b] = "UART_RECIEVE" => got[b] = "osErrorTimeout"
        /\ MB_ERR[b] = "NO" => got[b] = "osOK"
=============================================================================
