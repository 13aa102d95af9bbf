----------------------------- MODULE JobStatus ------------------------------
(***************************************************************************)
(* What a client that polls /status/{id} may see of one job after another:  *)
(* nothing yet, then RUNNING, then COMPLETE or Error.  The last two are      *)
(* final.  A job may skip RUNNING, since a failed write of the status is     *)
(* logged and forgotten.                                                    *)
(*                                                                         *)
(* JobExecution.tla is shown to implement this specification.               *)
(***************************************************************************)
CONSTANT Job

VARIABLE status

Final == {"COMPLETE", "Error"}

Init == status = [j \in Job |-> "unknown"]

Run(j) ==
    /\ status[j] = "unknown"
    /\ status' = [status EXCEPT ![j] = "RUNNING"]

End(j) ==
    /\ status[j] \notin Final
    /\ \E s \in Final : status' = [status EXCEPT ![j] = s]

Next == \E j \in Job : Run(j) \/ End(j)

Spec == Init /\ [][Next]_status
=============================================================================
