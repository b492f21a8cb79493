---------------------------- MODULE BatchOutcome ----------------------------
(***************************************************************************)
(* The outcome of one batch: BatchCompletionCallBack, over a backend with  *)
(* a retrieve callback.  The callback thread and _register_outcome write   *)
(* result and status one after the other; readers read them one after the  *)
(* other, without a lock.                                                  *)
(***************************************************************************)
EXTENDS Integers, Sequences

CONSTANTS Readers,    \* threads that call get_result
          Registrars  \* threads that call _register_outcome, once each

VARIABLES
  job,       \* "running", or the outcome of the task: "value" or "exception"
  status,    \* "Pending", "Done" or "Error"
  result,    \* "unset", "value", "exception" or "timeout"
  callback,  \* assignments of _retrieve_result that are done
  registrar, \* _register_outcome: "idle", "tested", "result", "finished"
  reader     \* get_result: "idle", "tested", or what it returned or raised

vars == <<job, status, result, callback, registrar, reader>>

Outcomes == {"value", "exception"}

Init ==
    /\ job = "running" /\ status = "Pending" /\ result = "unset"
    /\ callback = 0 /\ registrar = [w \in Registrars |-> "idle"]
    /\ reader = [r \in Readers |-> "idle"]

\* The backend runs the task and calls the callback once.
TaskEnds ==
    /\ job = "running" /\ job' \in Outcomes
    /\ UNCHANGED <<status, result, callback, registrar, reader>>

StatusOf(outcome) == IF outcome = "value" THEN "Done" ELSE "Error"

\* _retrieve_result: the order of its two assignments, and one of them.
StatusFirst == <<"status", "result">>   \* mutant

Assignments == <<"result", "status">>

RetrieveResult ==
    /\ job # "running" /\ callback < 2
    /\ callback' = callback + 1
    /\ \/ Assignments[callback'] = "result" /\ result' = job /\ UNCHANGED status
       \/ Assignments[callback'] = "status" /\ status' = StatusOf(job) /\ UNCHANGED result
    /\ UNCHANGED <<job, registrar, reader>>

\* _register_outcome(TimeoutError): nothing when the status is set.
RegisterTest(w) ==
    /\ registrar[w] = "idle"
    /\ registrar' = [registrar EXCEPT ![w] =
                        IF status = "Pending" THEN "tested" ELSE "finished"]
    /\ UNCHANGED <<job, status, result, callback, reader>>

RegisterResult(w) ==
    /\ registrar[w] = "tested"
    /\ result' = "timeout" /\ registrar' = [registrar EXCEPT ![w] = "result"]
    /\ UNCHANGED <<job, status, callback, reader>>

RegisterStatus(w) ==
    /\ registrar[w] = "result"
    /\ status' = "Error" /\ registrar' = [registrar EXCEPT ![w] = "finished"]
    /\ UNCHANGED <<job, result, callback, reader>>

\* get_result: the status of get_status, whatever the timeout, and then the
\* result, which it returns also when it is an exception.
GetStatus(r) ==
    /\ reader[r] \in {"idle", "TimeoutError"}
    /\ reader' = [reader EXCEPT ![r] = IF status = "Pending" THEN "TimeoutError" ELSE "tested"]
    /\ UNCHANGED <<job, status, result, callback, registrar>>

GetResult(r) ==
    /\ reader[r] = "tested"
    /\ reader' = [reader EXCEPT ![r] = result]
    /\ UNCHANGED <<job, status, result, callback, registrar>>

Next == \/ TaskEnds \/ RetrieveResult
        \/ \E w \in Registrars : RegisterTest(w) \/ RegisterResult(w) \/ RegisterStatus(w)
        \/ \E r \in Readers : GetStatus(r) \/ GetResult(r)

Spec == Init /\ [][Next]_vars

-----------------------------------------------------------------------------
(***************************************************************************)
(* get_result "is only called after the result has been registered": a     *)
(* reader that sees the status set also finds a result, in every           *)
(* interleaving of its two reads with the writes of both kinds of writers. *)
(***************************************************************************)
ReadersFindResult == \A r \in Readers : reader[r] # "unset"

(***************************************************************************)
(* "This method can be called only once, future calls will be ignored": an *)
(* outcome that is set is not replaced by another one.                     *)
(***************************************************************************)
OutcomeFixed == [][status # "Pending" => UNCHANGED <<status, result>>]_vars
=============================================================================
