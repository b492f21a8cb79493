---------------------------- MODULE ParallelCall ----------------------------
(***************************************************************************)
(* One joblib.Parallel object with more than one worker: the thread that   *)
(* calls it and consumes its generators, the workers of the backend, and   *)
(* the threads that run BatchCompletionCallBack when a batch ends.         *)
(*                                                                         *)
(* The user may call the object several times (MaxCalls).  A call owns an  *)
(* iterable of at most MaxTasks tasks; its generator is a coroutine of the *)
(* user's thread, so at most one of them runs at a time (running).         *)
(*                                                                         *)
(* Code that is not in the repository at this commit is modelled from its  *)
(* uses: dispatch_one_batch (a docstring without a body; its other reading,*)
(* the body as it stands, is DispatchImplemented = FALSE), backend.retrieve*)
(* and apply_async, _abort and _terminate_and_reset.                       *)
(***************************************************************************)
EXTENDS Integers, FiniteSets, SequencesExt

CONSTANTS MaxCalls,              \* bound: calls made on the object
          MaxTasks,              \* bound: tasks of one call
          ReturnAs,              \* the return_as argument
          SupportsRetrieveCallback, \* the backend runs callbacks with results
          PreDispatchAll,        \* pre_dispatch == 'all'
          CallbackThreads,       \* callbacks the backend runs at a time
          MayFail,               \* tasks may raise
          MayOverlap,            \* a call may start before an earlier one ended
          UseContext,            \* the object may be used in a with block
          DispatchImplemented    \* FALSE: dispatch_one_batch returns None

ASSUME ParametersAssumption ==
    /\ MaxCalls \in Nat /\ MaxTasks \in Nat
    /\ ReturnAs \in {"list", "generator", "generator_unordered"}
    /\ CallbackThreads \in Nat
    /\ {SupportsRetrieveCallback, PreDispatchAll, MayFail, MayOverlap, UseContext,
        DispatchImplemented} \subseteq BOOLEAN

Calls == 1..MaxCalls
Task == Calls \X (1..MaxTasks)

return_generator == ReturnAs # "list"
return_ordered == ReturnAs # "generator_unordered"

NoCall == 0
NoTask == <<0, 0>>

VARIABLES
  (* the attributes of the Parallel object *)
  call_id,                \* _call_id: the call that last drew an identifier
  iterating,              \* _iterating
  aborting,               \* _aborting
  n_completed_tasks,      \* _n_completed_tasks
  n_dispatched_tasks,     \* _n_dispatched_tasks
  original_iterator,      \* _original_iterator: the call it belongs to, NoCall for None
  managed_backend,        \* _managed_backend
  calling,                \* _calling
  lock,                   \* the task whose callback holds _lock, or NoTask
  outputs,                \* the batches retrieve() is yet to return, oldest first
  (* the user's thread *)
  running,                \* the call whose generator or __call__ runs, or NoCall
  pc,                     \* where each call is
  first,                  \* the generator has not passed its first yield
  size,                   \* tasks in the iterable of each call
  taken,                  \* tasks drawn from the iterable of each call
  delivered,              \* values the user got from each call
  dropped,                \* values next(output) in __call__ threw away
  (* one BatchCompletionCallBack per task: batches of one *)
  worker,                 \* the task on the backend's side
  cb,                     \* where the callback is
  parallel_call_id,       \* _call_id when the batch was made
  status                  \* status of the batch

objectVars == <<call_id, iterating, aborting, n_completed_tasks,
                n_dispatched_tasks, original_iterator, managed_backend, calling>>
userVars == <<running, pc, first, size, taken, delivered, dropped>>
batchVars == <<worker, cb, parallel_call_id, status>>
vars == <<objectVars, lock, outputs, userVars, batchVars>>

Ended == {"done", "raised", "stopped"}
InCall == {"reset", "reset_iterating", "new_id", "setup"}
InGenerator == {"loop", "check_iterating", "dispatch", "clear_iterating",
                "check_aborting", "retrieve"}

ObjectTypeOK ==
    /\ call_id \in 0..MaxCalls /\ original_iterator \in 0..MaxCalls
    /\ iterating \in BOOLEAN /\ aborting \in BOOLEAN
    /\ managed_backend \in BOOLEAN /\ calling \in BOOLEAN
    /\ n_completed_tasks \in Nat /\ n_dispatched_tasks \in Nat
    /\ lock \in Task \union {NoTask}
    /\ outputs \in Seq(Task)

UserTypeOK ==
    /\ running \in 0..MaxCalls
    /\ pc \in [Calls -> {"idle", "yielded"} \union InCall \union InGenerator
                        \union Ended]
    /\ first \in [Calls -> BOOLEAN]
    /\ size \in [Calls -> 0..MaxTasks]
    /\ taken \in [Calls -> 0..MaxTasks]
    /\ delivered \in [Calls -> Seq(Task)]
    /\ dropped \in [Calls -> Seq(Task)]

BatchTypeOK ==
    /\ worker \in [Task -> {"idle", "running", "ok", "error", "killed"}]
    /\ cb \in [Task -> {"none", "enter", "retrieve", "dispatch_new", "dispatch",
                        "clear_iterating", "returned"}]
    /\ parallel_call_id \in [Task -> 0..MaxCalls]
    /\ status \in [Task -> {"None", "Pending", "Done", "Error"}]

TypeOK == ObjectTypeOK /\ UserTypeOK /\ BatchTypeOK

Init ==
    /\ call_id = NoCall /\ original_iterator = NoCall
    /\ iterating = FALSE /\ aborting = FALSE
    /\ n_completed_tasks = 0 /\ n_dispatched_tasks = 0
    /\ managed_backend = FALSE /\ calling = FALSE
    /\ lock = NoTask /\ outputs = <<>>
    /\ running = NoCall
    /\ pc = [c \in Calls |-> "idle"]
    /\ first = [c \in Calls |-> TRUE]
    /\ size \in [Calls -> 0..MaxTasks]
    /\ taken = [c \in Calls |-> 0]
    /\ delivered = [c \in Calls |-> <<>>]
    /\ dropped = [c \in Calls |-> <<>>]
    /\ worker = [t \in Task |-> "idle"]
    /\ cb = [t \in Task |-> "none"]
    /\ parallel_call_id = [t \in Task |-> NoCall]
    /\ status = [t \in Task |-> "None"]

Goto(c, label) == pc' = [pc EXCEPT ![c] = label]

(***************************************************************************)
(* dispatch_one_batch(_original_iterator), run while no other thread holds *)
(* _lock.  It draws the next task, counts it, and _dispatch submits it.    *)
(* A backend without retrieve callbacks gets no callback at all.           *)
(***************************************************************************)
NextTask == <<original_iterator, taken[original_iterator] + 1>>

HasNextTask ==
    /\ DispatchImplemented
    /\ ~aborting
    /\ original_iterator # NoCall
    /\ taken[original_iterator] < size[original_iterator]

DispatchOneBatch ==
    /\ taken' = [taken EXCEPT ![original_iterator] = @ + 1]
    /\ n_dispatched_tasks' = n_dispatched_tasks + 1
    /\ worker' = [worker EXCEPT ![NextTask] = "running"]
    /\ parallel_call_id' = [parallel_call_id EXCEPT ![NextTask] = call_id]
    /\ status' = [status EXCEPT ![NextTask] =
                    IF SupportsRetrieveCallback THEN "Pending" ELSE "None"]
    /\ outputs' = IF SupportsRetrieveCallback /\ ~return_ordered
                  THEN outputs ELSE Append(outputs, NextTask)

-----------------------------------------------------------------------------
(* The user's thread: __enter__, __exit__ and __call__.                     *)

Enter ==
    /\ UseContext /\ running = NoCall /\ ~managed_backend
    /\ managed_backend' = TRUE /\ calling' = FALSE
    /\ UNCHANGED <<call_id, iterating, aborting, n_completed_tasks, original_iterator,
                   n_dispatched_tasks, lock, outputs, userVars, batchVars>>

\* _abort raises the flag the callbacks test; _terminate_and_reset stops the
\* workers: what they were computing never completes.
Exit ==
    /\ running = NoCall /\ managed_backend
    /\ managed_backend' = FALSE
    /\ aborting' = (aborting \/ (return_generator /\ calling))
    /\ worker' = [t \in Task |-> IF worker[t] = "running" THEN "killed" ELSE worker[t]]
    /\ UNCHANGED <<call_id, iterating, n_completed_tasks, n_dispatched_tasks,
                   original_iterator, calling, lock, outputs, userVars, cb,
                   parallel_call_id, status>>

Call(c) ==
    /\ running = NoCall
    /\ pc[c] = "idle"
    /\ \A d \in 1..(c - 1) : IF MayOverlap THEN pc[d] # "idle" ELSE pc[d] \in Ended
    /\ running' = c
    /\ Goto(c, "reset")
    /\ UNCHANGED <<objectVars, lock, outputs, first, size, taken, delivered, dropped,
                   batchVars>>

\* _reset_run_tracking takes no lock, so a callback may run between its
\* assignments: the counters and _aborting first, _iterating last.
ResetCounters(c) ==
    /\ running = c /\ pc[c] = "reset"
    /\ n_completed_tasks' = 0 /\ n_dispatched_tasks' = 0
    /\ aborting' = FALSE
    /\ Goto(c, "reset_iterating")
    /\ UNCHANGED <<call_id, iterating, original_iterator, managed_backend, calling,
                   lock, outputs, running, first, size, taken, delivered, dropped,
                   batchVars>>

ResetIterating(c) ==
    /\ running = c /\ pc[c] = "reset_iterating"
    /\ iterating' = TRUE
    /\ Goto(c, "new_id")
    /\ UNCHANGED <<call_id, aborting, n_completed_tasks, n_dispatched_tasks,
                   original_iterator, managed_backend, calling, lock, outputs,
                   running, first, size, taken, delivered, dropped, batchVars>>

\* with self._lock: self._call_id = uuid4().hex
NewCallIdUnlocked(c) ==   \* mutant: the identifier is drawn without the lock
    /\ running = c /\ pc[c] = "new_id"
    /\ call_id' = c
    /\ Goto(c, "setup")
    /\ UNCHANGED <<iterating, aborting, n_completed_tasks, n_dispatched_tasks,
                   original_iterator, managed_backend, calling, lock, outputs,
                   running, first, size, taken, delivered, dropped, batchVars>>

NewCallId(c) ==
    /\ running = c /\ pc[c] = "new_id"
    /\ lock = NoTask
    /\ call_id' = c
    /\ Goto(c, "setup")
    /\ UNCHANGED <<iterating, aborting, n_completed_tasks, n_dispatched_tasks,
                   original_iterator, managed_backend, calling, lock, outputs,
                   running, first, size, taken, delivered, dropped, batchVars>>

Setup(c) ==
    /\ running = c /\ pc[c] = "setup"
    /\ calling' = TRUE
    /\ original_iterator' = IF PreDispatchAll THEN NoCall ELSE c
    /\ Goto(c, "loop")
    /\ UNCHANGED <<call_id, iterating, aborting, n_completed_tasks, n_dispatched_tasks,
                   managed_backend, lock, outputs, running, first, size, taken,
                   delivered, dropped, batchVars>>

-----------------------------------------------------------------------------
(* The generator _get_outputs.                                              *)

\* The generator returns: StopIteration out of the next(output) of __call__ if
\* nothing was yielded yet.
EndGenerator(c) ==
    /\ Goto(c, IF first[c] THEN "stopped" ELSE "done")
    /\ running' = NoCall

\* The while condition and the first if.
LoopOffByOne(c) ==   \* mutant: <= between the counters
    /\ running = c /\ pc[c] = "loop"
    /\ IF n_completed_tasks <= n_dispatched_tasks
       THEN Goto(c, "retrieve") /\ UNCHANGED running
       ELSE EndGenerator(c)
    /\ UNCHANGED <<objectVars, lock, outputs, first, size, taken, delivered, dropped,
                   batchVars>>

Loop(c) ==
    /\ running = c /\ pc[c] = "loop"
    /\ IF n_completed_tasks < n_dispatched_tasks
       THEN Goto(c, "retrieve") /\ UNCHANGED running
       ELSE IF iterating
            THEN Goto(c, "check_iterating") /\ UNCHANGED running
            ELSE EndGenerator(c)
    /\ UNCHANGED <<objectVars, lock, outputs, first, size, taken, delivered, dropped,
                   batchVars>>

\* The inner if reads _iterating again, after the counters.
CheckIterating(c) ==
    /\ running = c /\ pc[c] = "check_iterating"
    /\ IF iterating THEN Goto(c, "dispatch") /\ UNCHANGED running
                    ELSE EndGenerator(c)
    /\ UNCHANGED <<objectVars, lock, outputs, first, size, taken, delivered, dropped,
                   batchVars>>

\* dispatch_next outside any lock: only dispatch_one_batch takes it.
ConsumerDispatch(c) ==
    /\ running = c /\ pc[c] = "dispatch"
    /\ lock = NoTask
    /\ IF HasNextTask
       THEN DispatchOneBatch /\ Goto(c, "check_aborting")
       ELSE /\ Goto(c, "clear_iterating")
            /\ UNCHANGED <<taken, n_dispatched_tasks, worker, parallel_call_id,
                           status, outputs>>
    /\ UNCHANGED <<call_id, iterating, aborting, n_completed_tasks, original_iterator,
                   managed_backend, calling, lock, running, first, size, delivered,
                   dropped, cb>>

ConsumerClearIterating(c) ==
    /\ running = c /\ pc[c] = "clear_iterating"
    /\ iterating' = FALSE
    /\ Goto(c, "check_aborting")
    /\ UNCHANGED <<call_id, aborting, n_completed_tasks, n_dispatched_tasks,
                   original_iterator, managed_backend, calling, lock, outputs,
                   running, first, size, taken, delivered, dropped, batchVars>>

\* _raise_error_fast: the loop goes on when no job of the call has failed.
CheckAborting(c) ==
    /\ running = c /\ pc[c] = "check_aborting"
    /\ IF aborting /\ \E t \in Task : status[t] = "Error" /\ parallel_call_id[t] = call_id
       THEN Goto(c, "raised") /\ running' = NoCall
       ELSE Goto(c, "loop") /\ UNCHANGED running
    /\ UNCHANGED <<objectVars, lock, outputs, first, size, taken, delivered, dropped,
                   batchVars>>

(***************************************************************************)
(* backend.retrieve() waits for the oldest batch it has not returned yet:  *)
(* the head of _pending_outputs without callbacks; the head of _jobs when  *)
(* callbacks append to it; else the oldest batch of the current call, once *)
(* its callback has registered the outcome.                                *)
(***************************************************************************)
Retrievable(t) ==
    SupportsRetrieveCallback /\ return_ordered => parallel_call_id[t] = call_id

Ready(t) == IF SupportsRetrieveCallback THEN status[t] \in {"Done", "Error"}
                                        ELSE worker[t] \in {"ok", "error"}

OldestUnordered(k) ==   \* mutant: any batch, not the oldest
    /\ k \in DOMAIN outputs /\ Retrievable(outputs[k])

Oldest(k) == /\ k \in DOMAIN outputs
             /\ Retrievable(outputs[k])
             /\ \A j \in 1..(k - 1) : ~Retrievable(outputs[j])

\* yield: __call__ drops the first value; list(output) asks for the next one
\* at once, the user of a generator when it likes.
Yield(c, t) ==
    /\ Goto(c, "yielded")
    /\ first' = [first EXCEPT ![c] = FALSE]
    /\ dropped' = IF first[c] THEN [dropped EXCEPT ![c] = Append(@, t)] ELSE dropped
    /\ delivered' = IF first[c] THEN delivered
                    ELSE [delivered EXCEPT ![c] = Append(@, t)]
    /\ running' = IF return_generator THEN NoCall ELSE c

RetrieveKeepingHead(c) ==   \* mutant: the batch stays in _jobs
    /\ running = c /\ pc[c] = "retrieve"
    /\ \E k \in DOMAIN outputs :
         Oldest(k) /\ Ready(outputs[k]) /\ Yield(c, outputs[k])
    /\ UNCHANGED <<objectVars, outputs, lock, size, taken, batchVars>>

RetrieveCountingFirst(c) ==   \* mutant: the count goes up before the yield
    /\ running = c /\ pc[c] = "retrieve"
    /\ \E k \in DOMAIN outputs :
         /\ Oldest(k) /\ Ready(outputs[k])
         /\ outputs' = RemoveAt(outputs, k)
         /\ Yield(c, outputs[k])
    /\ n_completed_tasks' = n_completed_tasks + 1
    /\ UNCHANGED <<call_id, iterating, aborting, n_dispatched_tasks, original_iterator,
                   managed_backend, calling, lock, size, taken, batchVars>>

Retrieve(c) ==
    /\ running = c /\ pc[c] = "retrieve"
    /\ \E k \in DOMAIN outputs :
         /\ Oldest(k) /\ Ready(outputs[k])
         /\ outputs' = RemoveAt(outputs, k)
         /\ IF worker[outputs[k]] = "error"
            THEN /\ Goto(c, "raised") /\ running' = NoCall
                 /\ UNCHANGED <<first, dropped, delivered>>
            ELSE Yield(c, outputs[k])
    /\ UNCHANGED <<objectVars, lock, size, taken, batchVars>>

\* The generator goes on after its yield: in list(output), or because the
\* user asks for one more value.
ResumeUncounting(c) ==   \* mutant: counts down
    /\ pc[c] = "yielded"
    /\ n_completed_tasks' = n_completed_tasks - 1
    /\ running' = c
    /\ Goto(c, "check_aborting")
    /\ UNCHANGED <<call_id, iterating, aborting, n_dispatched_tasks, original_iterator,
                   managed_backend, calling, lock, outputs, first, size, taken,
                   delivered, dropped, batchVars>>

Resume(c) ==
    /\ pc[c] = "yielded"
    /\ n_completed_tasks' = n_completed_tasks + 1
    /\ running' = c
    /\ Goto(c, "check_aborting")
    /\ UNCHANGED <<call_id, iterating, aborting, n_dispatched_tasks, original_iterator,
                   managed_backend, calling, lock, outputs, first, size, taken,
                   delivered, dropped, batchVars>>

ResumeList(c) == running = c /\ Resume(c)
UserNext(c) == running = NoCall /\ Resume(c)

-----------------------------------------------------------------------------
(* The workers and the callback threads.                                    *)

WorkerDone(t) ==
    /\ worker[t] = "running"
    /\ \E outcome \in {"ok"} \union (IF MayFail THEN {"error"} ELSE {}) :
         worker' = [worker EXCEPT ![t] = outcome]
    /\ cb' = IF SupportsRetrieveCallback THEN [cb EXCEPT ![t] = "enter"] ELSE cb
    /\ UNCHANGED <<objectVars, lock, outputs, userVars, parallel_call_id, status>>

ActiveCallbacks == {t \in Task : cb[t] \in {"retrieve", "dispatch_new", "dispatch",
                                            "clear_iterating"}}

\* BatchCompletionCallBack.__call__ takes _lock and drops a late outcome.
CallbackEnter(t) ==
    /\ cb[t] = "enter"
    /\ Cardinality(ActiveCallbacks) < CallbackThreads
    /\ lock = NoTask
    /\ IF call_id # parallel_call_id[t] \/ aborting
       THEN cb' = [cb EXCEPT ![t] = "returned"] /\ UNCHANGED lock
       ELSE cb' = [cb EXCEPT ![t] = "retrieve"] /\ lock' = t
    /\ UNCHANGED <<objectVars, outputs, userVars, worker, parallel_call_id, status>>

\* _retrieve_result, the append to _jobs, and the end of the with block.
RetrieveResultKeepingLock(t) ==   \* mutant: an error leaves the lock taken
    /\ cb[t] = "retrieve"
    /\ status' = [status EXCEPT ![t] = IF worker[t] = "ok" THEN "Done" ELSE "Error"]
    /\ outputs' = IF return_ordered THEN outputs ELSE Append(outputs, t)
    /\ cb' = [cb EXCEPT ![t] = "returned"]
    /\ UNCHANGED <<objectVars, lock, userVars, worker, parallel_call_id>>

RetrieveResult(t) ==
    /\ cb[t] = "retrieve"
    /\ status' = [status EXCEPT ![t] = IF worker[t] = "ok" THEN "Done" ELSE "Error"]
    /\ outputs' = IF return_ordered THEN outputs ELSE Append(outputs, t)
    /\ cb' = [cb EXCEPT ![t] = IF worker[t] = "ok" THEN "dispatch_new" ELSE "returned"]
    /\ lock' = NoTask
    /\ UNCHANGED <<objectVars, userVars, worker, parallel_call_id>>

\* _dispatch_new takes _lock again; it does not look at the call identifier.
DispatchNew(t) ==
    /\ cb[t] = "dispatch_new"
    /\ lock = NoTask
    /\ IF aborting \/ original_iterator = NoCall
       THEN cb' = [cb EXCEPT ![t] = "returned"] /\ UNCHANGED lock
       ELSE cb' = [cb EXCEPT ![t] = "dispatch"] /\ lock' = t
    /\ UNCHANGED <<objectVars, outputs, userVars, worker, parallel_call_id, status>>

CallbackDispatch(t) ==
    /\ cb[t] = "dispatch"
    /\ IF HasNextTask
       THEN /\ DispatchOneBatch
            /\ cb' = [cb EXCEPT ![t] = "returned"] /\ lock' = NoTask
       ELSE /\ cb' = [cb EXCEPT ![t] = "clear_iterating"]
            /\ UNCHANGED <<taken, n_dispatched_tasks, worker, parallel_call_id,
                           status, outputs, lock>>
    /\ UNCHANGED <<call_id, iterating, aborting, n_completed_tasks, original_iterator,
                   managed_backend, calling, running, pc, first, size, delivered,
                   dropped>>

CallbackClearIterating(t) ==
    /\ cb[t] = "clear_iterating"
    /\ iterating' = FALSE
    /\ cb' = [cb EXCEPT ![t] = "returned"] /\ lock' = NoTask
    /\ UNCHANGED <<call_id, aborting, n_completed_tasks, n_dispatched_tasks,
                   original_iterator, managed_backend, calling, outputs, userVars,
                   worker, parallel_call_id, status>>

-----------------------------------------------------------------------------
Generator(c) == \/ Loop(c) \/ CheckIterating(c) \/ ConsumerDispatch(c)
                \/ ConsumerClearIterating(c) \/ CheckAborting(c) \/ Retrieve(c)
                \/ ResumeList(c)

InsideCall(c) == \/ ResetCounters(c) \/ ResetIterating(c) \/ NewCallId(c) \/ Setup(c)

Callback(t) == \/ CallbackEnter(t) \/ RetrieveResult(t) \/ DispatchNew(t)
               \/ CallbackDispatch(t) \/ CallbackClearIterating(t)

User == Enter \/ Exit \/ \E c \in Calls : Call(c) \/ UserNext(c)

Next == \/ User
        \/ \E c \in Calls : InsideCall(c) \/ Generator(c)
        \/ \E t \in Task : WorkerDone(t) \/ Callback(t)

Spec == Init /\ [][Next]_vars

\* The threads are scheduled and tasks end; the user need not go on.
Fairness == /\ \A c \in Calls : WF_vars(InsideCall(c)) /\ WF_vars(Generator(c))
            /\ \A t \in Task : WF_vars(WorkerDone(t)) /\ WF_vars(Callback(t))

FairSpec == Spec /\ Fairness
-----------------------------------------------------------------------------
(* Correctness.                                                             *)

\* The values the generator of a call has produced: __call__ threw the first away.
Values(c) == dropped[c] \o delivered[c]

Finished(c) == pc[c] \in {"done", "stopped"}

(***************************************************************************)
(* An outcome is only registered for the call whose identifier the object  *)
(* holds: a callback that is late for an abandoned call is ignored, even   *)
(* when the new call draws its identifier while the callback runs          *)
(* (BatchCompletionCallBack.__call__ against Parallel.__call__).           *)
(***************************************************************************)
StaleOutcomeDropped ==
    [][\A t \in Task : status[t] = "Pending" /\ status'[t] # "Pending"
         => parallel_call_id[t] = call_id']_vars

(***************************************************************************)
(* The object never counts more completed than dispatched tasks, and a     *)
(* value the user holds is of a task that is dispatched and not yet        *)
(* counted: _is_completed and the loop of _get_outputs rest on it.         *)
(***************************************************************************)
CompletedBounded ==
    /\ n_completed_tasks <= n_dispatched_tasks
    /\ \A c \in Calls : pc[c] = "yielded" => n_completed_tasks < n_dispatched_tasks

(***************************************************************************)
(* However many workers there are, a call keeps at most one of them busy   *)
(* for each callback thread, and one more: the consumer only dispatches    *)
(* when everything dispatched is retrieved, a callback one task for its    *)
(* own (_get_outputs, _dispatch_new).  That is not what pre_dispatch is    *)
(* documented to ensure: see PreDispatched.                                *)
(***************************************************************************)
InFlightBounded ==
    Cardinality({t \in Task : worker[t] = "running"}) <= CallbackThreads + 1

(***************************************************************************)
(* No value reaches the users twice, not even through the generators of    *)
(* two calls that share _jobs.                                             *)
(***************************************************************************)
DeliveredOnce ==
    \A c, d \in Calls : \A i \in DOMAIN Values(c), j \in DOMAIN Values(d) :
        Values(c)[i] = Values(d)[j] => c = d /\ i = j

(***************************************************************************)
(* The calls implement the promise of OrderedResults.  With callbacks the  *)
(* promise is the weak one: a call may end before it has every value.      *)
(***************************************************************************)
Outcome(c) == IF Finished(c) THEN "done"
              ELSE IF pc[c] = "raised" THEN "raised" ELSE "open"

Failed == {t \in Task : worker[t] = "error"}

Results == INSTANCE OrderedResults
    WITH values <- [c \in Calls |-> Values(c)],
         outcome <- [c \in Calls |-> Outcome(c)],
         failed <- Failed,
         MayTruncate <- SupportsRetrieveCallback

ImplementsOrderedResults == Results!Spec

(***************************************************************************)
(* Nobody waits in vain: _lock is held by a callback that gives it back,   *)
(* and the batch that retrieve() waits for is there, and it is done, or    *)
(* runs, or its callback will register the outcome.  (The counters, which  *)
(* send _get_outputs into retrieve(), know nothing of the queue.)          *)
(***************************************************************************)
Coming(t) == \/ Ready(t) \/ worker[t] = "running"
             \/ cb[t] = "retrieve"
             \/ cb[t] = "enter" /\ ~aborting

WaitsForSomebody ==
    /\ lock # NoTask => cb[lock] \in {"retrieve", "dispatch", "clear_iterating"}
    /\ \A c \in Calls : pc[c] = "retrieve" =>
         \E k \in DOMAIN outputs : Oldest(k) /\ Coming(outputs[k])

(***************************************************************************)
(* Whoever waits inside __call__, or inside a next() of the generator,     *)
(* gets an answer, as long as threads are scheduled and tasks end.         *)
(***************************************************************************)
CallReturns == \A c \in Calls : running = c ~> running # c

(***************************************************************************)
(* Documented, and not what the code does (the runs lost_result,           *)
(* truncated_call and dropped_value): a call that ends has retrieved every *)
(* value; it has at least drawn every task from the iterable; the user got *)
(* every value.                                                            *)
(***************************************************************************)
EverythingRetrieved == \A c \in Calls : Finished(c) => Len(Values(c)) = size[c]

(***************************************************************************)
(* Documented, and not what the code does (the run starved_workers): the   *)
(* tasks of pre_dispatch are drawn before the first value is waited for.   *)
(* The amount is that of the documented example, '1.5*n_jobs' for two      *)
(* jobs; the default, '2*n_jobs', asks for at least four tasks.  __call__  *)
(* slices them off the iterable for _get_outputs, which leaves the slice   *)
(* alone and dispatches one task of _original_iterator at a time.          *)
(***************************************************************************)
PreDispatchAmount == 3

PreDispatched ==
    \A c \in Calls : pc[c] = "retrieve" /\ first[c] =>
        taken[c] >= IF size[c] < PreDispatchAmount THEN size[c] ELSE PreDispatchAmount

\* A call that ends has at least dispatched every task of its iterable.
IterableExhausted == \A c \in Calls : Finished(c) => taken[c] = size[c]

\* A call that ends has handed every value to its user.
EverythingDelivered == \A c \in Calls : Finished(c) => Len(delivered[c]) = size[c]
=============================================================================
