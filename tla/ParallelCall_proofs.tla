------------------------ MODULE ParallelCall_proofs -------------------------
(***************************************************************************)
(* Theorems about ParallelCall, for every number of calls, tasks and       *)
(* callback threads.                                                       *)
(***************************************************************************)
EXTENDS ParallelCall, SequenceTheorems, FiniteSetTheorems, TLAPS

(***************************************************************************)
(* Taking one batch out of the queue leaves a queue of batches.            *)
(***************************************************************************)
LEMMA RemoveAtType ==
    ASSUME NEW S, NEW s \in Seq(S), NEW k \in DOMAIN s
    PROVE  RemoveAt(s, k) \in Seq(S)
<1>1. Len(s) \in Nat /\ k \in 1..Len(s)
  OBVIOUS
<1>2. \A i \in 1..Len(s) : s[i] \in S
  OBVIOUS
<1>3. SubSeq(s, 1, k - 1) \in Seq(S)
  BY <1>1, <1>2, SubSeqProperties
<1>4. SubSeq(s, k + 1, Len(s)) \in Seq(S)
  BY <1>1, <1>2, SubSeqProperties
<1>5. QED
  BY <1>3, <1>4, ConcatProperties DEF RemoveAt

(***************************************************************************)
(* The task that dispatch_one_batch draws is a task, not drawn before.     *)
(***************************************************************************)
LEMMA NextTaskType ==
    ASSUME TypeOK, HasNextTask
    PROVE  /\ NextTask \in Task
           /\ original_iterator \in Calls
           /\ taken[original_iterator] + 1 \in 0..MaxTasks
           /\ NextTask[1] = original_iterator
           /\ NextTask[2] = taken[original_iterator] + 1
<1> USE DEF TypeOK, ObjectTypeOK, UserTypeOK, HasNextTask, NextTask, Task, Calls, NoCall
<1>1. original_iterator \in 1..MaxCalls
  BY ParametersAssumption DEF ParametersAssumption
<1>2. taken[original_iterator] \in 0..MaxTasks /\ size[original_iterator] \in 0..MaxTasks
  BY <1>1
<1>3. taken[original_iterator] + 1 \in 1..MaxTasks
  BY <1>2, ParametersAssumption DEF ParametersAssumption
<1>4. QED
  BY <1>1, <1>3

(***************************************************************************)
(* Dispatching one batch keeps the types of what it writes.                *)
(***************************************************************************)
LEMMA DispatchType ==
    ASSUME TypeOK, HasNextTask, DispatchOneBatch
    PROVE  /\ taken' \in [Calls -> 0..MaxTasks]
           /\ n_dispatched_tasks' \in Nat
           /\ worker' \in [Task -> {"idle", "running", "ok", "error", "killed"}]
           /\ parallel_call_id' \in [Task -> 0..MaxCalls]
           /\ status' \in [Task -> {"None", "Pending", "Done", "Error"}]
           /\ outputs' \in Seq(Task)
<1>1. NextTask \in Task /\ taken[original_iterator] + 1 \in 0..MaxTasks
  BY NextTaskType
<1>2. n_dispatched_tasks' \in Nat
  BY DEF TypeOK, ObjectTypeOK, DispatchOneBatch
<1>3. taken' \in [Calls -> 0..MaxTasks]
  <2> DEFINE n == taken[original_iterator] + 1
  <2>1. taken' = [taken EXCEPT ![original_iterator] = n]
    BY DEF DispatchOneBatch
  <2> HIDE DEF n
  <2>2. QED
    BY <1>1, <2>1 DEF TypeOK, UserTypeOK, n
<1>4. worker' \in [Task -> {"idle", "running", "ok", "error", "killed"}]
  BY DEF TypeOK, BatchTypeOK, DispatchOneBatch
<1>5. parallel_call_id' \in [Task -> 0..MaxCalls]
  BY DEF TypeOK, BatchTypeOK, ObjectTypeOK, DispatchOneBatch
<1>6. status' \in [Task -> {"None", "Pending", "Done", "Error"}]
  BY DEF TypeOK, BatchTypeOK, DispatchOneBatch
<1>7. outputs' \in Seq(Task)
  BY <1>1 DEF TypeOK, ObjectTypeOK, DispatchOneBatch
<1>8. QED
  BY <1>2, <1>3, <1>4, <1>5, <1>6, <1>7

(***************************************************************************)
(* Every variable starts with its type, and every step keeps it.           *)
(***************************************************************************)
LEMMA TypeInit == Init => TypeOK
<1> SUFFICES ASSUME Init PROVE TypeOK
  OBVIOUS
<1>a. MaxCalls \in Nat /\ MaxTasks \in Nat
  BY ParametersAssumption DEF ParametersAssumption
<1> USE <1>a DEF Init
<1>1. ObjectTypeOK
  <2>1. outputs \in Seq(Task)
    OBVIOUS
  <2>2. /\ iterating \in BOOLEAN /\ aborting \in BOOLEAN
        /\ managed_backend \in BOOLEAN /\ calling \in BOOLEAN
    OBVIOUS
  <2>3. /\ call_id \in 0..MaxCalls /\ original_iterator \in 0..MaxCalls
        /\ n_completed_tasks \in Nat /\ n_dispatched_tasks \in Nat
    BY DEF NoCall
  <2>4. lock \in Task \union {NoTask}
    OBVIOUS
  <2>5. QED
    BY <2>1, <2>2, <2>3, <2>4 DEF ObjectTypeOK
<1>2. UserTypeOK
  BY DEF UserTypeOK, NoCall
<1>3. BatchTypeOK
  BY DEF BatchTypeOK, NoCall
<1>4. QED
  BY <1>1, <1>2, <1>3 DEF TypeOK

LEMMA UserTypeNext ==
    ASSUME TypeOK, NEW c \in Calls,
           Call(c) \/ UserNext(c) \/ InsideCall(c) \/ Generator(c)
    PROVE  TypeOK'
<1>a. MaxCalls \in Nat /\ MaxTasks \in Nat
  BY ParametersAssumption DEF ParametersAssumption
<1> USE <1>a DEF TypeOK, Goto
<1>1. CASE Call(c)
  <2>1. UserTypeOK'
    BY <1>1 DEF Call, Calls, UserTypeOK, InCall
  <2>2. QED
    BY <1>1, <2>1 DEF Call, objectVars, batchVars, ObjectTypeOK, BatchTypeOK
<1>2. CASE Resume(c)
  <2>1. ObjectTypeOK'
    BY <1>2 DEF Resume, ObjectTypeOK
  <2>2. UserTypeOK'
    BY <1>2 DEF Resume, UserTypeOK, Calls, InGenerator
  <2>3. QED
    BY <1>2, <2>1, <2>2 DEF Resume, batchVars, BatchTypeOK
<1>3. CASE ResetCounters(c)
  BY <1>3 DEF ResetCounters, batchVars, ObjectTypeOK, UserTypeOK, BatchTypeOK, InCall
<1>4. CASE ResetIterating(c)
  BY <1>4 DEF ResetIterating, batchVars, ObjectTypeOK, UserTypeOK, BatchTypeOK, InCall
<1>5. CASE NewCallId(c)
  BY <1>5 DEF NewCallId, Calls, batchVars, ObjectTypeOK, UserTypeOK, BatchTypeOK, InCall
<1>6. CASE Setup(c)
  <2>1. ObjectTypeOK'
    BY <1>6 DEF Setup, ObjectTypeOK, Calls, NoCall
  <2>2. UserTypeOK'
    BY <1>6 DEF Setup, UserTypeOK, InGenerator
  <2>3. QED
    BY <1>6, <2>1, <2>2 DEF Setup, batchVars, BatchTypeOK
<1>7. CASE Loop(c) \/ CheckIterating(c)
  <2>1. UserTypeOK'
    <3>1. running' \in 0..MaxCalls
      BY <1>7 DEF Loop, CheckIterating, EndGenerator, UserTypeOK, NoCall
    <3>2. pc' \in [Calls -> {"idle", "yielded"} \union InCall \union InGenerator
                            \union Ended]
      BY <1>7 DEF Loop, CheckIterating, EndGenerator, UserTypeOK, InGenerator, Ended
    <3>3. QED
      BY <1>7, <3>1, <3>2 DEF Loop, CheckIterating, UserTypeOK
  <2>2. QED
    BY <1>7, <2>1 DEF Loop, CheckIterating, objectVars, batchVars, ObjectTypeOK,
                      BatchTypeOK
<1>8. CASE ConsumerDispatch(c)
  <2>1. pc' \in [Calls -> {"idle", "yielded"} \union InCall \union InGenerator
                          \union Ended]
    BY <1>8 DEF ConsumerDispatch, UserTypeOK, InGenerator
  <2>2. CASE HasNextTask
    <3>1. DispatchOneBatch
      BY <1>8, <2>2 DEF ConsumerDispatch
    <3>2. QED
      BY <1>8, <2>1, <2>2, <3>1, DispatchType
      DEF ConsumerDispatch, ObjectTypeOK, UserTypeOK, BatchTypeOK
  <2>3. CASE ~HasNextTask
    BY <1>8, <2>1, <2>3 DEF ConsumerDispatch, ObjectTypeOK, UserTypeOK, BatchTypeOK
  <2>4. QED
    BY <2>2, <2>3
<1>9. CASE ConsumerClearIterating(c)
  BY <1>9 DEF ConsumerClearIterating, batchVars, ObjectTypeOK, UserTypeOK, BatchTypeOK,
              InGenerator
<1>10. CASE CheckAborting(c)
  <2>1. UserTypeOK'
    <3>1. running' \in 0..MaxCalls
      BY <1>10 DEF CheckAborting, UserTypeOK, NoCall
    <3>2. pc' \in [Calls -> {"idle", "yielded"} \union InCall \union InGenerator
                            \union Ended]
      BY <1>10 DEF CheckAborting, UserTypeOK, InGenerator, Ended
    <3>3. QED
      BY <1>10, <3>1, <3>2 DEF CheckAborting, UserTypeOK
  <2>2. QED
    BY <1>10, <2>1 DEF CheckAborting, objectVars, batchVars, ObjectTypeOK, BatchTypeOK
<1>11. CASE Retrieve(c)
  <2>1. PICK k \in DOMAIN outputs :
          /\ outputs' = RemoveAt(outputs, k)
          /\ IF worker[outputs[k]] = "error"
             THEN /\ pc' = [pc EXCEPT ![c] = "raised"] /\ running' = NoCall
                  /\ UNCHANGED <<first, dropped, delivered>>
             ELSE Yield(c, outputs[k])
    BY <1>11 DEF Retrieve
  <2>2. outputs' \in Seq(Task) /\ outputs[k] \in Task
    BY <2>1, RemoveAtType DEF ObjectTypeOK
  <2>3. UserTypeOK'
    <3>1. CASE worker[outputs[k]] = "error"
      <4>1. running' \in 0..MaxCalls
        BY <2>1, <3>1 DEF NoCall
      <4>2. pc' \in [Calls -> {"idle", "yielded"} \union InCall \union InGenerator
                              \union Ended]
        BY <2>1, <3>1 DEF UserTypeOK, Ended
      <4>3. QED
        BY <1>11, <2>1, <3>1, <4>1, <4>2 DEF Retrieve, UserTypeOK
    <3>2. CASE Yield(c, outputs[k])
      <4>1. running' \in 0..MaxCalls
        BY <3>2 DEF Yield, UserTypeOK, NoCall, Calls
      <4>2. /\ dropped' \in [Calls -> Seq(Task)]
            /\ delivered' \in [Calls -> Seq(Task)]
        BY <2>2, <3>2 DEF Yield, UserTypeOK
      <4>3. QED
        BY <1>11, <3>2, <4>1, <4>2 DEF Retrieve, Yield, UserTypeOK
    <3>3. QED
      BY <2>1, <3>1, <3>2
  <2>4. QED
    BY <1>11, <2>2, <2>3 DEF Retrieve, objectVars, batchVars, ObjectTypeOK, BatchTypeOK
<1>12. QED
  BY <1>1, <1>2, <1>3, <1>4, <1>5, <1>6, <1>7, <1>8, <1>9, <1>10, <1>11
  DEF UserNext, ResumeList, InsideCall, Generator

LEMMA CallbackTypeNext ==
    ASSUME TypeOK, NEW t \in Task, WorkerDone(t) \/ Callback(t)
    PROVE  TypeOK'
<1> USE DEF TypeOK
<1>1. CASE WorkerDone(t)
  BY <1>1 DEF WorkerDone, objectVars, userVars, ObjectTypeOK, UserTypeOK, BatchTypeOK
<1>2. CASE CallbackEnter(t)
  BY <1>2 DEF CallbackEnter, objectVars, userVars, ObjectTypeOK, UserTypeOK, BatchTypeOK
<1>3. CASE RetrieveResult(t)
  BY <1>3 DEF RetrieveResult, objectVars, userVars, ObjectTypeOK, UserTypeOK, BatchTypeOK
<1>4. CASE DispatchNew(t)
  BY <1>4 DEF DispatchNew, objectVars, userVars, ObjectTypeOK, UserTypeOK, BatchTypeOK
<1>5. CASE CallbackDispatch(t)
  <2>1. cb' \in [Task -> {"none", "enter", "retrieve", "dispatch_new", "dispatch",
                          "clear_iterating", "returned"}]
    BY <1>5 DEF CallbackDispatch, BatchTypeOK
  <2>2. CASE HasNextTask
    <3>1. DispatchOneBatch /\ lock' = NoTask
      BY <1>5, <2>2 DEF CallbackDispatch
    <3>2. QED
      BY <1>5, <2>1, <2>2, <3>1, DispatchType
      DEF CallbackDispatch, ObjectTypeOK, UserTypeOK, BatchTypeOK
  <2>3. CASE ~HasNextTask
    BY <1>5, <2>1, <2>3 DEF CallbackDispatch, ObjectTypeOK, UserTypeOK, BatchTypeOK
  <2>4. QED
    BY <2>2, <2>3
<1>6. CASE CallbackClearIterating(t)
  BY <1>6 DEF CallbackClearIterating, userVars, ObjectTypeOK, UserTypeOK, BatchTypeOK
<1>7. QED
  BY <1>1, <1>2, <1>3, <1>4, <1>5, <1>6 DEF Callback

LEMMA TypeNext == TypeOK /\ [Next]_vars => TypeOK'
<1> SUFFICES ASSUME TypeOK, [Next]_vars PROVE TypeOK'
  OBVIOUS
<1>1. CASE UNCHANGED vars
  BY <1>1 DEF vars, objectVars, userVars, batchVars, TypeOK, ObjectTypeOK, UserTypeOK,
              BatchTypeOK
<1>2. CASE Enter
  BY <1>2 DEF Enter, userVars, batchVars, TypeOK, ObjectTypeOK, UserTypeOK, BatchTypeOK
<1>3. CASE Exit
  BY <1>3 DEF Exit, userVars, TypeOK, ObjectTypeOK, UserTypeOK, BatchTypeOK
<1>4. QED
  BY <1>1, <1>2, <1>3, UserTypeNext, CallbackTypeNext DEF Next, User

(***************************************************************************)
(* Type correctness of the Parallel object, its calls and its callbacks.   *)
(***************************************************************************)
THEOREM TypeCorrect == Spec => []TypeOK
<1>1. QED
  BY TypeInit, TypeNext, PTL DEF Spec

-----------------------------------------------------------------------------
(***************************************************************************)
(* Late outcomes.  StaleOutcomeDropped is about a step that does not look  *)
(* at the identifier: what holds it is that the callback checked it under  *)
(* _lock, still has the lock, and the identifier is only drawn under it.   *)
(***************************************************************************)
LockHeld == \A t \in Task : cb[t] \in {"retrieve", "dispatch", "clear_iterating"}
                            => lock = t

CheckedIsCurrent == \A t \in Task : cb[t] = "retrieve" => parallel_call_id[t] = call_id

\* A task the iterable has not given yet has no callback.
NotDrawnYet == \A t \in Task : t[2] > taken[t[1]] => /\ cb[t] = "none" /\ status[t] = "None"
                                                     /\ worker[t] = "idle"

CallbackInv == LockHeld /\ CheckedIsCurrent /\ NotDrawnYet

(***************************************************************************)
(* Drawing a task touches no callback that has started, whoever draws it.  *)
(***************************************************************************)
LEMMA DispatchFresh ==
    ASSUME TypeOK, CallbackInv, HasNextTask, DispatchOneBatch
    PROVE  /\ cb[NextTask] = "none" /\ status[NextTask] = "None"
           /\ \A t \in Task : t # NextTask => /\ parallel_call_id'[t] = parallel_call_id[t]
                                              /\ status'[t] = status[t]
                                              /\ worker'[t] = worker[t]
           /\ \A t \in Task : t[2] > taken'[t[1]]
                              => t[2] > taken[t[1]] /\ t # NextTask
<1>1. /\ NextTask \in Task /\ original_iterator \in Calls
      /\ NextTask[1] = original_iterator
      /\ NextTask[2] = taken[original_iterator] + 1
  BY NextTaskType
<1>2. \A t \in Task : t[1] \in Calls /\ t[2] \in Nat
  BY ParametersAssumption DEF ParametersAssumption, Task
<1>3. \A c \in Calls : taken[c] \in Nat
  BY ParametersAssumption DEF ParametersAssumption, TypeOK, UserTypeOK
<1>4. cb[NextTask] = "none" /\ status[NextTask] = "None"
  BY <1>1, <1>3 DEF CallbackInv, NotDrawnYet
<1>5. \A t \in Task : t # NextTask => /\ parallel_call_id'[t] = parallel_call_id[t]
                                      /\ status'[t] = status[t]
                                      /\ worker'[t] = worker[t]
  BY DEF DispatchOneBatch, TypeOK, BatchTypeOK
<1>6. ASSUME NEW t \in Task, t[2] > taken'[t[1]]
      PROVE  t[2] > taken[t[1]] /\ t # NextTask
  <2>1. taken'[original_iterator] = taken[original_iterator] + 1
    BY <1>1 DEF DispatchOneBatch, TypeOK, UserTypeOK
  <2>2. \A c \in Calls : c # original_iterator => taken'[c] = taken[c]
    BY DEF DispatchOneBatch, TypeOK, UserTypeOK
  <2>3. QED
    BY <1>1, <1>2, <1>3, <1>6, <2>1, <2>2
<1>7. QED
  BY <1>4, <1>5, <1>6

LEMMA CallbackInvInit == Init => CallbackInv
BY DEF Init, CallbackInv, LockHeld, CheckedIsCurrent, NotDrawnYet

LEMMA CallbackInvNext == TypeOK /\ CallbackInv /\ [Next]_vars => CallbackInv'
<1> SUFFICES ASSUME TypeOK, CallbackInv, [Next]_vars PROVE CallbackInv'
  OBVIOUS
<1>a. NoTask \notin Task
  BY DEF NoTask, Task, Calls
<1> USE DEF CallbackInv, LockHeld, CheckedIsCurrent, NotDrawnYet
<1>1. CASE UNCHANGED <<cb, lock, parallel_call_id, call_id, taken, status, worker>>
  BY <1>1
<1>2. ASSUME NEW c \in Calls, NewCallId(c) PROVE CallbackInv'
  <2>1. \A t \in Task : cb[t] # "retrieve"
    BY <1>2, <1>a DEF NewCallId
  <2>2. QED
    BY <1>2, <2>1 DEF NewCallId, batchVars
<1>3. ASSUME NEW c \in Calls, ConsumerDispatch(c), HasNextTask PROVE CallbackInv'
  <2>1. DispatchOneBatch /\ UNCHANGED <<cb, lock, call_id>>
    BY <1>3 DEF ConsumerDispatch
  <2>2. QED
    BY <1>3, <2>1, DispatchFresh
<1>4. ASSUME NEW t \in Task, WorkerDone(t) PROVE CallbackInv'
  <2>1. /\ UNCHANGED <<lock, parallel_call_id, call_id, taken, status>>
        /\ cb' = cb \/ cb' = [cb EXCEPT ![t] = "enter"]
    BY <1>4 DEF WorkerDone, objectVars, userVars
  <2>2. ~ (t[2] > taken[t[1]])
    BY <1>4 DEF WorkerDone
  <2>3. \A u \in Task : u # t => worker'[u] = worker[u]
    BY <1>4 DEF WorkerDone, TypeOK, BatchTypeOK
  <2>4. QED
    BY <1>4, <2>1, <2>2, <2>3 DEF TypeOK, BatchTypeOK, WorkerDone
<1>5. ASSUME NEW t \in Task, CallbackEnter(t) PROVE CallbackInv'
  BY <1>5, <1>a DEF CallbackEnter, objectVars, userVars, TypeOK, BatchTypeOK
<1>6. ASSUME NEW t \in Task, RetrieveResult(t) PROVE CallbackInv'
  BY <1>6, <1>a DEF RetrieveResult, objectVars, userVars, TypeOK, BatchTypeOK
<1>7. ASSUME NEW t \in Task, DispatchNew(t) PROVE CallbackInv'
  BY <1>7, <1>a DEF DispatchNew, objectVars, userVars, TypeOK, BatchTypeOK
<1>8. ASSUME NEW t \in Task, CallbackDispatch(t), HasNextTask PROVE CallbackInv'
  <2>1. /\ DispatchOneBatch /\ UNCHANGED call_id
        /\ cb' = [cb EXCEPT ![t] = "returned"] /\ lock' = NoTask
    BY <1>8 DEF CallbackDispatch
  <2>2. \A u \in Task : u # t => cb[u] \notin {"retrieve", "dispatch", "clear_iterating"}
    BY <1>8 DEF CallbackDispatch
  <2>3. t # NextTask /\ ~ (t[2] > taken[t[1]])
    BY <1>8, <2>1, DispatchFresh DEF CallbackDispatch
  <2>4. QED
    BY <1>8, <2>1, <2>2, <2>3, DispatchFresh DEF TypeOK, BatchTypeOK
<1>9. ASSUME NEW t \in Task, CallbackDispatch(t), ~HasNextTask PROVE CallbackInv'
  BY <1>9 DEF CallbackDispatch, TypeOK, BatchTypeOK
<1>10. ASSUME NEW t \in Task, CallbackClearIterating(t) PROVE CallbackInv'
  BY <1>10, <1>a DEF CallbackClearIterating, userVars, TypeOK, BatchTypeOK
<1>11. ASSUME NEW c \in Calls, Call(c) \/ Resume(c) \/ ResetCounters(c)
              \/ ResetIterating(c) \/ Setup(c) \/ Loop(c) \/ CheckIterating(c)
              \/ ConsumerClearIterating(c) \/ CheckAborting(c) \/ Retrieve(c)
              \/ (ConsumerDispatch(c) /\ ~HasNextTask)
       PROVE UNCHANGED <<cb, lock, parallel_call_id, call_id, taken, status, worker>>
  BY <1>11 DEF Call, Resume, ResetCounters, ResetIterating, Setup, Loop, CheckIterating,
     ConsumerClearIterating, CheckAborting, Retrieve, ConsumerDispatch, objectVars, batchVars
<1>12. CASE Enter \/ UNCHANGED vars
  BY <1>1, <1>12 DEF Enter, vars, objectVars, userVars, batchVars
<1>13. CASE Exit
  <2>1. \A t \in Task : worker[t] = "idle" => worker'[t] = "idle"
    BY <1>13 DEF Exit
  <2>2. QED
    BY <1>13, <2>1 DEF Exit, userVars
<1>14. QED
  BY <1>1, <1>2, <1>3, <1>4, <1>5, <1>6, <1>7, <1>8, <1>9, <1>10, <1>11, <1>12, <1>13
  DEF Next, User, UserNext, InsideCall, Generator, ResumeList, Callback

(***************************************************************************)
(* A callback that is late for its call registers nothing.                 *)
(***************************************************************************)
THEOREM LateOutcomesDropped == Spec => StaleOutcomeDropped
<1>1. ASSUME TypeOK, CallbackInv, [Next]_vars,
             NEW t \in Task, status[t] = "Pending", status'[t] # "Pending"
      PROVE  parallel_call_id[t] = call_id'
  <2>1. CASE RetrieveResult(t)
    BY <1>1, <2>1 DEF RetrieveResult, objectVars, CallbackInv, CheckedIsCurrent
  <2>2. CASE HasNextTask /\ DispatchOneBatch
    BY <1>1, <2>2, DispatchFresh
  <2>3. ASSUME NEW u \in Task, u # t, RetrieveResult(u) PROVE FALSE
    BY <1>1, <2>3 DEF RetrieveResult, TypeOK, BatchTypeOK
  <2>4. ASSUME UNCHANGED status PROVE FALSE
    BY <1>1, <2>4
  <2>5. ASSUME NEW c \in Calls, InsideCall(c) \/ Call(c) \/ UserNext(c) \/ Generator(c)
        PROVE  UNCHANGED status \/ (HasNextTask /\ DispatchOneBatch)
    BY <2>5 DEF InsideCall, Call, UserNext, Generator, ResumeList, ResetCounters,
       ResetIterating, NewCallId, Setup, Loop, CheckIterating, ConsumerDispatch,
       ConsumerClearIterating, CheckAborting, Retrieve, Resume, batchVars
  <2>6. ASSUME NEW u \in Task, WorkerDone(u) \/ Callback(u)
        PROVE  UNCHANGED status \/ (HasNextTask /\ DispatchOneBatch) \/ RetrieveResult(u)
    BY <2>6 DEF WorkerDone, Callback, CallbackEnter, DispatchNew, CallbackDispatch,
       CallbackClearIterating
  <2>7. ASSUME Enter \/ Exit \/ UNCHANGED vars PROVE UNCHANGED status
    BY <2>7 DEF Enter, Exit, vars, batchVars
  <2>8. QED
    BY <1>1, <2>1, <2>2, <2>3, <2>4, <2>5, <2>6, <2>7 DEF Next, User
<1>2. TypeOK /\ CallbackInv /\ [Next]_vars
      => [\A t \in Task : status[t] = "Pending" /\ status'[t] # "Pending"
            => parallel_call_id[t] = call_id']_vars
  BY <1>1
<1>3. QED
  BY <1>2, TypeInit, TypeNext, CallbackInvInit, CallbackInvNext, PTL
  DEF Spec, StaleOutcomeDropped

-----------------------------------------------------------------------------
(***************************************************************************)
(* The counters, when the user makes one call after the other.  A value    *)
(* retrieved leaves the completed count behind the dispatched one until    *)
(* the generator is resumed, and only a new call sets the counts back.     *)
(***************************************************************************)
Inactive == {"idle"} \union Ended

\* A call that is under way or over: the ones after it have not begun before it ends.
OneAfterTheOther ==
    \A c, d \in Calls : c < d /\ pc[d] # "idle" => pc[c] \in Ended

CountersInv ==
    /\ n_completed_tasks <= n_dispatched_tasks
    /\ \A c \in Calls : pc[c] \in {"retrieve", "yielded"}
                        => n_completed_tasks < n_dispatched_tasks

LEMMA OneAfterTheOtherNext ==
    ASSUME ~MayOverlap, TypeOK, OneAfterTheOther, [Next]_vars
    PROVE  OneAfterTheOther'
<1> USE DEF OneAfterTheOther
<1>1. CASE UNCHANGED pc
  BY <1>1
<1>2. ASSUME NEW c \in Calls, Call(c) PROVE OneAfterTheOther'
  BY <1>2 DEF Call, Goto, TypeOK, UserTypeOK, Calls, Ended
<1>3. ASSUME NEW c \in Calls, pc[c] \notin Inactive,
             \E label : Goto(c, label) /\ label # "idle"
      PROVE  OneAfterTheOther'
  <2>1. \A d \in Calls : d # c => pc'[d] = pc[d]
    BY <1>3 DEF Goto, TypeOK, UserTypeOK
  <2>2. \A d \in Calls : c < d => pc[d] = "idle"
    BY <1>3 DEF Inactive
  <2>3. QED
    BY <1>3, <2>1, <2>2 DEF Inactive
<1>4. ASSUME NEW c \in Calls, InsideCall(c) \/ UserNext(c) \/ Generator(c)
      PROVE  pc[c] \notin Inactive /\ \E label : Goto(c, label) /\ label # "idle"
  BY <1>4 DEF InsideCall, UserNext, Generator, ResumeList, ResetCounters,
     ResetIterating, NewCallId, Setup, Loop, CheckIterating, ConsumerDispatch,
     ConsumerClearIterating, CheckAborting, Retrieve, Resume, Yield, EndGenerator,
     Inactive, Ended
<1>5. ASSUME NEW t \in Task, WorkerDone(t) \/ Callback(t) PROVE UNCHANGED pc
  BY <1>5 DEF WorkerDone, Callback, CallbackEnter, RetrieveResult, DispatchNew,
     CallbackDispatch, CallbackClearIterating, userVars
<1>6. ASSUME Enter \/ Exit \/ UNCHANGED vars PROVE UNCHANGED pc
  BY <1>6 DEF Enter, Exit, vars, userVars
<1>7. QED
  BY <1>1, <1>2, <1>3, <1>4, <1>5, <1>6 DEF Next, User

LEMMA CountersInvNext ==
    ASSUME ~MayOverlap, TypeOK, OneAfterTheOther, CountersInv, [Next]_vars
    PROVE  CountersInv'
<1> USE DEF CountersInv
<1>a. n_completed_tasks \in Nat /\ n_dispatched_tasks \in Nat
  BY DEF TypeOK, ObjectTypeOK
<1>1. CASE UNCHANGED <<pc, n_completed_tasks, n_dispatched_tasks>>
  BY <1>1
<1>2. ASSUME NEW c \in Calls, ResetCounters(c) PROVE CountersInv'
  <2>1. \A d \in Calls : d # c => pc[d] \in Inactive
    BY <1>2 DEF ResetCounters, OneAfterTheOther, Inactive, Ended, Calls
  <2>2. pc' = [pc EXCEPT ![c] = "reset_iterating"]
        /\ n_completed_tasks' = 0 /\ n_dispatched_tasks' = 0
    BY <1>2 DEF ResetCounters, Goto
  <2>3. \A d \in Calls : pc'[d] \notin {"retrieve", "yielded"}
    BY <2>1, <2>2 DEF TypeOK, UserTypeOK, Inactive, Ended
  <2>4. QED
    BY <2>2, <2>3
<1>3. ASSUME NEW c \in Calls, Resume(c) PROVE CountersInv'
  <2>1. \A d \in Calls : d # c => pc[d] \in Inactive
    BY <1>3 DEF Resume, OneAfterTheOther, Inactive, Ended, Calls
  <2>2. /\ pc' = [pc EXCEPT ![c] = "check_aborting"]
        /\ n_completed_tasks' = n_completed_tasks + 1
        /\ UNCHANGED n_dispatched_tasks /\ n_completed_tasks < n_dispatched_tasks
    BY <1>3 DEF Resume, Goto
  <2>3. \A d \in Calls : pc'[d] \notin {"retrieve", "yielded"}
    BY <2>1, <2>2 DEF TypeOK, UserTypeOK, Inactive, Ended
  <2>4. QED
    BY <1>a, <2>2, <2>3
<1>4. ASSUME NEW c \in Calls, Loop(c) PROVE CountersInv'
  BY <1>4 DEF Loop, EndGenerator, Goto, objectVars, TypeOK, UserTypeOK
<1>5. ASSUME NEW c \in Calls, Retrieve(c) PROVE CountersInv'
  <2>1. /\ UNCHANGED <<n_completed_tasks, n_dispatched_tasks>>
        /\ n_completed_tasks < n_dispatched_tasks
        /\ \A d \in Calls : d # c => pc'[d] = pc[d]
    BY <1>5 DEF Retrieve, Yield, Goto, objectVars, TypeOK, UserTypeOK
  <2>2. QED
    BY <2>1
<1>6. ASSUME UNCHANGED pc, UNCHANGED n_completed_tasks, DispatchOneBatch
      PROVE  CountersInv'
  BY <1>6, <1>a DEF DispatchOneBatch
<1>7. ASSUME NEW c \in Calls, ConsumerDispatch(c) PROVE CountersInv'
  BY <1>7, <1>a DEF ConsumerDispatch, DispatchOneBatch, Goto, TypeOK, UserTypeOK
<1>8. ASSUME NEW c \in Calls, Call(c) \/ ResetIterating(c) \/ NewCallId(c) \/ Setup(c)
             \/ CheckIterating(c) \/ ConsumerClearIterating(c) \/ CheckAborting(c)
      PROVE  CountersInv'
  BY <1>8 DEF Call, ResetIterating, NewCallId, Setup, CheckIterating, EndGenerator,
     ConsumerClearIterating, CheckAborting, Goto, objectVars, TypeOK, UserTypeOK
<1>9. ASSUME NEW t \in Task, WorkerDone(t) \/ Callback(t) PROVE CountersInv'
  BY <1>1, <1>6, <1>9 DEF WorkerDone, Callback, CallbackEnter, RetrieveResult,
     DispatchNew, CallbackDispatch, CallbackClearIterating, objectVars, userVars
<1>10. ASSUME Enter \/ Exit \/ UNCHANGED vars
       PROVE  UNCHANGED <<pc, n_completed_tasks, n_dispatched_tasks>>
  BY <1>10 DEF Enter, Exit, vars, objectVars, userVars
<1>11. QED
  BY <1>1, <1>2, <1>3, <1>4, <1>5, <1>7, <1>8, <1>9, <1>10
  DEF Next, User, UserNext, InsideCall, Generator, ResumeList

(***************************************************************************)
(* When calls do not overlap, the completed count never runs ahead of the  *)
(* dispatched one, whatever callbacks of earlier calls still do.           *)
(***************************************************************************)
THEOREM CompletedNeverAhead == ~MayOverlap => (Spec => []CompletedBounded)
<1> SUFFICES ASSUME ~MayOverlap PROVE Spec => []CompletedBounded
  OBVIOUS
<1> DEFINE Inv == TypeOK /\ OneAfterTheOther /\ CountersInv
<1>1. Init => Inv
  <2>1. Init => OneAfterTheOther /\ CountersInv
    BY DEF Init, OneAfterTheOther, CountersInv
  <2>2. QED
    BY <2>1, TypeInit
<1>2. Inv /\ [Next]_vars => Inv'
  BY TypeNext, OneAfterTheOtherNext, CountersInvNext
<1>3. Inv => CompletedBounded
  BY DEF CountersInv, CompletedBounded
<1>4. QED
  BY <1>1, <1>2, <1>3, PTL DEF Spec
-----------------------------------------------------------------------------
(***************************************************************************)
(* Every value once.  A batch waits in outputs until a generator takes it; *)
(* what no one has put there yet (Unqueued) is neither there nor among the *)
(* values.                                                                 *)
(***************************************************************************)
LEMMA ValuesType ==
    ASSUME TypeOK, NEW c \in Calls
    PROVE  Values(c) \in Seq(Task) /\ Len(Values(c)) \in Nat
BY DEF TypeOK, UserTypeOK, Values

(***************************************************************************)
(* Yielding appends one value to those of the call, and to no other.       *)
(***************************************************************************)
LEMMA YieldAppends ==
    ASSUME TypeOK, NEW c \in Calls, NEW t \in Task, Yield(c, t),
           first[c] => delivered[c] = <<>>
    PROVE  /\ Values(c)' = Append(Values(c), t)
           /\ ~first'[c]
           /\ pc'[c] = "yielded"
           /\ \A d \in Calls : d # c => /\ dropped'[d] = dropped[d] /\ pc'[d] = pc[d]
                                        /\ delivered'[d] = delivered[d]
                                        /\ first'[d] = first[d]
<1>1. dropped[c] \in Seq(Task) /\ delivered[c] \in Seq(Task)
  BY DEF TypeOK, UserTypeOK
<1>2. \A x, y \in Seq(Task) : x \o Append(y, t) = Append(x \o y, t)
  OBVIOUS
<1>a. Values(c)' = dropped'[c] \o delivered'[c] /\ Values(c) = dropped[c] \o delivered[c]
  BY DEF Values
<1>3. ASSUME first[c] PROVE Values(c)' = Append(Values(c), t)
  <2>1. dropped'[c] = Append(dropped[c], t) /\ delivered'[c] = <<>>
    BY <1>3 DEF Yield, TypeOK, UserTypeOK
  <2>2. \A x \in Seq(Task) : x \o <<>> = x
    OBVIOUS
  <2>3. Append(dropped[c], t) \in Seq(Task)
    BY <1>1
  <2>4. Values(c)' = Append(dropped[c], t) /\ Values(c) = dropped[c]
    BY <1>a, <1>1, <1>3, <2>1, <2>2, <2>3
  <2>5. QED
    BY <2>4
<1>4. ASSUME ~first[c] PROVE Values(c)' = Append(Values(c), t)
  <2>1. dropped'[c] = dropped[c] /\ delivered'[c] = Append(delivered[c], t)
    BY <1>4 DEF Yield, TypeOK, UserTypeOK
  <2>2. Values(c)' = Append(Values(c), t)
    BY <1>a, <1>1, <1>2, <2>1
  <2>3. QED
    BY <2>2
<1>5. first'[c] = FALSE /\ pc'[c] = "yielded"
  BY DEF Yield, Goto, TypeOK, UserTypeOK
<1>6. \A d \in Calls : d # c => /\ dropped'[d] = dropped[d] /\ pc'[d] = pc[d]
                                /\ delivered'[d] = delivered[d]
                                /\ first'[d] = first[d]
  BY DEF Yield, Goto, TypeOK, UserTypeOK
<1>7. Values(c)' = Append(Values(c), t)
  BY <1>3, <1>4
<1>8. QED
  BY <1>5, <1>6, <1>7

LEMMA RemoveAtElements ==
    ASSUME NEW S, NEW s \in Seq(S), NEW k \in DOMAIN s
    PROVE  /\ Len(RemoveAt(s, k)) = Len(s) - 1
           /\ \A i \in 1..(Len(s) - 1) :
                RemoveAt(s, k)[i] = s[IF i < k THEN i ELSE i + 1]
<1>1. Len(s) \in Nat /\ k \in 1..Len(s) /\ \A i \in 1..Len(s) : s[i] \in S
  OBVIOUS
<1> DEFINE a == SubSeq(s, 1, k - 1)
           b == SubSeq(s, k + 1, Len(s))
<1>2. a \in Seq(S) /\ Len(a) = k - 1 /\ \A i \in 1..(k - 1) : a[i] = s[i]
  BY <1>1, SubSeqProperties
<1>3. b \in Seq(S) /\ Len(b) = Len(s) - k /\ \A i \in 1..(Len(s) - k) : b[i] = s[i + k]
  BY <1>1, SubSeqProperties
<1> HIDE DEF a, b
<1>4. Len(a \o b) = Len(s) - 1
  BY <1>1, <1>2, <1>3
<1>5. \A i \in 1..(Len(s) - 1) : (a \o b)[i] = s[IF i < k THEN i ELSE i + 1]
  BY <1>1, <1>2, <1>3
<1> QED
  BY <1>4, <1>5 DEF RemoveAt, a, b

QueuedByCallback == SupportsRetrieveCallback /\ ~return_ordered

Unqueued(t) == IF QueuedByCallback THEN cb[t] \in {"none", "enter", "retrieve"}
               ELSE t[2] > taken[t[1]]

\* A task that runs has no callback yet, and never has one without callbacks.
OneCallback ==
    /\ \A t \in Task : worker[t] = "running" => cb[t] = "none"
    /\ ~SupportsRetrieveCallback => \A t \in Task : cb[t] = "none"

FirstInv == \A c \in Calls : first[c] => delivered[c] = <<>>

OnceInv ==
    /\ \A i, j \in DOMAIN outputs : outputs[i] = outputs[j] => i = j
    /\ \A c \in Calls : \A i \in DOMAIN Values(c), j \in DOMAIN outputs :
          Values(c)[i] # outputs[j]
    /\ DeliveredOnce
    /\ \A t \in Task : Unqueued(t) =>
          /\ \A j \in DOMAIN outputs : outputs[j] # t
          /\ \A c \in Calls : \A i \in DOMAIN Values(c) : Values(c)[i] # t

LEMMA OnceQuiet ==
    ASSUME OnceInv, UNCHANGED <<outputs, dropped, delivered>>,
           \A t \in Task : Unqueued(t)' => Unqueued(t)
    PROVE  OnceInv'
<1>1. \A c : Values(c)' = Values(c)
  BY DEF Values
<1> QED
  BY <1>1 DEF OnceInv, DeliveredOnce

LEMMA OnceAppend ==
    ASSUME TypeOK, OnceInv, UNCHANGED <<dropped, delivered>>,
           NEW t \in Task, Unqueued(t), outputs' = Append(outputs, t),
           \A u \in Task : Unqueued(u)' => Unqueued(u) /\ u # t
    PROVE  OnceInv'
<1>1. \A c : Values(c)' = Values(c)
  BY DEF Values
<1>2. outputs \in Seq(Task) /\ Len(outputs) \in Nat
  BY DEF TypeOK, ObjectTypeOK
<1>3. /\ DOMAIN outputs' = 1..(Len(outputs) + 1) /\ DOMAIN outputs = 1..Len(outputs)
      /\ \A i \in DOMAIN outputs : outputs'[i] = outputs[i]
      /\ outputs'[Len(outputs) + 1] = t
  BY <1>2
<1>4. \A i, j \in DOMAIN outputs' : outputs'[i] = outputs'[j] => i = j
  BY <1>2, <1>3 DEF OnceInv
<1>5. \A c \in Calls : \A i \in DOMAIN Values(c), j \in DOMAIN outputs' :
          Values(c)[i] # outputs'[j]
  BY <1>2, <1>3 DEF OnceInv
<1>6. \A u \in Task : Unqueued(u)' => \A j \in DOMAIN outputs' : outputs'[j] # u
  BY <1>2, <1>3 DEF OnceInv
<1> QED
  BY <1>1, <1>4, <1>5, <1>6 DEF OnceInv, DeliveredOnce

LEMMA OnceRetrieve ==
    ASSUME TypeOK, FirstInv, OnceInv, NEW c \in Calls, Retrieve(c)
    PROVE  OnceInv'
<1>1. PICK k \in DOMAIN outputs :
        /\ outputs' = RemoveAt(outputs, k)
        /\ \/ UNCHANGED <<dropped, delivered>>
           \/ Yield(c, outputs[k])
  BY DEF Retrieve
<1>2. outputs \in Seq(Task) /\ Len(outputs) \in Nat /\ outputs[k] \in Task
  BY DEF TypeOK, ObjectTypeOK
<1>3. /\ outputs' \in Seq(Task) /\ Len(outputs') = Len(outputs) - 1
      /\ \A i \in 1..(Len(outputs) - 1) : outputs'[i] = outputs[IF i < k THEN i ELSE i + 1]
  BY <1>1, <1>2, RemoveAtElements, RemoveAtType
<1>4. \A i \in DOMAIN outputs' : \E j \in DOMAIN outputs :
          j # k /\ outputs'[i] = outputs[j] /\ j = (IF i < k THEN i ELSE i + 1)
  BY <1>2, <1>3
<1>5. \A i, j \in DOMAIN outputs' : outputs'[i] = outputs'[j] => i = j
  BY <1>2, <1>3, <1>4 DEF OnceInv
<1>6. \A i \in DOMAIN outputs' : outputs'[i] # outputs[k]
  BY <1>4 DEF OnceInv
<1>7. \A t \in Task : Unqueued(t)' <=> Unqueued(t)
  BY DEF Retrieve, batchVars, Unqueued
<1>8. CASE UNCHANGED <<dropped, delivered>>
  <2>1. \A d : Values(d)' = Values(d)
    BY <1>8 DEF Values
  <2> QED
    BY <1>4, <1>5, <1>7, <2>1 DEF OnceInv, DeliveredOnce
<1>9. CASE Yield(c, outputs[k])
  <2>1. /\ Values(c)' = Append(Values(c), outputs[k])
        /\ \A d \in Calls : d # c => Values(d)' = Values(d)
    BY <1>2, <1>9, YieldAppends DEF FirstInv, Values
  <2>2. \A d \in Calls : Values(d) \in Seq(Task) /\ Len(Values(d)) \in Nat
    BY ValuesType
  <2>3. \A d \in Calls : \A i \in DOMAIN Values(d)' :
          \/ i \in DOMAIN Values(d) /\ Values(d)'[i] = Values(d)[i]
          \/ d = c /\ i = Len(Values(c)) + 1 /\ Values(d)'[i] = outputs[k]
    <3> SUFFICES ASSUME NEW d \in Calls, NEW i \in DOMAIN Values(d)'
                 PROVE  \/ i \in DOMAIN Values(d) /\ Values(d)'[i] = Values(d)[i]
                        \/ d = c /\ i = Len(Values(c)) + 1 /\ Values(d)'[i] = outputs[k]
      OBVIOUS
    <3>1. CASE d # c
      BY <2>1, <3>1
    <3>2. CASE d = c
      BY <1>2, <2>1, <2>2, <3>2
    <3> QED
      BY <3>1, <3>2
  <2>4. \A d \in Calls : \A i \in DOMAIN Values(d), j \in DOMAIN outputs :
          Values(d)[i] # outputs[j]
    BY DEF OnceInv
  <2>5. DeliveredOnce'
    <3> SUFFICES ASSUME NEW d \in Calls, NEW e \in Calls, NEW i \in DOMAIN Values(d)',
                        NEW j \in DOMAIN Values(e)', Values(d)'[i] = Values(e)'[j]
                 PROVE  d = e /\ i = j
      BY DEF DeliveredOnce
    <3> QED
      BY <2>3, <2>4 DEF OnceInv, DeliveredOnce
  <2>6. \A d \in Calls : \A i \in DOMAIN Values(d)', j \in DOMAIN outputs' :
          Values(d)'[i] # outputs'[j]
    BY <1>4, <1>6, <2>3, <2>4
  <2>7. \A t \in Task : Unqueued(t)' => \A d \in Calls : \A i \in DOMAIN Values(d)' :
          Values(d)'[i] # t
    BY <1>7, <2>3 DEF OnceInv
  <2>8. \A t \in Task : Unqueued(t)' => \A j \in DOMAIN outputs' : outputs'[j] # t
    BY <1>4, <1>7 DEF OnceInv
  <2> QED
    BY <1>5, <2>5, <2>6, <2>7, <2>8 DEF OnceInv
<1> QED
  BY <1>1, <1>8, <1>9
\* Who draws a task, the consumer or a callback.
LEMMA OnceDispatch ==
    ASSUME TypeOK, CallbackInv, OneCallback, OnceInv, HasNextTask, DispatchOneBatch,
           UNCHANGED <<dropped, delivered>>,
           \A t \in Task : cb'[t] \in {"none", "enter", "retrieve"} => cb'[t] = cb[t]
    PROVE  OnceInv'
<1>1. NextTask \in Task /\ NextTask[2] > taken[NextTask[1]]
  BY NextTaskType DEF TypeOK, UserTypeOK
<1>2. CASE QueuedByCallback
  BY <1>2, OnceQuiet DEF Unqueued, DispatchOneBatch, QueuedByCallback
<1>3. CASE ~QueuedByCallback
  <2>1. outputs' = Append(outputs, NextTask)
    BY <1>3 DEF DispatchOneBatch, QueuedByCallback
  <2>2. \A u \in Task : Unqueued(u)' => Unqueued(u) /\ u # NextTask
    BY <1>3, DispatchFresh DEF Unqueued, QueuedByCallback
  <2> QED
    BY <1>1, <1>3, <2>1, <2>2, OnceAppend DEF Unqueued
<1> QED
  BY <1>2, <1>3

LEMMA OneCallbackNext ==
    ASSUME TypeOK, CallbackInv, OneCallback, [Next]_vars
    PROVE  OneCallback'
<1> USE DEF OneCallback
<1>1. ASSUME HasNextTask, DispatchOneBatch,
             \A t \in Task : cb[t] = "none" => cb'[t] = "none",
             ~SupportsRetrieveCallback => cb' = cb
      PROVE  OneCallback'
  BY <1>1, DispatchFresh
<1>2. ASSUME NEW c \in Calls, ConsumerDispatch(c) PROVE OneCallback'
  BY <1>1, <1>2 DEF ConsumerDispatch
<1>3. ASSUME NEW t \in Task, CallbackDispatch(t) PROVE OneCallback'
  BY <1>1, <1>3 DEF CallbackDispatch, TypeOK, BatchTypeOK
<1>4. ASSUME NEW t \in Task, WorkerDone(t) PROVE OneCallback'
  BY <1>4 DEF WorkerDone, TypeOK, BatchTypeOK
<1>5. ASSUME NEW t \in Task, CallbackEnter(t) PROVE OneCallback'
  BY <1>5 DEF CallbackEnter, TypeOK, BatchTypeOK
<1>6. ASSUME NEW t \in Task, RetrieveResult(t) PROVE OneCallback'
  BY <1>6 DEF RetrieveResult, TypeOK, BatchTypeOK
<1>7. ASSUME NEW t \in Task, DispatchNew(t) \/ CallbackClearIterating(t) PROVE OneCallback'
  BY <1>7 DEF DispatchNew, CallbackClearIterating, TypeOK, BatchTypeOK
<1>8. CASE Exit
  BY <1>8 DEF Exit
<1>9. ASSUME NEW c \in Calls, Call(c) \/ Resume(c) \/ ResetCounters(c) \/ NewCallId(c)
             \/ ResetIterating(c) \/ Setup(c) \/ Loop(c) \/ CheckIterating(c)
             \/ ConsumerClearIterating(c) \/ CheckAborting(c) \/ Retrieve(c)
      PROVE  UNCHANGED <<worker, cb>>
  BY <1>9 DEF Call, Resume, ResetCounters, ResetIterating, NewCallId, Setup, Loop,
     CheckIterating, ConsumerClearIterating, CheckAborting, Retrieve, batchVars
<1>10. CASE Enter \/ UNCHANGED vars
  BY <1>10 DEF Enter, vars, batchVars
<1> QED
  BY <1>2, <1>3, <1>4, <1>5, <1>6, <1>7, <1>8, <1>9, <1>10
  DEF Next, User, UserNext, InsideCall, Generator, ResumeList, Callback

LEMMA FirstInvNext ==
    ASSUME TypeOK, FirstInv, [Next]_vars
    PROVE  FirstInv'
<1> USE DEF FirstInv
<1>1. ASSUME NEW c \in Calls, Retrieve(c) PROVE FirstInv'
  <2>1. UNCHANGED <<first, delivered>> \/ \E k \in DOMAIN outputs : Yield(c, outputs[k])
    BY <1>1 DEF Retrieve
  <2> QED
    BY <2>1 DEF Yield, TypeOK, UserTypeOK
<1>2. ASSUME NEW c \in Calls, Call(c) \/ Resume(c) \/ ResetCounters(c) \/ NewCallId(c)
             \/ ResetIterating(c) \/ Setup(c) \/ Loop(c) \/ CheckIterating(c)
             \/ ConsumerClearIterating(c) \/ CheckAborting(c) \/ ConsumerDispatch(c)
      PROVE  UNCHANGED <<first, delivered>>
  BY <1>2 DEF Call, Resume, ResetCounters, ResetIterating, NewCallId, Setup, Loop,
     CheckIterating, ConsumerClearIterating, CheckAborting, ConsumerDispatch
<1>3. ASSUME NEW t \in Task, WorkerDone(t) \/ Callback(t) PROVE UNCHANGED <<first, delivered>>
  BY <1>3 DEF WorkerDone, Callback, CallbackEnter, RetrieveResult, DispatchNew,
     CallbackDispatch, CallbackClearIterating, userVars
<1>4. ASSUME Enter \/ Exit \/ UNCHANGED vars PROVE UNCHANGED <<first, delivered>>
  BY <1>4 DEF Enter, Exit, vars, userVars
<1> QED
  BY <1>1, <1>2, <1>3, <1>4 DEF Next, User, UserNext, InsideCall, Generator, ResumeList

LEMMA OnceInvNext ==
    ASSUME TypeOK, CallbackInv, OneCallback, FirstInv, OnceInv, [Next]_vars
    PROVE  OnceInv'
<1>1. ASSUME UNCHANGED <<outputs, dropped, delivered, taken>>,
             \A t \in Task : cb'[t] \in {"none", "enter", "retrieve"}
                             => cb[t] \in {"none", "enter", "retrieve"}
      PROVE  OnceInv'
  BY <1>1, OnceQuiet DEF Unqueued
<1>2. ASSUME NEW c \in Calls, ConsumerDispatch(c) PROVE OnceInv'
  BY <1>1, <1>2, OnceDispatch DEF ConsumerDispatch
<1>3. ASSUME NEW t \in Task, CallbackDispatch(t) PROVE OnceInv'
  <2>1. \A u \in Task : cb'[u] \in {"none", "enter", "retrieve"} => cb'[u] = cb[u]
    BY <1>3 DEF CallbackDispatch, TypeOK, BatchTypeOK
  <2> QED
    BY <1>1, <1>3, <2>1, OnceDispatch DEF CallbackDispatch
<1>4. ASSUME NEW t \in Task, RetrieveResult(t) PROVE OnceInv'
  <2>1. /\ SupportsRetrieveCallback /\ cb[t] = "retrieve"
        /\ UNCHANGED <<dropped, delivered, taken>>
        /\ \A u \in Task : cb'[u] \in {"none", "enter", "retrieve"} => cb'[u] = cb[u] /\ u # t
    BY <1>4 DEF RetrieveResult, userVars, OneCallback, TypeOK, BatchTypeOK
  <2>2. CASE return_ordered
    BY <1>1, <1>4, <2>1, <2>2 DEF RetrieveResult
  <2>3. CASE ~return_ordered
    <3>1. QueuedByCallback /\ outputs' = Append(outputs, t)
      BY <1>4, <2>1, <2>3 DEF RetrieveResult, QueuedByCallback
    <3>2. Unqueued(t) /\ \A u \in Task : Unqueued(u)' => Unqueued(u) /\ u # t
      BY <2>1, <3>1 DEF Unqueued
    <3> QED
      BY <2>1, <3>1, <3>2, OnceAppend
  <2> QED
    BY <2>2, <2>3
<1>5. ASSUME NEW t \in Task, WorkerDone(t) PROVE OnceInv'
  BY <1>1, <1>5 DEF WorkerDone, userVars, OneCallback, TypeOK, BatchTypeOK
<1>6. ASSUME NEW t \in Task, CallbackEnter(t) PROVE OnceInv'
  BY <1>1, <1>6 DEF CallbackEnter, userVars, TypeOK, BatchTypeOK
<1>7. ASSUME NEW t \in Task, DispatchNew(t) \/ CallbackClearIterating(t) PROVE OnceInv'
  BY <1>1, <1>7 DEF DispatchNew, CallbackClearIterating, userVars, TypeOK, BatchTypeOK
<1>8. ASSUME NEW c \in Calls, Call(c) \/ Resume(c) \/ ResetCounters(c) \/ NewCallId(c)
             \/ ResetIterating(c) \/ Setup(c) \/ Loop(c) \/ CheckIterating(c)
             \/ ConsumerClearIterating(c) \/ CheckAborting(c)
      PROVE  UNCHANGED <<outputs, dropped, delivered, taken, cb>>
  BY <1>8 DEF Call, Resume, ResetCounters, ResetIterating, NewCallId, Setup, Loop,
     CheckIterating, ConsumerClearIterating, CheckAborting, batchVars
<1>9. ASSUME Enter \/ Exit \/ UNCHANGED vars
      PROVE  UNCHANGED <<outputs, dropped, delivered, taken, cb>>
  BY <1>9 DEF Enter, Exit, vars, userVars, batchVars
<1> QED
  BY <1>1, <1>2, <1>3, <1>4, <1>5, <1>6, <1>7, <1>8, <1>9, OnceRetrieve
  DEF Next, User, UserNext, InsideCall, Generator, ResumeList, Callback

LEMMA OnceInit == Init => OneCallback /\ FirstInv /\ OnceInv
<1> SUFFICES ASSUME Init PROVE OneCallback /\ FirstInv /\ OnceInv
  OBVIOUS
<1>1. \A c \in Calls : Values(c) = <<>>
  BY DEF Init, Values
<1>2. outputs = <<>>
  BY DEF Init
<1> QED
  BY <1>1, <1>2 DEF Init, OneCallback, FirstInv, OnceInv, DeliveredOnce

LEMMA OnceInvariant == Spec => [](CallbackInv /\ OneCallback /\ FirstInv /\ OnceInv)
  BY TypeInit, TypeNext, CallbackInvInit, CallbackInvNext, OnceInit, OneCallbackNext,
     FirstInvNext, OnceInvNext, PTL DEF Spec

(***************************************************************************)
(* No value reaches a user twice: whatever calls overlap, fail or are      *)
(* aborted, a batch is put into the queue once and taken out of it once    *)
(* (retrieve in _get_outputs, the append to _jobs in the callback).        *)
(***************************************************************************)
THEOREM EachValueOnce == Spec => []DeliveredOnce
<1>1. OnceInv => DeliveredOnce
  BY DEF OnceInv
<1> QED
  BY <1>1, OnceInvariant, PTL

-----------------------------------------------------------------------------
(***************************************************************************)
(* Work in flight, of one call.  What may keep a worker busy now or soon   *)
(* (Pending): a task whose outcome is not registered, or one whose         *)
(* callback is yet to dispatch a successor.  Only the consumer adds to it, *)
(* and it does so when all that was dispatched is registered.              *)
(***************************************************************************)
Undone(t) == worker[t] = "running" \/ cb[t] \in {"enter", "retrieve"}

Pending == {t \in Task : Undone(t) \/ cb[t] \in {"dispatch_new", "dispatch"}}

Deciding == {"check_iterating", "dispatch"}

\* The counters of the only call.
SingleCounts == \A c \in Calls :
    /\ n_dispatched_tasks = taken[c]
    /\ n_completed_tasks + (IF pc[c] = "yielded" THEN 1 ELSE 0) = Len(Values(c))
    /\ pc[c] \in {"idle"} \union InCall
         => original_iterator = NoCall /\ taken[c] = 0 /\ n_completed_tasks = 0

RegisteredInv ==
    /\ \A t \in Task : status[t] \in {"Done", "Error"} => ~Undone(t)
    /\ \A c \in Calls : \A i \in DOMAIN Values(c) : ~Undone(Values(c)[i])

InFlightInv ==
    /\ Cardinality(ActiveCallbacks) <= CallbackThreads
    /\ \A c \in Calls : Cardinality(Pending) <=
          CallbackThreads + (IF pc[c] \in Deciding THEN 0 ELSE 1)

LEMMA TasksFinite == IsFiniteSet(Task)
<1>1. IsFiniteSet(1..MaxCalls) /\ IsFiniteSet(1..MaxTasks)
  BY ParametersAssumption, FS_Interval DEF ParametersAssumption
<1> QED
  BY <1>1, FS_Product DEF Task, Calls

LEMMA SubsetCount ==
    ASSUME NEW S, NEW T, S \subseteq T, T \subseteq Task
    PROVE  Cardinality(S) <= Cardinality(T) /\ Cardinality(S) \in Nat /\ Cardinality(T) \in Nat
<1>1. IsFiniteSet(T)
  BY TasksFinite, FS_Subset
<1>2. IsFiniteSet(S) /\ Cardinality(S) <= Cardinality(T)
  BY <1>1, FS_Subset
<1> QED
  BY <1>1, <1>2, FS_CardinalityType

\* Values of a call are tasks it has drawn, each once, so when there are as
\* many as tasks drawn, every task drawn is among them.
LEMMA AllDrawnAreValues ==
    ASSUME MaxCalls = 1, TypeOK, CallbackInv, OnceInv, NEW c \in Calls,
           taken[c] <= Len(Values(c)), NEW t \in Task, t[2] <= taken[c]
    PROVE  \E i \in DOMAIN Values(c) : Values(c)[i] = t
<1> DEFINE n == Len(Values(c))
           Drawn == {c} \X (1..taken[c])
           f == [i \in 1..n |-> Values(c)[i]]
<1>1. Values(c) \in Seq(Task) /\ n \in Nat /\ DOMAIN Values(c) = 1..n
  BY ValuesType
<1>2. taken[c] \in Nat
  BY ParametersAssumption DEF ParametersAssumption, TypeOK, UserTypeOK
<1>3. \A u \in Task : u[1] = c /\ u[2] \in Nat \ {0} /\ u = <<u[1], u[2]>>
  BY ParametersAssumption DEF ParametersAssumption, Task, Calls
<1>4. ASSUME NEW i \in 1..n PROVE Values(c)[i] \in Drawn
  <2>1. Values(c)[i] \in Task
    BY <1>1
  <2>2. ~Unqueued(Values(c)[i])
    BY <1>1, <2>1 DEF OnceInv
  <2>3. Values(c)[i][2] <= taken[c]
    BY <1>2, <1>3, <2>1, <2>2 DEF Unqueued, CallbackInv, NotDrawnYet
  <2> QED
    BY <1>2, <1>3, <2>1, <2>3
<1>5. f \in Injection(1..n, Drawn)
  <2>1. f \in [1..n -> Drawn]
    BY <1>4
  <2>2. \A i, j \in 1..n : f[i] = f[j] => i = j
    BY <1>1 DEF OnceInv, DeliveredOnce
  <2> QED
    BY <2>1, <2>2 DEF Injection, IsInjective
<1>6. IsFiniteSet(Drawn) /\ Cardinality(Drawn) = taken[c]
  <2>1. IsFiniteSet({c}) /\ Cardinality({c}) = 1
    BY FS_Singleton
  <2>2. IsFiniteSet(1..taken[c]) /\ Cardinality(1..taken[c]) = taken[c]
    <3>1. \A m \in Nat : IsFiniteSet(1..m) /\ Cardinality(1..m) = m
      BY FS_Interval
    <3> QED
      BY <1>2, <3>1
  <2>3. IsFiniteSet(Drawn) /\ Cardinality(Drawn) = Cardinality({c}) * Cardinality(1..taken[c])
    BY <2>1, <2>2, FS_Product
  <2> QED
    BY <1>2, <2>1, <2>2, <2>3
<1>7. Cardinality(1..n) = n
  BY <1>1, FS_Interval
<1> HIDE DEF f, Drawn
<1>8. Cardinality(1..n) <= Cardinality(Drawn)
      /\ (Cardinality(1..n) = Cardinality(Drawn) <=> f \in Surjection(1..n, Drawn))
  BY <1>5, <1>6, FS_Injection
<1>9. f \in Surjection(1..n, Drawn)
  BY <1>1, <1>2, <1>6, <1>7, <1>8
<1>10. t \in Drawn
  BY <1>2, <1>3 DEF Drawn
<1>11. PICK i \in 1..n : f[i] = t
  BY <1>9, <1>10 DEF Surjection
<1> QED
  BY <1>1, <1>11 DEF f

LEMMA LoopFindsAllDone ==
    ASSUME MaxCalls = 1, TypeOK, CallbackInv, OnceInv, SingleCounts, RegisteredInv,
           NEW c \in Calls, ~ (n_completed_tasks < n_dispatched_tasks)
    PROVE  Pending \subseteq ActiveCallbacks
<1>1. taken[c] <= Len(Values(c))
  <2>1. /\ n_completed_tasks \in Nat /\ n_dispatched_tasks \in Nat
        /\ Len(Values(c)) \in Nat
    BY ValuesType DEF TypeOK, ObjectTypeOK
  <2>2. n_dispatched_tasks = taken[c] /\ n_completed_tasks <= Len(Values(c))
    <3>1. n_completed_tasks + (IF pc[c] = "yielded" THEN 1 ELSE 0) <= Len(Values(c))
      BY DEF SingleCounts
    <3> QED
      BY <2>1, <3>1 DEF SingleCounts
  <2> QED
    BY <2>1, <2>2
<1>2. taken[c] \in Nat /\ \A t \in Task : t[1] = c /\ t[2] \in Nat
  BY ParametersAssumption DEF ParametersAssumption, TypeOK, UserTypeOK, Task, Calls
<1>3. ASSUME NEW t \in Task PROVE ~Undone(t)
  <2>1. CASE t[2] <= taken[c]
    BY <1>1, <2>1, AllDrawnAreValues DEF RegisteredInv
  <2>2. CASE t[2] > taken[c]
    BY <1>2, <2>2 DEF CallbackInv, NotDrawnYet, Undone
  <2> QED
    BY <1>2, <2>1, <2>2
<1> QED
  BY <1>3 DEF Pending, ActiveCallbacks

LEMMA SingleInit == Init => SingleCounts /\ RegisteredInv /\ InFlightInv
<1> SUFFICES ASSUME Init PROVE SingleCounts /\ RegisteredInv /\ InFlightInv
  OBVIOUS
<1>1. \A c \in Calls : Values(c) = <<>>
  BY DEF Init, Values
<1>2. SingleCounts
  BY <1>1 DEF Init, SingleCounts, InCall
<1>3. RegisteredInv
  BY <1>1 DEF Init, RegisteredInv
<1>4. ActiveCallbacks = {} /\ Pending = {}
  BY DEF Init, ActiveCallbacks, Pending, Undone
<1>5. InFlightInv
  BY <1>4, FS_EmptySet, ParametersAssumption DEF InFlightInv, ParametersAssumption
<1> QED
  BY <1>2, <1>3, <1>5

LEMMA ValuesUnchanged ==
    ASSUME UNCHANGED <<dropped, delivered>>
    PROVE  \A c : Values(c)' = Values(c)
BY DEF Values

LEMMA SingleCountsNext ==
    ASSUME MaxCalls = 1, TypeOK, FirstInv, SingleCounts, [Next]_vars
    PROVE  SingleCounts'
<1> USE DEF SingleCounts
<1>a. \A c, d \in Calls : c = d
  BY DEF Calls
<1>b. \A c \in Calls : Len(Values(c)) \in Nat /\ taken[c] \in Nat
  BY ValuesType, ParametersAssumption DEF ParametersAssumption, TypeOK, UserTypeOK
<1>c. n_completed_tasks \in Nat /\ n_dispatched_tasks \in Nat
  BY DEF TypeOK, ObjectTypeOK
<1>1. CASE UNCHANGED <<n_dispatched_tasks, n_completed_tasks, taken, dropped, delivered,
                       original_iterator, pc>>
  BY <1>1, ValuesUnchanged
<1>2. ASSUME NEW c \in Calls, ResetCounters(c) PROVE SingleCounts'
  <2>1. /\ UNCHANGED <<taken, dropped, delivered, original_iterator>>
        /\ n_completed_tasks' = 0 /\ n_dispatched_tasks' = 0
        /\ pc[c] = "reset" /\ pc'[c] = "reset_iterating"
    BY <1>2 DEF ResetCounters, Goto, TypeOK, UserTypeOK
  <2>2. taken[c] = 0 /\ original_iterator = NoCall
    BY <2>1 DEF InCall
  <2>3. Len(Values(c)) = 0
    BY <1>b, <1>c, <2>1 DEF InCall
  <2>4. Len(Values(c)') = 0
    BY <2>1, <2>3, ValuesUnchanged
  <2> HIDE DEF Values
  <2> QED
    BY <1>a, <1>b, <2>1, <2>2, <2>4
<1>3. ASSUME NEW c \in Calls, Setup(c) PROVE SingleCounts'
  BY <1>3, <1>a, ValuesUnchanged DEF Setup, Goto, InCall, TypeOK, UserTypeOK
<1>4. ASSUME NEW c \in Calls, Call(c) \/ ResetIterating(c) \/ NewCallId(c)
      PROVE  SingleCounts'
  BY <1>4, <1>a, ValuesUnchanged DEF Call, ResetIterating, NewCallId, objectVars, Goto,
     InCall, TypeOK, UserTypeOK
<1>5. ASSUME NEW c \in Calls, Loop(c) \/ CheckIterating(c) \/ ConsumerClearIterating(c)
             \/ CheckAborting(c)
      PROVE  SingleCounts'
  <2>1. /\ UNCHANGED <<n_dispatched_tasks, n_completed_tasks, taken, dropped, delivered,
                       original_iterator>>
        /\ pc[c] # "yielded"
        /\ pc'[c] \notin {"idle", "yielded"} \union InCall
    BY <1>5 DEF Loop, CheckIterating, ConsumerClearIterating, CheckAborting, EndGenerator,
       objectVars, Goto, InCall, TypeOK, UserTypeOK
  <2> QED
    BY <1>a, <2>1, ValuesUnchanged
<1>6. ASSUME NEW c \in Calls, Resume(c) PROVE SingleCounts'
  <2>1. /\ UNCHANGED <<n_dispatched_tasks, taken, dropped, delivered, original_iterator>>
        /\ n_completed_tasks' = n_completed_tasks + 1
        /\ pc[c] = "yielded" /\ pc'[c] = "check_aborting"
    BY <1>6 DEF Resume, Goto, TypeOK, UserTypeOK
  <2> QED
    BY <1>a, <1>b, <1>c, <2>1, ValuesUnchanged DEF InCall
<1>7. ASSUME NEW c \in Calls, Retrieve(c) PROVE SingleCounts'
  <2>1. /\ UNCHANGED <<n_dispatched_tasks, n_completed_tasks, taken, original_iterator>>
        /\ pc[c] = "retrieve"
    BY <1>7 DEF Retrieve, objectVars
  <2>2. PICK k \in DOMAIN outputs :
          IF worker[outputs[k]] = "error"
          THEN Goto(c, "raised") /\ UNCHANGED <<dropped, delivered>>
          ELSE Yield(c, outputs[k])
    BY <1>7 DEF Retrieve
  <2>3. CASE worker[outputs[k]] = "error"
    <3>1. pc'[c] = "raised"
      BY <2>2, <2>3 DEF Goto, TypeOK, UserTypeOK
    <3> QED
      BY <1>a, <2>1, <2>2, <2>3, <3>1, ValuesUnchanged DEF InCall
  <2>4. CASE worker[outputs[k]] # "error"
    <3>1. outputs[k] \in Task
      BY DEF TypeOK, ObjectTypeOK
    <3>2. Values(c)' = Append(Values(c), outputs[k]) /\ pc'[c] = "yielded"
      BY <2>2, <2>4, <3>1, YieldAppends DEF FirstInv
    <3>3. Len(Values(c)') = Len(Values(c)) + 1
      BY <3>1, <3>2, ValuesType
    <3> QED
      BY <1>a, <1>b, <1>c, <2>1, <3>2, <3>3 DEF InCall
  <2> QED
    BY <2>3, <2>4
<1>8. ASSUME HasNextTask, DispatchOneBatch,
             UNCHANGED <<n_completed_tasks, dropped, delivered, original_iterator>>,
             \A c \in Calls : pc'[c] = pc[c] \/ (pc[c] = "dispatch" /\ pc'[c] = "check_aborting")
      PROVE  SingleCounts'
  <2>1. original_iterator \in Calls /\ original_iterator # NoCall
    BY <1>8, NextTaskType DEF HasNextTask
  <2>2. /\ taken'[original_iterator] = taken[original_iterator] + 1
        /\ n_dispatched_tasks' = n_dispatched_tasks + 1
    BY <1>8, <2>1 DEF DispatchOneBatch, TypeOK, UserTypeOK
  <2>3. \A c \in Calls : pc[c] \notin {"idle"} \union InCall
    BY <2>1
  <2> QED
    BY <1>a, <1>8, <2>1, <2>2, <2>3, ValuesUnchanged DEF InCall
<1>9. ASSUME NEW c \in Calls, ConsumerDispatch(c) PROVE SingleCounts'
  <2>1. CASE HasNextTask
    BY <1>8, <1>9, <2>1 DEF ConsumerDispatch, Goto, TypeOK, UserTypeOK
  <2>2. CASE ~HasNextTask
    BY <1>a, <1>9, <2>2, ValuesUnchanged DEF ConsumerDispatch, Goto, InCall, TypeOK, UserTypeOK
  <2> QED
    BY <2>1, <2>2
<1>10. ASSUME NEW t \in Task, CallbackDispatch(t) PROVE SingleCounts'
  BY <1>1, <1>8, <1>10 DEF CallbackDispatch
<1>11. ASSUME NEW t \in Task, WorkerDone(t) \/ CallbackEnter(t) \/ RetrieveResult(t)
              \/ DispatchNew(t) \/ CallbackClearIterating(t)
       PROVE  UNCHANGED <<n_dispatched_tasks, n_completed_tasks, taken, dropped, delivered,
                          original_iterator, pc>>
  BY <1>11 DEF WorkerDone, CallbackEnter, RetrieveResult, DispatchNew,
     CallbackClearIterating, objectVars, userVars
<1>12. ASSUME Enter \/ Exit \/ UNCHANGED vars
       PROVE  UNCHANGED <<n_dispatched_tasks, n_completed_tasks, taken, dropped, delivered,
                          original_iterator, pc>>
  BY <1>12 DEF Enter, Exit, vars, objectVars, userVars
<1> QED
  BY <1>1, <1>2, <1>3, <1>4, <1>5, <1>6, <1>7, <1>9, <1>10, <1>11, <1>12
  DEF Next, User, UserNext, InsideCall, Generator, ResumeList, Callback

LEMMA RegisteredInvNext ==
    ASSUME TypeOK, CallbackInv, OneCallback, FirstInv, OnceInv, RegisteredInv, [Next]_vars
    PROVE  RegisteredInv'
<1>a. \A c \in Calls : \A i \in DOMAIN Values(c) : Values(c)[i] \in Task
  BY ValuesType
<1>1. ASSUME UNCHANGED <<dropped, delivered>>,
             \A t \in Task : /\ Undone(t)' => Undone(t) /\ status'[t] = status[t]
      PROVE  RegisteredInv'
  BY <1>a, <1>1, ValuesUnchanged DEF RegisteredInv
<1>2. ASSUME HasNextTask, DispatchOneBatch, UNCHANGED <<dropped, delivered>>,
             \A t \in Task : cb'[t] = cb[t] \/ cb'[t] \notin {"enter", "retrieve"}
      PROVE  RegisteredInv'
  <2>1. NextTask \in Task /\ NextTask[2] > taken[NextTask[1]]
    BY <1>2, NextTaskType DEF TypeOK, UserTypeOK
  <2>2. \A c \in Calls : \A i \in DOMAIN Values(c) : Values(c)[i] # NextTask
    <3>1. Unqueued(NextTask)
      BY <2>1 DEF Unqueued, CallbackInv, NotDrawnYet
    <3> QED
      BY <2>1, <3>1 DEF OnceInv
  <2>3. status'[NextTask] \in {"Pending", "None"}
    BY <1>2, <2>1 DEF DispatchOneBatch, TypeOK, BatchTypeOK
  <2>4. \A t \in Task : t # NextTask =>
          /\ Undone(t)' => Undone(t)
          /\ status'[t] = status[t]
    BY <1>2, DispatchFresh DEF Undone
  <2> QED
    BY <1>2, <1>a, <2>2, <2>3, <2>4, ValuesUnchanged DEF RegisteredInv
<1>3. ASSUME NEW c \in Calls, ConsumerDispatch(c) PROVE RegisteredInv'
  BY <1>1, <1>2, <1>3 DEF ConsumerDispatch, Undone
<1>4. ASSUME NEW t \in Task, CallbackDispatch(t) PROVE RegisteredInv'
  <2>1. \A u \in Task : cb'[u] = cb[u] \/ cb'[u] \notin {"enter", "retrieve"}
    BY <1>4 DEF CallbackDispatch, TypeOK, BatchTypeOK
  <2> QED
    BY <1>1, <1>2, <1>4, <2>1 DEF CallbackDispatch, Undone
<1>5. ASSUME NEW t \in Task, WorkerDone(t) PROVE RegisteredInv'
  <2>1. \A u \in Task : Undone(u)' => Undone(u)
    BY <1>5 DEF WorkerDone, Undone, TypeOK, BatchTypeOK
  <2> QED
    BY <1>1, <1>5, <2>1 DEF WorkerDone, userVars
<1>6. ASSUME NEW t \in Task, CallbackEnter(t) \/ DispatchNew(t) \/ CallbackClearIterating(t)
      PROVE  RegisteredInv'
  <2>1. \A u \in Task : Undone(u)' => Undone(u)
    BY <1>6 DEF CallbackEnter, DispatchNew, CallbackClearIterating, Undone, TypeOK, BatchTypeOK
  <2> QED
    BY <1>1, <1>6, <2>1 DEF CallbackEnter, DispatchNew, CallbackClearIterating, userVars
<1>7. ASSUME NEW t \in Task, RetrieveResult(t) PROVE RegisteredInv'
  <2>1. \A u \in Task : Undone(u)' => Undone(u) /\ u # t
    BY <1>7 DEF RetrieveResult, OneCallback, Undone, TypeOK, BatchTypeOK
  <2>2. \A u \in Task : u # t => status'[u] = status[u]
    BY <1>7 DEF RetrieveResult, TypeOK, BatchTypeOK
  <2>3. UNCHANGED <<dropped, delivered>>
    BY <1>7 DEF RetrieveResult, userVars
  <2> QED
    BY <1>a, <2>1, <2>2, <2>3, ValuesUnchanged DEF RegisteredInv
<1>8. ASSUME NEW c \in Calls, Retrieve(c) PROVE RegisteredInv'
  <2>1. PICK k \in DOMAIN outputs :
          /\ Ready(outputs[k])
          /\ UNCHANGED <<dropped, delivered>> \/ Yield(c, outputs[k])
    BY <1>8 DEF Retrieve
  <2>2. outputs[k] \in Task /\ ~Undone(outputs[k])
    <3>1. outputs[k] \in Task
      BY DEF TypeOK, ObjectTypeOK
    <3> QED
      BY <2>1, <3>1 DEF Ready, RegisteredInv, OneCallback, Undone
  <2>3. \A t \in Task : /\ Undone(t)' <=> Undone(t)
                        /\ status'[t] = status[t]
    BY <1>8 DEF Retrieve, batchVars, Undone
  <2>4. CASE UNCHANGED <<dropped, delivered>>
    BY <1>1, <2>3, <2>4
  <2>5. CASE Yield(c, outputs[k])
    <3>1. /\ Values(c)' = Append(Values(c), outputs[k])
          /\ \A d \in Calls : d # c => Values(d)' = Values(d)
      BY <2>2, <2>5, YieldAppends DEF FirstInv, Values
    <3>2. Values(c) \in Seq(Task)
      BY ValuesType
    <3>3. \A i \in DOMAIN Values(c)' :
             (i \in DOMAIN Values(c) /\ Values(c)'[i] = Values(c)[i]) \/ Values(c)'[i] = outputs[k]
      BY <2>2, <3>1, <3>2
    <3>4. \A i \in DOMAIN Values(c)' : Values(c)'[i] \in Task /\ ~Undone(Values(c)'[i])
      BY <1>a, <2>2, <3>3 DEF RegisteredInv
    <3>5. \A d \in Calls : \A i \in DOMAIN Values(d)' : Values(d)'[i] \in Task /\ ~Undone(Values(d)'[i])
      <4>1. ASSUME NEW d \in Calls, d # c, NEW i \in DOMAIN Values(d)'
            PROVE  Values(d)'[i] \in Task /\ ~Undone(Values(d)'[i])
        BY <1>a, <3>1, <4>1 DEF RegisteredInv
      <4> QED
        BY <3>4, <4>1
    <3> QED
      BY <2>3, <3>5 DEF RegisteredInv
  <2> QED
    BY <2>1, <2>4, <2>5
<1>9. CASE Exit
  BY <1>1, <1>9 DEF Exit, userVars, Undone
<1>10. ASSUME NEW c \in Calls, Call(c) \/ Resume(c) \/ ResetCounters(c) \/ NewCallId(c)
             \/ ResetIterating(c) \/ Setup(c) \/ Loop(c) \/ CheckIterating(c)
             \/ ConsumerClearIterating(c) \/ CheckAborting(c)
      PROVE  UNCHANGED <<dropped, delivered, batchVars>>
  BY <1>10 DEF Call, Resume, ResetCounters, ResetIterating, NewCallId, Setup, Loop,
     CheckIterating, ConsumerClearIterating, CheckAborting
<1>11. ASSUME Enter \/ UNCHANGED vars PROVE UNCHANGED <<dropped, delivered, batchVars>>
  BY <1>11 DEF Enter, vars, userVars
<1>12. CASE UNCHANGED <<dropped, delivered, batchVars>>
  BY <1>1, <1>12 DEF batchVars, Undone
<1> QED
  BY <1>3, <1>4, <1>5, <1>6, <1>7, <1>8, <1>9, <1>10, <1>11, <1>12
  DEF Next, User, UserNext, InsideCall, Generator, ResumeList, Callback

\* Nothing new is pending, and the consumer does not come to decide.
LEMMA InFlightQuiet ==
    ASSUME InFlightInv, Pending' \subseteq Pending, ActiveCallbacks' \subseteq ActiveCallbacks,
           \A c \in Calls : pc'[c] \in Deciding => pc[c] \in Deciding
    PROVE  InFlightInv'
<1>1. Pending \subseteq Task /\ ActiveCallbacks \subseteq Task
  BY DEF Pending, ActiveCallbacks
<1>2. /\ Cardinality(Pending') <= Cardinality(Pending)
      /\ Cardinality(Pending') \in Nat /\ Cardinality(Pending) \in Nat
  BY <1>1, SubsetCount
<1>3. /\ Cardinality(ActiveCallbacks') <= Cardinality(ActiveCallbacks)
      /\ Cardinality(ActiveCallbacks') \in Nat /\ Cardinality(ActiveCallbacks) \in Nat
  BY <1>1, SubsetCount
<1> QED
  BY <1>2, <1>3, ParametersAssumption DEF InFlightInv, ParametersAssumption

(* Adding one element to a finite set adds at most one to its size.       *)
LEMMA OneMore ==
  ASSUME NEW S, NEW x, IsFiniteSet(S)
  PROVE  /\ IsFiniteSet(S \union {x})
         /\ Cardinality(S \union {x}) \in Nat
         /\ Cardinality(S \union {x}) <= Cardinality(S) + 1
<1>1. Cardinality(S) \in Nat
  BY FS_CardinalityType
<1>2. /\ IsFiniteSet(S \union {x})
      /\ \/ Cardinality(S \union {x}) = Cardinality(S)
         \/ Cardinality(S \union {x}) = Cardinality(S) + 1
  BY FS_AddElement
<1> QED
  BY <1>1, <1>2

\* The callback t leaves the pending tasks for the one it dispatches.
LEMMA PendingReplaced ==
    ASSUME NEW t \in Pending, NEW u, Pending' \subseteq (Pending \ {t}) \union {u}
    PROVE  /\ Cardinality(Pending') <= Cardinality(Pending)
           /\ Cardinality(Pending') \in Nat /\ Cardinality(Pending) \in Nat
<1>1. IsFiniteSet(Pending)
  <2>1. Pending \subseteq Task
    BY DEF Pending
  <2> QED
    BY <2>1, TasksFinite, FS_Subset
<1>2. IsFiniteSet(Pending \ {t}) /\ Cardinality(Pending \ {t}) = Cardinality(Pending) - 1
  BY <1>1, FS_RemoveElement
<1> DEFINE S == (Pending \ {t}) \union {u}
<1>3. Cardinality(Pending) \in Nat /\ Cardinality(Pending \ {t}) \in Nat
  BY <1>1, <1>2, FS_CardinalityType
<1>4. IsFiniteSet(S) /\ Cardinality(S) <= Cardinality(Pending)
  <2>1. /\ IsFiniteSet(S) /\ Cardinality(S) \in Nat
        /\ Cardinality(S) <= Cardinality(Pending \ {t}) + 1
    BY <1>2, OneMore
  <2> HIDE DEF S
  <2> QED
    BY <1>2, <1>3, <2>1
<1>5. IsFiniteSet(Pending') /\ Cardinality(Pending') <= Cardinality(S)
  BY <1>4, FS_Subset
<1>6. Cardinality(S) \in Nat /\ Cardinality(Pending') \in Nat
  BY <1>4, <1>5, FS_CardinalityType
<1> QED
  BY <1>3, <1>4, <1>5, <1>6

LEMMA PendingAdded ==
    ASSUME NEW u, Pending' \subseteq Pending \union {u}
    PROVE  /\ Cardinality(Pending') <= Cardinality(Pending) + 1
           /\ Cardinality(Pending') \in Nat /\ Cardinality(Pending) \in Nat
<1>1. IsFiniteSet(Pending)
  <2>1. Pending \subseteq Task
    BY DEF Pending
  <2> QED
    BY <2>1, TasksFinite, FS_Subset
<1> DEFINE S == Pending \union {u}
<1>2. Cardinality(Pending) \in Nat
  BY <1>1, FS_CardinalityType
<1>3. IsFiniteSet(S) /\ Cardinality(S) <= Cardinality(Pending) + 1
  BY <1>1, <1>2, OneMore
<1>4. IsFiniteSet(Pending') /\ Cardinality(Pending') <= Cardinality(S)
  BY <1>3, FS_Subset
<1>5. Cardinality(S) \in Nat /\ Cardinality(Pending') \in Nat
  BY <1>3, <1>4, FS_CardinalityType
<1> QED
  BY <1>2, <1>3, <1>4, <1>5

LEMMA InFlightInvNext ==
    ASSUME MaxCalls = 1, TypeOK, CallbackInv, OneCallback, OnceInv, SingleCounts,
           RegisteredInv, InFlightInv, [Next]_vars
    PROVE  InFlightInv'
<1>a. \A c, d \in Calls : c = d
  BY DEF Calls
<1>b. CallbackThreads \in Nat
  BY ParametersAssumption DEF ParametersAssumption
<1>1. ASSUME UNCHANGED pc, \A t \in Task : t \in Pending' => t \in Pending,
             \A t \in Task : t \in ActiveCallbacks' => t \in ActiveCallbacks
      PROVE  InFlightInv'
  BY <1>1, InFlightQuiet DEF Pending, ActiveCallbacks
<1>2. CASE UNCHANGED <<worker, cb>> /\ \A c \in Calls : pc'[c] \in Deciding => pc[c] \in Deciding
  BY <1>2, InFlightQuiet DEF Pending, Undone, ActiveCallbacks
<1>3. ASSUME NEW c \in Calls, Loop(c) PROVE InFlightInv'
  <2>1. UNCHANGED <<worker, cb>>
    BY <1>3 DEF Loop, batchVars
  <2>2. Pending' = Pending /\ ActiveCallbacks' = ActiveCallbacks
    BY <2>1 DEF Pending, Undone, ActiveCallbacks
  <2>3. CASE n_completed_tasks < n_dispatched_tasks
    <3>1. pc'[c] \notin Deciding
      BY <1>3, <2>3 DEF Loop, Goto, Deciding, TypeOK, UserTypeOK
    <3> QED
      BY <1>a, <1>2, <2>1, <3>1
  <2>4. CASE ~ (n_completed_tasks < n_dispatched_tasks)
    <3>1. Pending \subseteq ActiveCallbacks
      BY <2>4, LoopFindsAllDone
    <3>2. /\ Cardinality(Pending) <= Cardinality(ActiveCallbacks)
          /\ Cardinality(Pending) \in Nat /\ Cardinality(ActiveCallbacks) \in Nat
      <4>1. ActiveCallbacks \subseteq Task
        BY DEF ActiveCallbacks
      <4> QED
        BY <3>1, <4>1, SubsetCount
    <3> QED
      BY <1>b, <2>2, <3>2 DEF InFlightInv
  <2> QED
    BY <2>3, <2>4
<1>4. ASSUME NEW c \in Calls, ConsumerDispatch(c), HasNextTask PROVE InFlightInv'
  <2>1. Pending' \subseteq Pending \union {NextTask} /\ ActiveCallbacks' = ActiveCallbacks
    BY <1>4, DispatchFresh DEF ConsumerDispatch, Pending, Undone, ActiveCallbacks
  <2>2. pc[c] \in Deciding /\ pc'[c] \notin Deciding
    BY <1>4 DEF ConsumerDispatch, Goto, Deciding, TypeOK, UserTypeOK
  <2>3. Cardinality(Pending) <= CallbackThreads
    BY <1>b, <2>2 DEF InFlightInv
  <2>4. Cardinality(Pending') <= CallbackThreads + 1
    BY <1>b, <2>1, <2>3, PendingAdded
  <2> QED
    BY <1>a, <2>1, <2>2, <2>4 DEF InFlightInv
<1>5. ASSUME NEW t \in Task, CallbackDispatch(t), HasNextTask PROVE InFlightInv'
  <2>1. /\ DispatchOneBatch /\ UNCHANGED pc /\ cb[t] = "dispatch"
        /\ cb' = [cb EXCEPT ![t] = "returned"]
    BY <1>5 DEF CallbackDispatch
  <2>2. t \in Pending
    BY <2>1 DEF Pending
  <2>3. t # NextTask /\ worker[t] # "running"
    BY <1>5, <2>1, DispatchFresh DEF OneCallback
  <2>4. Pending' \subseteq (Pending \ {t}) \union {NextTask}
    BY <1>5, <2>1, <2>3, DispatchFresh DEF Pending, Undone, TypeOK, BatchTypeOK
  <2>5. \A u \in Task : u \in ActiveCallbacks' => u \in ActiveCallbacks
    BY <2>1 DEF ActiveCallbacks, TypeOK, BatchTypeOK
  <2>6. /\ Cardinality(Pending') <= Cardinality(Pending)
        /\ Cardinality(Pending') \in Nat /\ Cardinality(Pending) \in Nat
    BY <2>2, <2>4, PendingReplaced
  <2>7. /\ Cardinality(ActiveCallbacks') <= Cardinality(ActiveCallbacks)
        /\ Cardinality(ActiveCallbacks') \in Nat /\ Cardinality(ActiveCallbacks) \in Nat
    <3>1. ActiveCallbacks' \subseteq ActiveCallbacks /\ ActiveCallbacks \subseteq Task
      BY <2>5 DEF ActiveCallbacks
    <3> QED
      BY <3>1, SubsetCount
  <2> QED
    BY <1>b, <2>1, <2>6, <2>7 DEF InFlightInv
<1>6. ASSUME NEW t \in Task, CallbackDispatch(t), ~HasNextTask PROVE InFlightInv'
  BY <1>1, <1>6 DEF CallbackDispatch, Pending, Undone, ActiveCallbacks, TypeOK, BatchTypeOK
<1>7. ASSUME NEW t \in Task, WorkerDone(t) PROVE InFlightInv'
  BY <1>1, <1>7 DEF WorkerDone, userVars, Pending, Undone, ActiveCallbacks, TypeOK, BatchTypeOK
<1>8. ASSUME NEW t \in Task, CallbackEnter(t) PROVE InFlightInv'
  <2>1. UNCHANGED <<pc, worker>> /\ cb[t] = "enter"
    BY <1>8 DEF CallbackEnter, userVars
  <2>2. \A u \in Task : u \in Pending' => u \in Pending
    BY <1>8 DEF CallbackEnter, Pending, Undone, TypeOK, BatchTypeOK
  <2>3. Pending' \subseteq Pending /\ Pending \subseteq Task
    BY <2>2 DEF Pending
  <2>4. ActiveCallbacks' \subseteq ActiveCallbacks \union {t}
    BY <1>8 DEF CallbackEnter, ActiveCallbacks, TypeOK, BatchTypeOK
  <2>5. IsFiniteSet(ActiveCallbacks) /\ Cardinality(ActiveCallbacks) \in Nat
    <3>1. ActiveCallbacks \subseteq Task
      BY DEF ActiveCallbacks
    <3> QED
      BY <3>1, TasksFinite, FS_Subset, FS_CardinalityType
  <2>6. Cardinality(ActiveCallbacks) < CallbackThreads
    BY <1>8 DEF CallbackEnter
  <2>7. /\ IsFiniteSet(ActiveCallbacks \union {t})
        /\ Cardinality(ActiveCallbacks \union {t}) <= Cardinality(ActiveCallbacks) + 1
    BY <2>5, OneMore
  <2>8. /\ Cardinality(ActiveCallbacks \union {t}) \in Nat
        /\ Cardinality(ActiveCallbacks') \in Nat
        /\ Cardinality(ActiveCallbacks') <= Cardinality(ActiveCallbacks \union {t})
    BY <2>4, <2>7, FS_Subset, FS_CardinalityType
  <2>9. Cardinality(ActiveCallbacks') <= CallbackThreads
    BY <1>b, <2>5, <2>6, <2>7, <2>8
  <2>10. /\ Cardinality(Pending') <= Cardinality(Pending)
         /\ Cardinality(Pending') \in Nat /\ Cardinality(Pending) \in Nat
    BY <2>3, SubsetCount
  <2> QED
    BY <1>b, <2>1, <2>9, <2>10 DEF InFlightInv
<1>9. ASSUME NEW t \in Task, RetrieveResult(t) \/ DispatchNew(t) \/ CallbackClearIterating(t)
      PROVE  InFlightInv'
  <2>1. UNCHANGED <<pc, worker>>
    BY <1>9 DEF RetrieveResult, DispatchNew, CallbackClearIterating, userVars
  <2>2. \A u \in Task : u \in Pending' => u \in Pending
    BY <1>9 DEF RetrieveResult, DispatchNew, CallbackClearIterating, Pending, Undone,
       TypeOK, BatchTypeOK
  <2>3. \A u \in Task : u \in ActiveCallbacks' => u \in ActiveCallbacks
    BY <1>9 DEF RetrieveResult, DispatchNew, CallbackClearIterating, ActiveCallbacks,
       TypeOK, BatchTypeOK
  <2> QED
    BY <1>1, <2>1, <2>2, <2>3
<1>10. CASE Exit
  BY <1>1, <1>10 DEF Exit, userVars, Pending, Undone, ActiveCallbacks
<1>11. ASSUME NEW c \in Calls, Call(c) \/ Resume(c) \/ ResetCounters(c) \/ NewCallId(c)
              \/ ResetIterating(c) \/ Setup(c) \/ CheckIterating(c) \/ Retrieve(c)
              \/ ConsumerClearIterating(c) \/ CheckAborting(c)
              \/ (ConsumerDispatch(c) /\ ~HasNextTask)
       PROVE  InFlightInv'
  <2>1. UNCHANGED <<worker, cb>>
    BY <1>11 DEF Call, Resume, ResetCounters, ResetIterating, NewCallId, Setup,
       CheckIterating, ConsumerClearIterating, CheckAborting, ConsumerDispatch, Retrieve,
       batchVars
  <2>2. pc'[c] \in Deciding => pc[c] \in Deciding
    BY <1>11 DEF Call, Resume, ResetCounters, ResetIterating, NewCallId, Setup,
       CheckIterating, ConsumerClearIterating, CheckAborting, ConsumerDispatch, Retrieve,
       Yield, EndGenerator, Goto, Deciding, TypeOK, UserTypeOK
  <2> QED
    BY <1>2, <1>a, <2>1, <2>2
<1>12. ASSUME Enter \/ UNCHANGED vars PROVE UNCHANGED <<worker, cb, pc>>
  BY <1>12 DEF Enter, vars, userVars, batchVars
<1> QED
  BY <1>2, <1>3, <1>4, <1>5, <1>6, <1>7, <1>8, <1>9, <1>10, <1>11, <1>12
  DEF Next, User, UserNext, InsideCall, Generator, ResumeList, Callback

(***************************************************************************)
(* One call keeps at most one worker busy for each callback thread, and    *)
(* one more, however many tasks and workers there are: the loop of         *)
(* _get_outputs dispatches only when every outcome is registered, and a    *)
(* callback replaces its own task (_dispatch_new).  This is how far the    *)
(* workers starve, against what the docstring says of pre_dispatch.        *)
(***************************************************************************)
THEOREM OneCallInFlight == MaxCalls = 1 => (Spec => []InFlightBounded)
<1> SUFFICES ASSUME MaxCalls = 1 PROVE Spec => []InFlightBounded
  OBVIOUS
<1> DEFINE Inv == SingleCounts /\ RegisteredInv /\ InFlightInv
           Known == TypeOK /\ CallbackInv /\ OneCallback /\ FirstInv /\ OnceInv
<1>1. Init => Inv
  BY SingleInit
<1>2. Known /\ Inv /\ [Next]_vars => Inv'
  BY SingleCountsNext, RegisteredInvNext, InFlightInvNext
<1>3. TypeOK /\ Inv => InFlightBounded
  <2> SUFFICES ASSUME InFlightInv PROVE InFlightBounded
    OBVIOUS
  <2> DEFINE Running == {t \in Task : worker[t] = "running"}
  <2>1. Running \subseteq Pending /\ Pending \subseteq Task
    BY DEF Pending, Undone
  <2>2. /\ Cardinality(Running) <= Cardinality(Pending)
        /\ Cardinality(Running) \in Nat /\ Cardinality(Pending) \in Nat
    BY <2>1, SubsetCount
  <2>3. CallbackThreads \in Nat /\ 1 \in Calls
    BY ParametersAssumption DEF ParametersAssumption, Calls
  <2>4. Cardinality(Pending) <= CallbackThreads + 1
    BY <2>2, <2>3 DEF InFlightInv
  <2> QED
    BY <2>2, <2>3, <2>4 DEF InFlightBounded
<1> QED
  BY <1>1, <1>2, <1>3, TypeCorrect, OnceInvariant, PTL DEF Spec
=============================================================================
