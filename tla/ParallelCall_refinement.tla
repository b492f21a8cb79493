----------------------- MODULE ParallelCall_refinement ----------------------
(***************************************************************************)
(* The promise of OrderedResults, kept by a Parallel object whose calls do *)
(* not overlap:                                                            *)
(*   - the full promise over a backend without retrieve callbacks, when no *)
(*     with block aborts a call (PlainCallsKeepThePromise);                *)
(*   - the weak one over a backend with retrieve callbacks, as long as     *)
(*     tasks are drawn for the call they are counted for                   *)
(*     (OwnValuesInOrder), and so by the first call (FirstCallInOrder);    *)
(*   - the full one over such a backend, in the absence of the two races   *)
(*     the runs lost_result and truncated_call show                        *)
(*     (RaceFreeCallsKeepThePromise).                                      *)
(* And that such calls wait only for what comes: FirstCallIsServed,        *)
(* QuietCallsAreServed, PlainCallsAreServed.                               *)
(*                                                                         *)
(* A backend without callbacks gets one task at a time: the consumer       *)
(* dispatches when everything dispatched is retrieved.  The invariant says *)
(* what the queue and the counters are then, at each point of the call.    *)
(***************************************************************************)
EXTENDS ParallelCall_proofs

PlainBackend ==
    /\ ~SupportsRetrieveCallback /\ ~MayOverlap /\ ~UseContext
    /\ ~PreDispatchAll /\ DispatchImplemented

NoCallbacks == /\ \A t \in Task : cb[t] = "none"
               /\ aborting = FALSE /\ managed_backend = FALSE

\* A call that is idle, or setting up, has drawn and produced nothing.
Untouched(c) == taken[c] = 0 /\ dropped[c] = <<>> /\ delivered[c] = <<>>

\* The tasks drawn and not retrieved: none, or the one after the last value.
QueueOf(c) == \/ taken[c] = Len(Values(c)) /\ outputs = <<>>
              \/ /\ taken[c] = Len(Values(c)) + 1
                 /\ outputs = <<<<c, Len(Values(c)) + 1>>>>

CountsOf(c) ==
    /\ n_dispatched_tasks = taken[c]
    /\ n_completed_tasks = Len(Values(c)) - (IF pc[c] = "yielded" THEN 1 ELSE 0)

GeneratorInv(c) ==
    /\ original_iterator = c
    /\ QueueOf(c) /\ CountsOf(c)
    /\ pc[c] \in {"check_iterating", "dispatch", "clear_iterating", "yielded"}
          => taken[c] = Len(Values(c))
    /\ pc[c] = "retrieve" => taken[c] = Len(Values(c)) + 1
    /\ ~iterating \/ pc[c] = "clear_iterating" => taken[c] = size[c]

SetupInv(c) ==
    /\ Untouched(c) /\ outputs = <<>>
    /\ pc[c] # "reset" => n_completed_tasks = 0 /\ n_dispatched_tasks = 0
    /\ pc[c] \in {"new_id", "setup"} => iterating = TRUE

CallInv(c) ==
    /\ taken[c] <= size[c]
    /\ first[c] => delivered[c] = <<>>
    /\ pc[c] = "idle" => Untouched(c)
    /\ pc[c] \in InCall => SetupInv(c)
    /\ pc[c] \in InGenerator \union {"yielded"} => GeneratorInv(c)

PlainInv ==
    /\ OneAfterTheOther
    /\ NoCallbacks
    /\ \A c \in Calls : CallInv(c)
    /\ (\A c \in Calls : pc[c] \in Inactive) => outputs = <<>>

LEMMA PlainInit == Init => PlainInv
<1> SUFFICES ASSUME Init PROVE PlainInv
  OBVIOUS
<1>a. MaxCalls \in Nat /\ MaxTasks \in Nat
  BY ParametersAssumption DEF ParametersAssumption
<1>1. OneAfterTheOther /\ NoCallbacks
  BY DEF Init, OneAfterTheOther, NoCallbacks
<1>2. ASSUME NEW c \in Calls PROVE CallInv(c)
  BY <1>a DEF Init, CallInv, Untouched, InCall, InGenerator
<1>3. QED
  BY <1>1, <1>2 DEF PlainInv, Init

(***************************************************************************)
(* While a call is under way the others are inactive, so a step of its own *)
(* only has to keep its own part of the invariant.                         *)
(***************************************************************************)
LEMMA OthersInactive ==
    ASSUME TypeOK, OneAfterTheOther, NEW c \in Calls, pc[c] \notin Inactive
    PROVE  \A d \in Calls : d # c => /\ pc[d] \in Inactive
                                     /\ d < c => pc[d] \in Ended
BY DEF OneAfterTheOther, Inactive, Ended, Calls

LEMMA StepOfOneCall ==
    ASSUME TypeOK, PlainInv, NEW c \in Calls, pc[c] \notin Inactive,
           OneAfterTheOther', NoCallbacks', CallInv(c)', size' = size,
           pc'[c] \in Inactive => outputs' = <<>>,
           \A d \in Calls : d # c => /\ pc'[d] = pc[d] /\ taken'[d] = taken[d]
                                     /\ dropped'[d] = dropped[d]
                                     /\ delivered'[d] = delivered[d]
                                     /\ first'[d] = first[d]
    PROVE  PlainInv'
<1>1. \A d \in Calls : d # c => pc[d] \in Inactive
  BY OthersInactive DEF PlainInv
<1>2. ASSUME NEW d \in Calls, d # c PROVE CallInv(d)'
  <2>1. pc'[d] \in Inactive /\ pc'[d] \notin InCall \union InGenerator \union {"yielded"}
    BY <1>1, <1>2 DEF Inactive, Ended, InCall, InGenerator
  <2>2. CallInv(d)
    BY DEF PlainInv
  <2>3. QED
    BY <1>2, <2>1, <2>2 DEF CallInv, Untouched
<1>3. QED
  BY <1>1, <1>2 DEF PlainInv

(***************************************************************************)
(* What a retrieve finds: the queue holds the task after the last value,   *)
(* and nothing else.                                                       *)
(***************************************************************************)
LEMMA RetrieveFinds ==
    ASSUME PlainBackend, TypeOK, PlainInv, NEW c \in Calls, Retrieve(c)
    PROVE  LET t == <<c, Len(Values(c)) + 1>> IN
           /\ t \in Task /\ outputs' = <<>>
           /\ \/ /\ Goto(c, "raised") /\ UNCHANGED <<first, dropped, delivered>>
                 /\ worker[t] = "error"
              \/ worker[t] = "ok" /\ Yield(c, t)
<1> DEFINE t == <<c, Len(Values(c)) + 1>>
<1>1. outputs = <<t>>
  BY ValuesType DEF Retrieve, PlainInv, CallInv, GeneratorInv, QueueOf, InGenerator
<1>2. PICK k \in DOMAIN outputs :
        /\ Ready(outputs[k])
        /\ outputs' = RemoveAt(outputs, k)
        /\ IF worker[outputs[k]] = "error"
           THEN /\ Goto(c, "raised") /\ running' = NoCall
                /\ UNCHANGED <<first, dropped, delivered>>
           ELSE Yield(c, outputs[k])
  BY DEF Retrieve
<1> HIDE DEF t
<1>3. k = 1 /\ outputs[k] = t
  BY <1>1
<1>4. t \in Task
  BY <1>1, <1>3 DEF TypeOK, ObjectTypeOK
<1>5. outputs' = <<>>
  BY <1>1, <1>2, <1>3, <1>4 DEF RemoveAt
<1>6. worker[t] \in {"ok", "error"}
  BY <1>2, <1>3 DEF Ready, PlainBackend
<1>7. QED
  BY <1>2, <1>3, <1>4, <1>5, <1>6 DEF t

-----------------------------------------------------------------------------
(***************************************************************************)
(* The invariant is inductive: one lemma for each group of actions.        *)
(***************************************************************************)
LEMMA NoCallbacksNext ==
    ASSUME PlainBackend, TypeOK, NoCallbacks, [Next]_vars
    PROVE  NoCallbacks'
<1> USE DEF PlainBackend, NoCallbacks
<1>1. ~Enter /\ ~Exit
  BY DEF Enter, Exit
<1>2. ASSUME NEW t \in Task, WorkerDone(t) \/ Callback(t) PROVE NoCallbacks'
  BY <1>2 DEF WorkerDone, Callback, CallbackEnter, RetrieveResult, DispatchNew,
     CallbackDispatch, CallbackClearIterating, objectVars
<1>3. ASSUME NEW c \in Calls, Call(c) \/ UserNext(c) \/ InsideCall(c) \/ Generator(c)
      PROVE  NoCallbacks'
  BY <1>3 DEF Call, UserNext, InsideCall, Generator, ResumeList, ResetCounters,
     ResetIterating, NewCallId, Setup, Loop, CheckIterating, ConsumerDispatch,
     ConsumerClearIterating, CheckAborting, Retrieve, Resume, objectVars, batchVars
<1>4. ASSUME UNCHANGED vars PROVE NoCallbacks'
  BY <1>4 DEF vars, objectVars, batchVars
<1>5. QED
  BY <1>1, <1>2, <1>3, <1>4 DEF Next, User

LEMMA CallKeeps ==
    ASSUME PlainBackend, TypeOK, PlainInv, OneAfterTheOther', NoCallbacks',
           NEW c \in Calls, Call(c)
    PROVE  PlainInv'
<1>1. \A d \in Calls : pc[d] \in Inactive
  BY DEF Call, PlainInv, PlainBackend, OneAfterTheOther, Inactive, Calls, Ended
<1>2. outputs' = <<>>
  BY <1>1 DEF Call, PlainInv
<1>3. /\ UNCHANGED <<taken, size, first, dropped, delivered>>
      /\ pc'[c] = "reset" /\ \A d \in Calls : d # c => pc'[d] = pc[d]
      /\ pc[c] = "idle"
  BY DEF Call, Goto, TypeOK, UserTypeOK
<1>4. ASSUME NEW d \in Calls PROVE CallInv(d)'
  <2>1. CallInv(d)
    BY DEF PlainInv
  <2>2. CASE d = c
    BY <1>2, <1>3, <2>1, <2>2 DEF CallInv, SetupInv, Untouched, InGenerator
  <2>3. CASE d # c
    <3>1. pc'[d] \notin InCall \union InGenerator \union {"yielded"}
      BY <1>1, <1>3, <2>3 DEF Inactive, Ended, InCall, InGenerator
    <3>2. QED
      BY <1>3, <2>1, <2>3, <3>1 DEF CallInv, Untouched
  <2>4. QED
    BY <2>2, <2>3
<1>5. QED
  BY <1>2, <1>4 DEF PlainInv

LEMMA SetupKeeps ==
    ASSUME PlainBackend, TypeOK, PlainInv, OneAfterTheOther', NoCallbacks',
           NEW c \in Calls, InsideCall(c)
    PROVE  PlainInv'
<1>1. /\ pc[c] \in InCall /\ pc'[c] \in {"reset_iterating", "new_id", "setup", "loop"}
      /\ pc'[c] = "loop" <=> Setup(c)
      /\ \A d \in Calls : d # c => pc'[d] = pc[d]
  BY DEF InsideCall, ResetCounters, ResetIterating, NewCallId, Setup, InCall, Goto,
         TypeOK, UserTypeOK
<1>2. UNCHANGED <<outputs, size, taken, first, dropped, delivered>>
  BY DEF InsideCall, ResetCounters, ResetIterating, NewCallId, Setup
<1>3. CallInv(c) /\ SetupInv(c)
  BY <1>1 DEF PlainInv, CallInv
<1>4. pc'[c] # "loop" => SetupInv(c)'
  <2>1. Untouched(c)' /\ outputs' = <<>>
    BY <1>2, <1>3 DEF SetupInv, Untouched
  <2>2. CASE ResetCounters(c)
    BY <2>1, <2>2 DEF ResetCounters, SetupInv, Goto, TypeOK, UserTypeOK
  <2>3. CASE ResetIterating(c)
    BY <1>3, <2>1, <2>3 DEF ResetIterating, SetupInv
  <2>4. CASE NewCallId(c)
    BY <1>3, <2>1, <2>4 DEF NewCallId, SetupInv
  <2>5. QED
    BY <1>1, <2>2, <2>3, <2>4 DEF InsideCall
<1>5. pc'[c] = "loop" => GeneratorInv(c)'
  <2> SUFFICES ASSUME Setup(c) PROVE GeneratorInv(c)'
    BY <1>1
  <2>1. /\ original_iterator' = c /\ iterating' = TRUE /\ pc'[c] = "loop"
        /\ n_completed_tasks' = 0 /\ n_dispatched_tasks' = 0
    BY <1>1, <1>3 DEF Setup, SetupInv, PlainBackend
  <2>2. Values(c)' = <<>> /\ outputs' = <<>> /\ taken'[c] = 0
    BY <1>2, <1>3 DEF Values, SetupInv, Untouched
  <2> HIDE DEF Values
  <2>3. Len(Values(c)') = 0
    BY <2>2
  <2>4. QED
    BY <2>1, <2>2, <2>3 DEF GeneratorInv, QueueOf, CountsOf
<1>6. CallInv(c)'
  <2>1. (taken[c] <= size[c])' /\ (first[c] => delivered[c] = <<>>)'
    BY <1>2, <1>3 DEF CallInv
  <2>2. QED
    BY <1>1, <1>4, <1>5, <2>1 DEF CallInv, InCall, InGenerator
<1>7. pc[c] \notin Inactive /\ pc'[c] \notin Inactive
  BY <1>1 DEF InCall, Inactive, Ended
<1>8. QED
  BY <1>1, <1>2, <1>6, <1>7, StepOfOneCall

\* A step of the generator that yields nothing and draws nothing.
LEMMA QuietStep ==
    ASSUME TypeOK, PlainInv, OneAfterTheOther', NoCallbacks', NEW c \in Calls,
           UNCHANGED <<size, taken, first, dropped, delivered>>,
           pc[c] \in InGenerator \union {"yielded"},
           NEW label, Goto(c, label), label \in InGenerator \union Ended,
           label \in InGenerator => GeneratorInv(c)',
           label \in Ended => outputs' = <<>>
    PROVE  PlainInv'
<1>1. pc'[c] = label /\ \A d \in Calls : d # c => pc'[d] = pc[d]
  BY DEF Goto, TypeOK, UserTypeOK
<1>2. CallInv(c)
  BY DEF PlainInv
<1>3. CallInv(c)'
  <2>1. (taken[c] <= size[c])' /\ (first[c] => delivered[c] = <<>>)'
    BY <1>2 DEF CallInv
  <2>2. QED
    BY <1>1, <2>1 DEF CallInv, InCall, InGenerator, Ended
<1>4. pc[c] \notin Inactive /\ (label \in Inactive => outputs' = <<>>)
  BY DEF InGenerator, Inactive, Ended
<1>5. QED
  BY <1>1, <1>3, <1>4, StepOfOneCall

\* What the counters say of the queue.
LEMMA QueueAtLoop ==
    ASSUME TypeOK, NEW c \in Calls, GeneratorInv(c), pc[c] # "yielded"
    PROVE  /\ taken[c] \in Nat /\ Len(Values(c)) \in Nat
           /\ n_completed_tasks < n_dispatched_tasks <=> taken[c] = Len(Values(c)) + 1
           /\ ~(n_completed_tasks < n_dispatched_tasks) <=> taken[c] = Len(Values(c))
           /\ taken[c] = Len(Values(c)) => outputs = <<>>
<1>1. taken[c] \in Nat /\ Len(Values(c)) \in Nat
  BY ValuesType, ParametersAssumption DEF ParametersAssumption, TypeOK, UserTypeOK
<1> HIDE DEF Values
<1>2. QED
  BY <1>1 DEF GeneratorInv, QueueOf, CountsOf

LEMMA ControlKeeps ==
    ASSUME PlainBackend, TypeOK, PlainInv, OneAfterTheOther', NoCallbacks',
           NEW c \in Calls,
           \/ Loop(c) \/ CheckIterating(c) \/ ConsumerClearIterating(c)
           \/ CheckAborting(c) \/ (ConsumerDispatch(c) /\ ~HasNextTask)
    PROVE  PlainInv'
<1>1. pc[c] \in InGenerator /\ pc[c] # "yielded"
  BY DEF Loop, CheckIterating, ConsumerClearIterating, CheckAborting, ConsumerDispatch,
         InGenerator
<1>2. GeneratorInv(c) /\ taken[c] <= size[c]
  BY <1>1 DEF PlainInv, CallInv
<1>3. /\ UNCHANGED <<size, taken, first, dropped, delivered>>
      /\ UNCHANGED <<original_iterator, outputs, n_completed_tasks, n_dispatched_tasks>>
  BY DEF Loop, CheckIterating, ConsumerClearIterating, CheckAborting, ConsumerDispatch,
         objectVars
<1>4. Values(c)' = Values(c)
  BY <1>3 DEF Values
<1> DEFINE N == Len(Values(c))
<1>5. N' = N
  BY <1>4
<1>6. ASSUME NEW label \in InGenerator, Goto(c, label),
             label \in {"check_iterating", "dispatch", "clear_iterating"} => taken[c] = N,
             label = "retrieve" => taken[c] = N + 1,
             ~iterating' \/ label = "clear_iterating" => taken[c] = size[c]
      PROVE  PlainInv'
  <2>1. pc'[c] = label /\ label \notin {"yielded"} \union Ended
    BY <1>6 DEF Goto, TypeOK, UserTypeOK, InGenerator, Ended
  <2>2. QueueOf(c)' /\ CountsOf(c)'
    BY <1>1, <1>2, <1>3, <1>5, <2>1 DEF QueueOf, CountsOf, GeneratorInv
  <2> HIDE DEF N
  <2>3. GeneratorInv(c)'
    <3>1. /\ (taken[c] = N)' <=> taken[c] = N
          /\ (taken[c] = N + 1)' <=> taken[c] = N + 1
          /\ (taken[c] = size[c])' <=> taken[c] = size[c]
          /\ original_iterator' = c
      BY <1>2, <1>3, <1>5 DEF GeneratorInv
    <3>2. QED
      BY <1>6, <2>1, <2>2, <3>1 DEF GeneratorInv, N
  <2>4. QED
    BY <1>1, <1>3, <1>6, <2>1, <2>3, QuietStep
<1>7. ASSUME NEW label \in Ended, Goto(c, label), taken[c] = N PROVE PlainInv'
  <2>1. outputs' = <<>> /\ label \notin InGenerator
    BY <1>1, <1>2, <1>3, <1>7, QueueAtLoop DEF InGenerator, Ended
  <2>2. QED
    BY <1>1, <1>3, <1>7, <2>1, QuietStep
<1>8. CASE Loop(c)
  <2>1. CASE n_completed_tasks < n_dispatched_tasks
    <3>1. Goto(c, "retrieve") /\ taken[c] = N + 1 /\ iterating' = iterating
      BY <1>1, <1>2, <1>8, <2>1, QueueAtLoop DEF Loop, objectVars
    <3>2. QED
      BY <1>2, <1>6, <3>1 DEF GeneratorInv, InGenerator
  <2>2. CASE ~(n_completed_tasks < n_dispatched_tasks)
    <3>1. taken[c] = N /\ iterating' = iterating
      BY <1>1, <1>2, <1>8, <2>2, QueueAtLoop DEF Loop, objectVars
    <3>2. CASE iterating
      BY <1>6, <1>8, <2>2, <3>1, <3>2 DEF Loop, InGenerator
    <3>3. CASE ~iterating
      BY <1>7, <1>8, <2>2, <3>1, <3>3 DEF Loop, EndGenerator, Ended
    <3>4. QED
      BY <3>2, <3>3
  <2>3. QED
    BY <2>1, <2>2
<1>9. CASE CheckIterating(c)
  <2>1. taken[c] = N /\ iterating' = iterating
    BY <1>2, <1>9 DEF CheckIterating, GeneratorInv, objectVars
  <2>2. CASE iterating
    BY <1>6, <1>9, <2>1, <2>2 DEF CheckIterating, InGenerator
  <2>3. CASE ~iterating
    BY <1>7, <1>9, <2>1, <2>3 DEF CheckIterating, EndGenerator, Ended
  <2>4. QED
    BY <2>2, <2>3
<1>10. CASE ConsumerClearIterating(c)
  <2>1. taken[c] = size[c] /\ Goto(c, "check_aborting")
    BY <1>2, <1>10 DEF ConsumerClearIterating, GeneratorInv
  <2>2. QED
    BY <1>6, <2>1 DEF InGenerator
<1>11. CASE CheckAborting(c)
  <2>1. Goto(c, "loop") /\ iterating' = iterating
    BY <1>11 DEF CheckAborting, PlainInv, NoCallbacks, objectVars
  <2>2. QED
    BY <1>2, <1>6, <2>1 DEF GeneratorInv, InGenerator
<1>12. CASE ConsumerDispatch(c) /\ ~HasNextTask
  <2>1. Goto(c, "clear_iterating") /\ taken[c] = N
    BY <1>2, <1>12 DEF ConsumerDispatch, GeneratorInv
  <2>2. taken[c] = size[c]
    <3>1. ~(taken[c] < size[c])
      BY <1>2, <1>12 DEF HasNextTask, GeneratorInv, PlainInv, NoCallbacks,
         PlainBackend, NoCall, Calls
    <3>2. taken[c] \in Nat /\ size[c] \in Nat
      BY ParametersAssumption DEF ParametersAssumption, TypeOK, UserTypeOK
    <3>3. QED
      BY <1>2, <3>1, <3>2
  <2>3. QED
    BY <1>6, <2>1, <2>2 DEF InGenerator
<1>13. QED
  BY <1>8, <1>9, <1>10, <1>11, <1>12

LEMMA ResumeKeeps ==
    ASSUME PlainBackend, TypeOK, PlainInv, OneAfterTheOther', NoCallbacks',
           NEW c \in Calls, Resume(c)
    PROVE  PlainInv'
<1>1. /\ pc[c] = "yielded" /\ Goto(c, "check_aborting") /\ pc'[c] = "check_aborting"
      /\ UNCHANGED <<size, taken, first, dropped, delivered>>
      /\ UNCHANGED <<original_iterator, outputs, n_dispatched_tasks, iterating>>
      /\ n_completed_tasks' = n_completed_tasks + 1
  BY DEF Resume, Goto, TypeOK, UserTypeOK
<1>2. GeneratorInv(c)
  BY <1>1 DEF PlainInv, CallInv
<1>3. Values(c)' = Values(c) /\ Len(Values(c)) \in Nat
  BY <1>1, ValuesType DEF Values
<1> HIDE DEF Values
<1>4. n_completed_tasks' = Len(Values(c)')
  BY <1>1, <1>2, <1>3 DEF GeneratorInv, CountsOf
<1>5. GeneratorInv(c)'
  BY <1>1, <1>2, <1>3, <1>4 DEF GeneratorInv, QueueOf, CountsOf
<1>6. QED
  BY <1>1, <1>5, QuietStep DEF InGenerator, Ended

LEMMA DispatchKeeps ==
    ASSUME PlainBackend, TypeOK, PlainInv, OneAfterTheOther', NoCallbacks',
           NEW c \in Calls, ConsumerDispatch(c), HasNextTask
    PROVE  PlainInv'
<1>1. /\ pc[c] = "dispatch" /\ pc'[c] = "check_aborting"
      /\ UNCHANGED <<size, first, dropped, delivered>>
      /\ UNCHANGED <<original_iterator, iterating, n_completed_tasks>>
      /\ DispatchOneBatch
      /\ \A d \in Calls : d # c => pc'[d] = pc[d]
  BY DEF ConsumerDispatch, Goto, TypeOK, UserTypeOK
<1>2. GeneratorInv(c) /\ CallInv(c)
  BY <1>1 DEF PlainInv, CallInv, InGenerator
<1>3. Values(c)' = Values(c) /\ Len(Values(c)) \in Nat
  BY <1>1, ValuesType DEF Values
<1> HIDE DEF Values
<1>4. /\ original_iterator = c /\ taken[c] = Len(Values(c)) /\ outputs = <<>>
      /\ n_dispatched_tasks = taken[c] /\ n_completed_tasks = Len(Values(c))
  BY <1>1, <1>2, <1>3 DEF GeneratorInv, QueueOf, CountsOf
<1>5. /\ taken[c] < size[c] /\ size[c] \in Nat
      /\ NextTask = <<c, Len(Values(c)) + 1>>
  BY <1>4, ParametersAssumption
  DEF HasNextTask, NextTask, TypeOK, UserTypeOK, ParametersAssumption
<1>6. /\ taken'[c] = taken[c] + 1 /\ n_dispatched_tasks' = n_dispatched_tasks + 1
      /\ \A d \in Calls : d # c => taken'[d] = taken[d]
      /\ outputs' = <<NextTask>>
  BY <1>1, <1>4 DEF DispatchOneBatch, TypeOK, UserTypeOK, PlainBackend
<1>7. GeneratorInv(c)'
  <2>1. QueueOf(c)' /\ CountsOf(c)'
    BY <1>1, <1>3, <1>4, <1>5, <1>6 DEF QueueOf, CountsOf
  <2>2. iterating' = TRUE
    <3>1. taken[c] # size[c]
      BY <1>3, <1>4, <1>5
    <3>2. QED
      BY <1>1, <1>2, <3>1 DEF GeneratorInv, TypeOK, ObjectTypeOK
  <2>3. QED
    BY <1>1, <1>4, <2>1, <2>2 DEF GeneratorInv
<1>8. CallInv(c)'
  <2>1. (taken[c] <= size[c])'
    BY <1>1, <1>3, <1>4, <1>5, <1>6
  <2>2. (first[c] => delivered[c] = <<>>)'
    BY <1>1, <1>2 DEF CallInv
  <2>3. QED
    BY <1>1, <1>7, <2>1, <2>2 DEF CallInv, InCall, InGenerator
<1>9. QED
  BY <1>1, <1>6, <1>8, StepOfOneCall DEF Inactive, Ended

LEMMA RetrieveKeeps ==
    ASSUME PlainBackend, TypeOK, PlainInv, OneAfterTheOther', NoCallbacks',
           NEW c \in Calls, Retrieve(c)
    PROVE  PlainInv'
<1>1. /\ pc[c] = "retrieve"
      /\ UNCHANGED <<size, taken, original_iterator, iterating, n_completed_tasks,
                     n_dispatched_tasks>>
  BY DEF Retrieve, objectVars
<1>2. GeneratorInv(c) /\ CallInv(c)
  BY <1>1 DEF PlainInv, CallInv, InGenerator
<1> DEFINE t == <<c, Len(Values(c)) + 1>>
<1>3. /\ t \in Task /\ outputs' = <<>>
      /\ \/ /\ Goto(c, "raised") /\ UNCHANGED <<first, dropped, delivered>>
         \/ Yield(c, t)
  BY RetrieveFinds
<1>4. CASE Goto(c, "raised") /\ UNCHANGED <<first, dropped, delivered>>
  BY <1>1, <1>3, <1>4, QuietStep DEF InGenerator, Ended
<1>5. CASE Yield(c, t)
  <2> HIDE DEF t
  <2>1. /\ Values(c)' = Append(Values(c), t)
        /\ ~first'[c] /\ pc'[c] = "yielded"
        /\ \A d \in Calls : d # c => /\ dropped'[d] = dropped[d] /\ pc'[d] = pc[d]
                                     /\ delivered'[d] = delivered[d]
                                     /\ first'[d] = first[d]
    BY <1>2, <1>3, <1>5, YieldAppends DEF CallInv
  <2>2. /\ Values(c) \in Seq(Task) /\ Len(Values(c)) \in Nat
        /\ Len(Values(c)') = Len(Values(c)) + 1
    BY <1>3, <2>1, ValuesType
  <2>3. taken[c] = Len(Values(c)) + 1
    BY <1>1, <1>2 DEF GeneratorInv
  <2>4. n_dispatched_tasks = taken[c] /\ n_completed_tasks = Len(Values(c))
    BY <1>1, <1>2, <2>2 DEF GeneratorInv, CountsOf
  <2> HIDE DEF Values
  <2>5. GeneratorInv(c)'
    <3>1. QueueOf(c)' /\ CountsOf(c)'
      BY <1>1, <1>3, <2>1, <2>2, <2>3, <2>4 DEF QueueOf, CountsOf
    <3>2. (~iterating => taken[c] = size[c])' /\ original_iterator' = c
      BY <1>1, <1>2 DEF GeneratorInv
    <3>3. QED
      BY <1>1, <2>1, <2>2, <2>3, <3>1, <3>2 DEF GeneratorInv
  <2>6. CallInv(c)'
    <3>1. (taken[c] <= size[c])'
      BY <1>1, <1>2 DEF CallInv
    <3>2. QED
      BY <2>1, <2>5, <3>1 DEF CallInv, InCall, InGenerator
  <2>7. QED
    BY <1>1, <1>3, <2>1, <2>6, StepOfOneCall DEF Inactive, Ended
<1>6. QED
  BY <1>3, <1>4, <1>5

\* The tasks end and the callbacks do not run: nothing the invariant reads changes.
LEMMA PlainNext ==
    ASSUME PlainBackend, TypeOK, PlainInv, [Next]_vars
    PROVE  PlainInv'
<1>1. OneAfterTheOther' /\ NoCallbacks'
  BY OneAfterTheOtherNext, NoCallbacksNext DEF PlainInv, PlainBackend
<1>2. ~Enter /\ ~Exit /\ \A t \in Task : ~Callback(t)
  BY DEF PlainInv, PlainBackend, NoCallbacks, Enter, Exit, Callback, CallbackEnter,
         RetrieveResult, DispatchNew, CallbackDispatch, CallbackClearIterating
<1>3. CASE UNCHANGED <<objectVars, userVars, outputs>>
  BY <1>1, <1>3 DEF PlainInv, objectVars, userVars, CallInv, SetupInv, GeneratorInv,
     Untouched, QueueOf, CountsOf, Values
<1>4. ASSUME NEW t \in Task, WorkerDone(t) PROVE UNCHANGED <<objectVars, userVars, outputs>>
  BY <1>4 DEF WorkerDone
<1>5. ASSUME UNCHANGED vars PROVE UNCHANGED <<objectVars, userVars, outputs>>
  BY <1>5 DEF vars
<1>6. ASSUME NEW c \in Calls, Call(c) \/ UserNext(c) \/ InsideCall(c) \/ Generator(c)
      PROVE  PlainInv'
  BY <1>1, <1>6, CallKeeps, SetupKeeps, ControlKeeps, ResumeKeeps, DispatchKeeps,
     RetrieveKeeps DEF UserNext, Generator, ResumeList
<1>7. QED
  BY <1>2, <1>3, <1>4, <1>5, <1>6 DEF Next, User

-----------------------------------------------------------------------------
(***************************************************************************)
(* Every step is a step of OrderedResults or leaves its variables alone.   *)
(***************************************************************************)
LEMMA ResultsInit == Init => Results!Init
<1> SUFFICES ASSUME Init PROVE Results!Init
  OBVIOUS
<1>1. \A c \in Calls : Values(c) = <<>> /\ Outcome(c) = "open"
  BY DEF Init, Values, Outcome, Finished
<1>2. size \in [Calls -> 0..MaxTasks] /\ Failed = {}
  BY DEF Init, Failed
<1>3. QED
  BY <1>1, <1>2 DEF Results!Init, Results!Calls, Calls

\* A task that has ended stays as it ended, and only a worker makes one fail.
LEMMA OutcomesStay ==
    ASSUME TypeOK, CallbackInv, [Next]_vars
    PROVE  /\ \A t \in Task : worker[t] \in {"ok", "error"} => worker'[t] = worker[t]
           /\ (\A t \in Task : ~WorkerDone(t)) => UNCHANGED Failed
<1> DEFINE Kept == \A t \in Task :
             /\ worker[t] \in {"ok", "error"} => worker'[t] = worker[t]
             /\ worker'[t] = "error" => worker[t] = "error"
<1>1. ASSUME DispatchOneBatch, HasNextTask PROVE Kept
  <2>1. /\ NextTask \in Task /\ NextTask[1] = original_iterator
        /\ NextTask[2] > taken[original_iterator]
    BY <1>1, ParametersAssumption
    DEF HasNextTask, NextTask, NoCall, Task, Calls, TypeOK, ObjectTypeOK, UserTypeOK,
        ParametersAssumption
  <2>2. worker[NextTask] = "idle"
    BY <2>1 DEF CallbackInv, NotDrawnYet
  <2>3. worker' = [worker EXCEPT ![NextTask] = "running"]
    BY <1>1 DEF DispatchOneBatch
  <2> QED
    BY <2>1, <2>2, <2>3 DEF TypeOK, BatchTypeOK
<1>2. ASSUME Exit PROVE Kept
  BY <1>2 DEF Exit
<1>3. ASSUME UNCHANGED worker PROVE Kept
  BY <1>3
<1>4. ASSUME NEW c \in Calls, Call(c) \/ UserNext(c) \/ InsideCall(c) \/ Generator(c)
      PROVE  UNCHANGED worker \/ (DispatchOneBatch /\ HasNextTask)
  BY <1>4 DEF Call, UserNext, Resume, InsideCall, ResetCounters, ResetIterating, NewCallId,
     Setup, Generator, Loop, CheckIterating, ConsumerDispatch, ConsumerClearIterating,
     CheckAborting, Retrieve, ResumeList, batchVars
<1>5. ASSUME NEW t \in Task, Callback(t)
      PROVE  UNCHANGED worker \/ (DispatchOneBatch /\ HasNextTask)
  BY <1>5 DEF Callback, CallbackEnter, RetrieveResult, DispatchNew, CallbackDispatch,
     CallbackClearIterating
<1>6. ASSUME Enter \/ UNCHANGED vars PROVE UNCHANGED worker
  BY <1>6 DEF Enter, vars, batchVars
<1>7. ASSUME NEW t \in Task, WorkerDone(t)
      PROVE  \A u \in Task : worker[u] \in {"ok", "error"} => worker'[u] = worker[u]
  BY <1>7 DEF WorkerDone, TypeOK, BatchTypeOK
<1>8. Kept \/ \E t \in Task : WorkerDone(t)
  BY <1>1, <1>2, <1>3, <1>4, <1>5, <1>6 DEF Next, User
<1>9. ASSUME Kept PROVE UNCHANGED Failed
  BY <1>9 DEF Failed
<1> QED
  BY <1>7, <1>8, <1>9

\* The tasks whose values are produced have ended well.
ProducedInv == \A t \in Task : t[2] <= Len(Values(t[1])) => worker[t] = "ok"

\* Where a call that runs is, and what the abstract specification sees of it.
LEMMA RunningIsCurrent ==
    ASSUME TypeOK, OneAfterTheOther, NEW c \in Calls, pc[c] \notin Inactive
    PROVE  Results!Current(c)
<1>1. \A d \in Calls : Outcome(d) # "open" <=> pc[d] \in Ended
  BY DEF Outcome, Finished, Ended
<1>2. ASSUME NEW d \in 1..(c - 1) PROVE d \in Calls /\ pc[d] \in Ended
  <2>1. d \in Calls /\ d < c
    BY ParametersAssumption DEF ParametersAssumption, Calls
  <2>2. QED
    BY <2>1 DEF OneAfterTheOther, Inactive
<1>3. QED
  BY <1>1, <1>2 DEF Results!Current, Inactive

LEMMA QuietIsStutter ==
    ASSUME TypeOK, UNCHANGED <<size, dropped, delivered, Failed>>,
           \A c \in Calls : pc'[c] = pc[c] \/ {pc[c], pc'[c]} \cap Ended = {}
    PROVE  UNCHANGED Results!vars
<1>1. \A c \in Calls : Values(c)' = Values(c)
  BY DEF Values
<1>2. ASSUME NEW c \in Calls PROVE Outcome(c)' = Outcome(c)
  BY DEF Outcome, Finished, Ended
<1>3. [c \in Calls |-> Values(c)]' = [c \in Calls |-> Values(c)]
  BY <1>1
<1>4. [c \in Calls |-> Outcome(c)]' = [c \in Calls |-> Outcome(c)]
  BY <1>2
<1>5. QED
  BY <1>3, <1>4 DEF Results!vars

\* A call that ends with every value of its iterable, or over callbacks early.
LEMMA EndIsFinish ==
    ASSUME TypeOK, OneAfterTheOther, NEW c \in Calls,
           Loop(c) \/ CheckIterating(c), EndGenerator(c), UNCHANGED Failed,
           Len(Values(c)) = size[c] \/ SupportsRetrieveCallback
    PROVE  Results!Finish(c)
<1>1. /\ pc[c] \in {"loop", "check_iterating"} /\ UNCHANGED <<size, dropped, delivered>>
      /\ pc'[c] \in {"stopped", "done"} /\ \A d \in Calls : d # c => pc'[d] = pc[d]
  BY DEF Loop, CheckIterating, EndGenerator, Goto, TypeOK, UserTypeOK
<1>2. Results!Current(c)
  BY <1>1, RunningIsCurrent DEF Inactive, Ended
<1>3. [d \in Calls |-> Values(d)]' = [d \in Calls |-> Values(d)]
  BY <1>1 DEF Values
<1>4. [d \in Calls |-> Outcome(d)]' = [[d \in Calls |-> Outcome(d)] EXCEPT ![c] = "done"]
  BY <1>1 DEF Outcome, Finished
<1>5. [d \in Calls |-> Values(d)][c] = Values(c)
  OBVIOUS
<1> HIDE DEF Values, Outcome
<1> QED
  BY <1>1, <1>2, <1>3, <1>4, <1>5 DEF Results!Finish

\* A call that raises when a task of its own, whose value it does not have, failed.
LEMMA RaiseIsFail ==
    ASSUME TypeOK, OneAfterTheOther, NEW c \in Calls, pc[c] \notin Inactive,
           Goto(c, "raised"), UNCHANGED <<size, dropped, delivered, Failed>>,
           NEW i \in (Len(Values(c)) + 1)..size[c], <<c, i>> \in Failed
    PROVE  Results!Fail(c)
<1>1. pc'[c] = "raised" /\ \A d \in Calls : d # c => pc'[d] = pc[d]
  BY DEF Goto, TypeOK, UserTypeOK
<1>2. Results!Current(c)
  BY RunningIsCurrent
<1>3. [d \in Calls |-> Values(d)]' = [d \in Calls |-> Values(d)]
  BY DEF Values
<1>4. [d \in Calls |-> Outcome(d)]' = [[d \in Calls |-> Outcome(d)] EXCEPT ![c] = "raised"]
  BY <1>1 DEF Outcome, Finished
<1>5. [d \in Calls |-> Values(d)][c] = Values(c)
  OBVIOUS
<1> HIDE DEF Values, Outcome
<1>6. <<c, i>> \in Results!Rest(c) \cap Failed
  BY <1>5 DEF Results!Rest
<1> QED
  BY <1>2, <1>3, <1>4, <1>5, <1>6 DEF Results!Fail

\* A call that yields the task after its last value.
LEMMA YieldIsProduce ==
    ASSUME TypeOK, OneAfterTheOther, FirstInv, NEW c \in Calls, pc[c] = "retrieve",
           NEW t \in Task, t = <<c, Len(Values(c)) + 1>>, Yield(c, t),
           UNCHANGED <<size, Failed>>, Len(Values(c)) < size[c], worker[t] = "ok"
    PROVE  Results!Produce(c)
<1> DEFINE vals == [d \in Calls |-> Values(d)]
<1>1. /\ Values(c)' = Append(Values(c), t)
      /\ pc'[c] = "yielded"
      /\ \A d \in Calls : d # c => /\ dropped'[d] = dropped[d] /\ pc'[d] = pc[d]
                                   /\ delivered'[d] = delivered[d]
  <2>1. first[c] => delivered[c] = <<>>
    BY DEF FirstInv
  <2> QED
    BY <2>1, YieldAppends
<1>2. \A d \in Calls : d # c => Values(d)' = Values(d)
  BY <1>1 DEF Values
<1>3. [d \in Calls |-> Outcome(d)]' = [d \in Calls |-> Outcome(d)]
  BY <1>1 DEF Outcome, Finished
<1>4. Results!Current(c)
  BY RunningIsCurrent DEF Inactive, Ended
<1> HIDE DEF Values, Outcome
<1>5. vals' = [vals EXCEPT ![c] = Append(Values(c), t)] /\ vals[c] = Values(c)
  BY <1>1, <1>2
<1>6. t \notin Failed
  BY DEF Failed
<1> QED
  BY <1>3, <1>4, <1>5, <1>6 DEF Results!Produce

\* A task that fails is one whose value no call has, or the worker ended it well.
LEMMA WorkerMapsToTask ==
    ASSUME TypeOK, CallbackInv, ProducedInv, \A c \in Calls : taken[c] <= size[c],
           NEW t \in Task, WorkerDone(t)
    PROVE  [Results!Next]_(Results!vars)
<1>1. UNCHANGED <<pc, size, dropped, delivered>> /\ worker[t] = "running"
  BY DEF WorkerDone, userVars
<1>2. CASE worker' = [worker EXCEPT ![t] = "ok"]
  <2>1. UNCHANGED Failed
    BY <1>1, <1>2 DEF Failed, TypeOK, BatchTypeOK
  <2> QED
    BY <1>1, <2>1, QuietIsStutter
<1>3. CASE worker' = [worker EXCEPT ![t] = "error"]
  <2> DEFINE vals == [c \in Calls |-> Values(c)]
  <2>1. Failed' = Failed \union {t}
    BY <1>3 DEF Failed, TypeOK, BatchTypeOK
  <2>2. /\ t[1] \in Calls /\ t[2] \in Nat /\ t = <<t[1], t[2]>>
        /\ taken[t[1]] \in Nat /\ size[t[1]] \in Nat /\ Len(Values(t[1])) \in Nat
    <3>1. t[1] \in Calls /\ t[2] \in Nat /\ t = <<t[1], t[2]>>
      BY ParametersAssumption DEF Task, ParametersAssumption
    <3>2. Len(Values(t[1])) \in Nat
      BY <3>1, ValuesType
    <3> QED
      BY <3>1, <3>2, ParametersAssumption DEF ParametersAssumption, TypeOK, UserTypeOK
  <2>3. t[2] \in (Len(Values(t[1])) + 1)..size[t[1]]
    <3>1. t[2] <= taken[t[1]]
      BY <1>1, <2>2 DEF CallbackInv, NotDrawnYet
    <3>2. ~(t[2] <= Len(Values(t[1])))
      BY <1>1 DEF ProducedInv
    <3> HIDE DEF Values
    <3> QED
      BY <2>2, <3>1, <3>2
  <2>4. vals' = vals /\ vals[t[1]] = Values(t[1])
    BY <1>1, <2>2 DEF Values
  <2>5. [c \in Calls |-> Outcome(c)]' = [c \in Calls |-> Outcome(c)]
    BY <1>1 DEF Outcome, Finished
  <2> HIDE DEF Values, Outcome
  <2>6. t \in Results!Rest(t[1])
    BY <2>2, <2>3, <2>4 DEF Results!Rest
  <2>7. Results!TaskFails(t[1])
    BY <1>1, <2>1, <2>4, <2>5, <2>6 DEF Results!TaskFails
  <2> QED
    BY <2>2, <2>7 DEF Results!Next, Results!Calls, Calls
<1> QED
  BY <1>2, <1>3 DEF WorkerDone

LEMMA RetrieveIsProduceOrFail ==
    ASSUME PlainBackend, TypeOK, PlainInv, NEW c \in Calls, Retrieve(c)
    PROVE  Results!Produce(c) \/ Results!Fail(c)
<1> DEFINE t == <<c, Len(Values(c)) + 1>>
<1>1. /\ t \in Task
      /\ \/ /\ Goto(c, "raised") /\ UNCHANGED <<first, dropped, delivered>>
            /\ worker[t] = "error"
         \/ worker[t] = "ok" /\ Yield(c, t)
  BY RetrieveFinds
<1>2. pc[c] = "retrieve" /\ pc[c] \notin Inactive /\ UNCHANGED <<size, Failed>>
  BY DEF Retrieve, Inactive, Ended, Failed, batchVars
<1>3. Len(Values(c)) < size[c]
  <2>1. taken[c] = Len(Values(c)) + 1 /\ taken[c] <= size[c]
    BY <1>2 DEF PlainInv, CallInv, GeneratorInv, InGenerator
  <2>2. Len(Values(c)) \in Nat /\ size[c] \in Nat
    BY ValuesType, ParametersAssumption DEF TypeOK, UserTypeOK, ParametersAssumption
  <2>3. QED
    BY <2>1, <2>2
<1>4. OneAfterTheOther /\ FirstInv
  BY DEF PlainInv, CallInv, FirstInv
<1>5. Len(Values(c)) + 1 \in (Len(Values(c)) + 1)..size[c]
  BY <1>3, ValuesType, ParametersAssumption DEF TypeOK, UserTypeOK, ParametersAssumption
<1> HIDE DEF t
<1>6. t = <<c, Len(Values(c)) + 1>>
  BY DEF t
<1>7. worker[t] = "error" => t \in Failed
  BY <1>1 DEF Failed
<1>8. QED
  BY <1>1, <1>2, <1>3, <1>4, <1>5, <1>6, <1>7, RaiseIsFail, YieldIsProduce

LEMMA ProducedInit == Init => ProducedInv
<1> SUFFICES ASSUME Init, NEW t \in Task PROVE ~(t[2] <= Len(Values(t[1])))
  BY DEF ProducedInv
<1>1. t[1] \in Calls /\ t[2] \in Nat /\ t[2] > 0
  BY ParametersAssumption DEF ParametersAssumption, Task
<1>2. Values(t[1]) = <<>>
  BY <1>1 DEF Init, Values
<1> QED
  BY <1>1, <1>2

LEMMA ProducedNext ==
    ASSUME PlainBackend, TypeOK, CallbackInv, PlainInv, ProducedInv, [Next]_vars
    PROVE  ProducedInv'
<1>1. \A t \in Task : worker[t] = "ok" => worker'[t] = "ok"
  BY OutcomesStay
<1>2. ASSUME UNCHANGED <<dropped, delivered>> PROVE ProducedInv'
  <2>1. \A c \in Calls : Values(c)' = Values(c)
    BY <1>2 DEF Values
  <2> HIDE DEF Values
  <2> QED
    BY <1>1, <2>1 DEF ProducedInv, Task
<1>3. ASSUME NEW c \in Calls, Retrieve(c) PROVE ProducedInv'
  <2> DEFINE t == <<c, Len(Values(c)) + 1>>
  <2>1. /\ t \in Task
        /\ \/ UNCHANGED <<dropped, delivered>>
           \/ worker[t] = "ok" /\ Yield(c, t)
    BY <1>3, RetrieveFinds
  <2>2. first[c] => delivered[c] = <<>>
    BY DEF PlainInv, CallInv
  <2>3. ASSUME worker[t] = "ok", Yield(c, t), NEW u \in Task, u[2] <= Len(Values(u[1])')
        PROVE  worker[u] = "ok"
    <3>1. /\ Values(c)' = Append(Values(c), t)
          /\ \A d \in Calls : d # c => dropped'[d] = dropped[d] /\ delivered'[d] = delivered[d]
      BY <2>1, <2>2, <2>3, YieldAppends
    <3>2. \A d \in Calls : d # c => Values(d)' = Values(d)
      BY <3>1 DEF Values
    <3>3. /\ u[1] \in Calls /\ u[2] \in Nat /\ u = <<u[1], u[2]>>
          /\ Values(c) \in Seq(Task) /\ Len(Values(c)) \in Nat
      BY ValuesType, ParametersAssumption DEF Task, ParametersAssumption
    <3> HIDE DEF Values
    <3>4. Len(Values(c)') = Len(Values(c)) + 1
      BY <2>1, <3>1, <3>3
    <3>5. CASE u[1] = c
      <4>1. u[2] <= Len(Values(c)) \/ u[2] = Len(Values(c)) + 1
        BY <2>3, <3>3, <3>4, <3>5
      <4> QED
        BY <2>3, <3>3, <3>5, <4>1 DEF ProducedInv
    <3>6. CASE u[1] # c
      BY <2>3, <3>2, <3>3, <3>6 DEF ProducedInv
    <3> QED
      BY <3>5, <3>6
  <2>4. CASE worker[t] = "ok" /\ Yield(c, t)
    BY <1>1, <2>3, <2>4 DEF ProducedInv
  <2> QED
    BY <1>2, <2>1, <2>4
<1>4. ASSUME NEW c \in Calls, ~Retrieve(c),
             Call(c) \/ UserNext(c) \/ InsideCall(c) \/ Generator(c)
      PROVE  UNCHANGED <<dropped, delivered>>
  BY <1>4 DEF Call, UserNext, Resume, InsideCall, ResetCounters, ResetIterating, NewCallId,
     Setup, Generator, Loop, CheckIterating, ConsumerDispatch, ConsumerClearIterating,
     CheckAborting, ResumeList
<1>5. ASSUME NEW t \in Task, WorkerDone(t) \/ Callback(t)
      PROVE  UNCHANGED <<dropped, delivered>>
  BY <1>5 DEF WorkerDone, Callback, CallbackEnter, RetrieveResult, DispatchNew,
     CallbackDispatch, CallbackClearIterating, userVars
<1>6. ASSUME Enter \/ Exit \/ UNCHANGED vars PROVE UNCHANGED <<dropped, delivered>>
  BY <1>6 DEF Enter, Exit, vars, userVars
<1> QED
  BY <1>2, <1>3, <1>4, <1>5, <1>6 DEF Next, User

LEMMA ResultsNext ==
    ASSUME PlainBackend, TypeOK, CallbackInv, PlainInv, ProducedInv, [Next]_vars
    PROVE  [Results!Next]_(Results!vars)
<1>0. ASSUME NEW t \in Task, WorkerDone(t) PROVE [Results!Next]_(Results!vars)
  BY <1>0, WorkerMapsToTask DEF PlainInv, CallInv
<1> SUFFICES ASSUME UNCHANGED Failed PROVE [Results!Next]_(Results!vars)
  BY <1>0, OutcomesStay
<1>1. ASSUME NEW c \in Calls, Retrieve(c) PROVE Results!Next
  BY <1>1, RetrieveIsProduceOrFail DEF Results!Next, Results!Calls, Calls
<1>2. ASSUME NEW c \in Calls, Loop(c) \/ CheckIterating(c), EndGenerator(c), ~iterating,
             taken[c] = Len(Values(c))
      PROVE  Results!Next
  <2>1. pc[c] \in InGenerator
    BY <1>2 DEF Loop, CheckIterating, InGenerator
  <2>2. OneAfterTheOther /\ Len(Values(c)) = size[c]
    BY <1>2, <2>1 DEF PlainInv, CallInv, GeneratorInv
  <2>3. QED
    BY <1>2, <2>2, EndIsFinish DEF Results!Next, Results!Calls, Calls
<1>3. ASSUME NEW c \in Calls, Loop(c)
      PROVE  \/ UNCHANGED Results!vars
             \/ EndGenerator(c) /\ ~iterating /\ taken[c] = Len(Values(c))
  <2>1. CASE EndGenerator(c) /\ ~iterating /\ ~(n_completed_tasks < n_dispatched_tasks)
    <3>1. GeneratorInv(c) /\ pc[c] # "yielded"
      BY <1>3 DEF Loop, PlainInv, CallInv, InGenerator
    <3>2. QED
      BY <2>1, <3>1, QueueAtLoop
  <2>2. CASE Goto(c, "retrieve") \/ Goto(c, "check_iterating")
    <3>1. \A d \in Calls : pc'[d] = pc[d] \/ {pc[d], pc'[d]} \cap Ended = {}
      BY <1>3, <2>2 DEF Loop, Goto, TypeOK, UserTypeOK, Ended
    <3>2. QED
      BY <1>3, <3>1, QuietIsStutter DEF Loop
  <2>3. QED
    BY <1>3, <2>1, <2>2 DEF Loop
<1>4. ASSUME NEW c \in Calls, CheckIterating(c)
      PROVE  \/ UNCHANGED Results!vars
             \/ EndGenerator(c) /\ ~iterating /\ taken[c] = Len(Values(c))
  <2>1. CASE EndGenerator(c) /\ ~iterating
    BY <1>4, <2>1 DEF CheckIterating, PlainInv, CallInv, GeneratorInv, InGenerator
  <2>2. CASE Goto(c, "dispatch")
    <3>1. \A d \in Calls : pc'[d] = pc[d] \/ {pc[d], pc'[d]} \cap Ended = {}
      BY <1>4, <2>2 DEF CheckIterating, Goto, TypeOK, UserTypeOK, Ended
    <3>2. QED
      BY <1>4, <3>1, QuietIsStutter DEF CheckIterating
  <2>3. QED
    BY <1>4, <2>1, <2>2 DEF CheckIterating
<1>5. ASSUME NEW c \in Calls,
             Call(c) \/ Resume(c) \/ InsideCall(c) \/ ConsumerDispatch(c)
             \/ ConsumerClearIterating(c) \/ CheckAborting(c)
      PROVE  UNCHANGED Results!vars
  <2>1. UNCHANGED <<size, dropped, delivered>>
    BY <1>5 DEF Call, Resume, InsideCall, ResetCounters, ResetIterating, NewCallId,
       Setup, ConsumerDispatch, ConsumerClearIterating, CheckAborting
  <2>2. /\ \A d \in Calls : d # c => pc'[d] = pc[d]
        /\ pc[c] \notin Ended /\ pc'[c] \notin Ended
    BY <1>5 DEF Call, Resume, InsideCall, ResetCounters, ResetIterating, NewCallId,
       Setup, ConsumerDispatch, ConsumerClearIterating, CheckAborting, Goto, TypeOK,
       UserTypeOK, Ended, PlainInv, NoCallbacks
  <2>3. QED
    BY <2>1, <2>2, QuietIsStutter
<1>6. ASSUME UNCHANGED <<pc, size, dropped, delivered>> PROVE UNCHANGED Results!vars
  BY <1>6, QuietIsStutter
<1>7. ASSUME NEW t \in Task, WorkerDone(t) \/ Callback(t)
      PROVE  UNCHANGED <<pc, size, dropped, delivered>>
  BY <1>7 DEF WorkerDone, Callback, CallbackEnter, RetrieveResult, DispatchNew,
     CallbackDispatch, CallbackClearIterating, userVars
<1>8. ASSUME Enter \/ Exit \/ UNCHANGED vars
      PROVE  UNCHANGED <<pc, size, dropped, delivered>>
  BY <1>8 DEF Enter, Exit, vars, userVars
<1>9. QED
  BY <1>1, <1>2, <1>3, <1>4, <1>5, <1>6, <1>7, <1>8
  DEF Next, User, UserNext, Generator, ResumeList

(***************************************************************************)
(* With a backend without retrieve callbacks, calls that do not overlap    *)
(* get exactly their own values, in order, and end with all of them or     *)
(* with an exception (_get_outputs over _pending_outputs).                 *)
(***************************************************************************)
THEOREM PlainCallsKeepThePromise ==
    PlainBackend => (Spec => ImplementsOrderedResults)
<1> SUFFICES ASSUME PlainBackend PROVE Spec => ImplementsOrderedResults
  OBVIOUS
<1> DEFINE Inv == TypeOK /\ CallbackInv /\ PlainInv /\ ProducedInv
<1>1. Inv /\ [Next]_vars => Inv'
  BY TypeNext, CallbackInvNext, PlainNext, ProducedNext
<1>2. Inv /\ [Next]_vars => [Results!Next]_(Results!vars)
  BY ResultsNext
<1>3. Init => Inv
  BY TypeInit, CallbackInvInit, PlainInit, ProducedInit
<1> HIDE DEF Inv
<1>4. QED
  BY <1>1, <1>2, <1>3, ResultsInit, PTL
  DEF Spec, ImplementsOrderedResults, Results!Spec

-----------------------------------------------------------------------------
(***************************************************************************)
(* With retrieve callbacks a batch carries the identifier the object holds *)
(* when it is made, not the call its task comes from.  As long as the two  *)
(* agree (OwnDispatch), calls that do not overlap keep the weak promise of *)
(* OrderedResults, also when they are aborted by a with block: the values  *)
(* of a call are a prefix of its own ones, in order.                       *)
(*                                                                         *)
(* A task that is drawn and not retrieved (Waiting) is in _jobs as long as *)
(* its call goes on, behind the earlier ones of its call.                  *)
(***************************************************************************)
CallbackBackend == SupportsRetrieveCallback /\ return_ordered /\ ~MayOverlap

\* A task is only drawn from the iterable of the call the object works for.
OwnDispatch == taken' # taken => original_iterator = call_id

Begun == {"setup", "yielded"} \union InGenerator

Waiting(t) == Len(Values(t[1])) < t[2] /\ t[2] <= taken[t[1]]

IdentifierInv == \A c \in Calls : pc[c] \in Begun => call_id = c

BatchInv == \A t \in Task :
    /\ t[2] <= taken[t[1]] => parallel_call_id[t] = t[1]
    /\ cb[t] \in {"enter", "retrieve"} => worker[t] \in {"ok", "error"}
    /\ status[t] = "Done" => worker[t] = "ok"
    /\ status[t] = "Error" => worker[t] = "error"

PrefixInv == \A c \in Calls :
    /\ Len(Values(c)) <= taken[c] /\ taken[c] <= size[c]
    /\ \A i \in DOMAIN Values(c) : Values(c)[i] = <<c, i>> /\ worker[<<c, i>>] = "ok"

QueueInv ==
    /\ \A k \in DOMAIN outputs : Waiting(outputs[k])
    /\ \A j, k \in DOMAIN outputs :
         j < k /\ outputs[j][1] = outputs[k][1] => outputs[j][2] < outputs[k][2]
    /\ \A t \in Task : pc[t[1]] \notin Ended /\ Waiting(t)
                       => \E k \in DOMAIN outputs : outputs[k] = t

OwnInv == IdentifierInv /\ BatchInv /\ PrefixInv /\ QueueInv

LEMMA OwnInit == Init => OwnInv
<1> SUFFICES ASSUME Init PROVE OwnInv
  OBVIOUS
<1>1. \A c \in Calls : Values(c) = <<>> /\ Len(Values(c)) = 0
  BY DEF Init, Values
<1>2. \A t \in Task : t[1] \in Calls /\ t[2] \in Nat /\ t[2] > 0
  BY ParametersAssumption DEF ParametersAssumption, Task
<1>3. \A c \in Calls : taken[c] = 0 /\ size[c] \in Nat /\ pc[c] = "idle"
  BY ParametersAssumption DEF ParametersAssumption, Init
<1>4. \A t \in Task : cb[t] = "none" /\ status[t] = "None" /\ ~(t[2] <= taken[t[1]])
  BY <1>2, <1>3 DEF Init
<1>5. IdentifierInv
  BY <1>3 DEF IdentifierInv, Begun, InGenerator
<1>6. BatchInv
  BY <1>4 DEF BatchInv
<1>7. PrefixInv
  BY <1>1, <1>3 DEF PrefixInv
<1>8. QueueInv
  BY <1>4 DEF QueueInv, Waiting, Init
<1> QED
  BY <1>5, <1>6, <1>7, <1>8 DEF OwnInv

LEMMA IdentifierNext ==
    ASSUME TypeOK, OneAfterTheOther, IdentifierInv, [Next]_vars
    PROVE  IdentifierInv'
<1> USE DEF IdentifierInv
<1>1. ASSUME UNCHANGED call_id, \A c \in Calls : pc'[c] \in Begun => pc[c] \in Begun
      PROVE  IdentifierInv'
  BY <1>1
<1>2. ASSUME NEW c \in Calls, NewCallId(c) PROVE IdentifierInv'
  <2>1. \A d \in Calls : d # c => pc[d] \in Inactive
    BY <1>2, OthersInactive DEF NewCallId, Inactive, Ended
  <2>2. \A d \in Calls : d # c => pc'[d] = pc[d]
    BY <1>2 DEF NewCallId, Goto, TypeOK, UserTypeOK
  <2> QED
    BY <1>2, <2>1, <2>2 DEF NewCallId, Inactive, Ended, Begun, InGenerator
<1>3. ASSUME NEW c \in Calls, Retrieve(c) PROVE IdentifierInv'
  <2>1. UNCHANGED call_id /\ pc[c] \in Begun
    BY <1>3 DEF Retrieve, objectVars, Begun, InGenerator
  <2>2. \A d \in Calls : d # c => pc'[d] = pc[d]
    BY <1>3 DEF Retrieve, Yield, Goto, TypeOK, UserTypeOK
  <2> QED
    BY <1>1, <2>1, <2>2
<1>4. ASSUME NEW c \in Calls, Call(c) \/ ResetCounters(c) \/ ResetIterating(c)
      PROVE  IdentifierInv'
  <2>1. UNCHANGED call_id /\ pc'[c] \notin Begun /\ \A d \in Calls : d # c => pc'[d] = pc[d]
    BY <1>4 DEF Call, ResetCounters, ResetIterating, Goto, objectVars, Begun, InGenerator,
       TypeOK, UserTypeOK
  <2> QED
    BY <1>1, <2>1
<1>5. ASSUME NEW c \in Calls, Setup(c) \/ Resume(c) \/ Loop(c) \/ CheckIterating(c)
             \/ ConsumerDispatch(c) \/ ConsumerClearIterating(c) \/ CheckAborting(c)
      PROVE  IdentifierInv'
  <2>1. UNCHANGED call_id /\ pc[c] \in Begun
    BY <1>5 DEF Setup, Resume, Loop, CheckIterating, ConsumerDispatch,
       ConsumerClearIterating, CheckAborting, objectVars, Begun, InGenerator
  <2>2. \A d \in Calls : d # c => pc'[d] = pc[d]
    BY <1>5 DEF Setup, Resume, Loop, CheckIterating, ConsumerDispatch, EndGenerator,
       ConsumerClearIterating, CheckAborting, Goto, TypeOK, UserTypeOK
  <2> QED
    BY <1>1, <2>1, <2>2
<1>6. ASSUME NEW t \in Task, WorkerDone(t) \/ Callback(t) PROVE UNCHANGED <<pc, call_id>>
  BY <1>6 DEF WorkerDone, Callback, CallbackEnter, RetrieveResult, DispatchNew,
     CallbackDispatch, CallbackClearIterating, userVars, objectVars
<1>7. ASSUME Enter \/ Exit \/ UNCHANGED vars PROVE UNCHANGED <<pc, call_id>>
  BY <1>7 DEF Enter, Exit, vars, userVars, objectVars
<1> QED
  BY <1>1, <1>2, <1>3, <1>4, <1>5, <1>6, <1>7
  DEF Next, User, UserNext, InsideCall, Generator, ResumeList

\* The tasks drawn after a dispatch: those drawn before, and the next one.
LEMMA DispatchDraws ==
    ASSUME TypeOK, HasNextTask, DispatchOneBatch
    PROVE  /\ NextTask \in Task
           /\ \A t \in Task : t[2] <= taken'[t[1]] <=> t[2] <= taken[t[1]] \/ t = NextTask
           /\ ~(NextTask[2] <= taken[NextTask[1]])
           /\ \A c \in Calls : taken'[c] >= taken[c]
           /\ \A c \in Calls : taken[c] <= size[c] => taken'[c] <= size[c]
           /\ taken' # taken
<1> DEFINE o == original_iterator
<1>1. NextTask \in Task /\ o \in Calls /\ NextTask = <<o, taken[o] + 1>>
  BY NextTaskType DEF NextTask
<1>2. \A c \in Calls : taken[c] \in Nat /\ size[c] \in Nat
  BY ParametersAssumption DEF ParametersAssumption, TypeOK, UserTypeOK
<1>3. taken'[o] = taken[o] + 1 /\ \A c \in Calls : c # o => taken'[c] = taken[c]
  BY <1>1 DEF DispatchOneBatch, TypeOK, UserTypeOK
<1>4. taken[o] < size[o]
  BY DEF HasNextTask
<1> HIDE DEF o
<1>5. \A t \in Task : t[1] \in Calls /\ t[2] \in Nat /\ t = <<t[1], t[2]>>
  BY ParametersAssumption DEF ParametersAssumption, Task
<1>6. ASSUME NEW t \in Task
      PROVE  t[2] <= taken'[t[1]] <=> t[2] <= taken[t[1]] \/ t = NextTask
  <2>1. CASE t[1] = o
    <3>1. t = NextTask <=> t[2] = taken[o] + 1
      BY <1>1, <1>5, <2>1
    <3> QED
      BY <1>1, <1>2, <1>3, <1>5, <2>1, <3>1
  <2>2. CASE t[1] # o
    BY <1>1, <1>3, <1>5, <2>2
  <2> QED
    BY <2>1, <2>2
<1>7. ~(NextTask[2] <= taken[NextTask[1]])
  BY <1>1, <1>2
<1>8. ASSUME NEW c \in Calls
      PROVE  taken'[c] >= taken[c] /\ (taken[c] <= size[c] => taken'[c] <= size[c])
  <2>1. CASE c = o
    BY <1>2, <1>3, <1>4, <2>1
  <2>2. CASE c # o
    BY <1>2, <1>3, <2>2
  <2> QED
    BY <2>1, <2>2
<1>9. taken' # taken
  BY <1>1, <1>2, <1>3
<1> QED
  BY <1>1, <1>6, <1>7, <1>8, <1>9

LEMMA BatchNext ==
    ASSUME CallbackBackend, TypeOK, CallbackInv, OneCallback, BatchInv, [Next]_vars,
           OwnDispatch
    PROVE  BatchInv'
<1> USE DEF BatchInv
<1>1. CASE UNCHANGED <<taken, parallel_call_id, status, cb, worker>>
  BY <1>1
<1>2. ASSUME HasNextTask, DispatchOneBatch,
             \A t \in Task : cb'[t] \in {"enter", "retrieve"} => cb'[t] = cb[t]
      PROVE  BatchInv'
  <2>1. parallel_call_id'[NextTask] = NextTask[1]
    BY <1>2, DispatchDraws, NextTaskType DEF DispatchOneBatch, OwnDispatch, TypeOK, BatchTypeOK
  <2>2. status'[NextTask] = "Pending" /\ cb[NextTask] = "none"
    BY <1>2, DispatchDraws, DispatchFresh DEF DispatchOneBatch, CallbackBackend, TypeOK,
       BatchTypeOK
  <2>3. \A t \in Task : t # NextTask => /\ parallel_call_id'[t] = parallel_call_id[t]
                                        /\ status'[t] = status[t]
                                        /\ worker'[t] = worker[t]
                                        /\ t[2] <= taken'[t[1]] => t[2] <= taken[t[1]]
    BY <1>2, DispatchDraws, DispatchFresh
  <2> QED
    BY <1>2, <2>1, <2>2, <2>3
<1>3. ASSUME NEW c \in Calls, ConsumerDispatch(c) PROVE BatchInv'
  BY <1>1, <1>2, <1>3 DEF ConsumerDispatch
<1>4. ASSUME NEW t \in Task, CallbackDispatch(t) PROVE BatchInv'
  <2>1. \A u \in Task : cb'[u] \in {"enter", "retrieve"} => cb'[u] = cb[u]
    BY <1>4 DEF CallbackDispatch, TypeOK, BatchTypeOK
  <2>2. CASE HasNextTask
    BY <1>2, <1>4, <2>1, <2>2 DEF CallbackDispatch
  <2>3. CASE ~HasNextTask
    <3>1. UNCHANGED <<taken, parallel_call_id, status, worker>>
      BY <1>4, <2>3 DEF CallbackDispatch
    <3> QED
      BY <2>1, <3>1
  <2> QED
    BY <2>2, <2>3
<1>5. ASSUME NEW t \in Task, WorkerDone(t) PROVE BatchInv'
  <2>1. /\ UNCHANGED <<taken, parallel_call_id, status>>
        /\ worker[t] = "running" /\ worker'[t] \in {"ok", "error"}
        /\ \A u \in Task : u # t => worker'[u] = worker[u] /\ cb'[u] = cb[u]
    BY <1>5 DEF WorkerDone, userVars, TypeOK, BatchTypeOK
  <2> QED
    BY <2>1
<1>6. ASSUME NEW t \in Task, CallbackEnter(t) PROVE BatchInv'
  BY <1>6 DEF CallbackEnter, userVars, TypeOK, BatchTypeOK
<1>7. ASSUME NEW t \in Task, RetrieveResult(t) PROVE BatchInv'
  BY <1>7 DEF RetrieveResult, userVars, TypeOK, BatchTypeOK
<1>8. ASSUME NEW t \in Task, DispatchNew(t) \/ CallbackClearIterating(t) PROVE BatchInv'
  BY <1>8 DEF DispatchNew, CallbackClearIterating, userVars, TypeOK, BatchTypeOK
<1>9. CASE Exit
  BY <1>9 DEF Exit, userVars
<1>10. ASSUME NEW c \in Calls, Call(c) \/ Resume(c) \/ ResetCounters(c) \/ NewCallId(c)
              \/ ResetIterating(c) \/ Setup(c) \/ Loop(c) \/ CheckIterating(c)
              \/ ConsumerClearIterating(c) \/ CheckAborting(c) \/ Retrieve(c)
       PROVE  UNCHANGED <<taken, parallel_call_id, status, cb, worker>>
  BY <1>10 DEF Call, Resume, ResetCounters, ResetIterating, NewCallId, Setup, Loop,
     CheckIterating, ConsumerClearIterating, CheckAborting, Retrieve, batchVars
<1>11. CASE Enter \/ UNCHANGED vars
  BY <1>1, <1>11 DEF Enter, vars, userVars, batchVars
<1> QED
  BY <1>1, <1>3, <1>4, <1>5, <1>6, <1>7, <1>8, <1>9, <1>10, <1>11
  DEF Next, User, UserNext, InsideCall, Generator, ResumeList, Callback

-----------------------------------------------------------------------------
\* Nothing is drawn, queued or retrieved.
LEMMA OwnQuiet ==
    ASSUME TypeOK, PrefixInv, QueueInv,
           UNCHANGED <<outputs, dropped, delivered, taken, size>>,
           \A t \in Task : worker[t] = "ok" => worker'[t] = "ok",
           \A c \in Calls : pc[c] \in Ended => pc'[c] \in Ended
    PROVE  PrefixInv' /\ QueueInv'
<1>1. \A c : Values(c)' = Values(c)
  BY DEF Values
<1>2. \A c \in Calls : \A i \in DOMAIN Values(c) : <<c, i>> \in Task
  <2> SUFFICES ASSUME NEW c \in Calls, NEW i \in DOMAIN Values(c) PROVE <<c, i>> \in Task
    OBVIOUS
  <2>1. Values(c) \in Seq(Task) /\ Values(c)[i] = <<c, i>>
    BY ValuesType DEF PrefixInv
  <2> QED
    BY <2>1
<1>3. PrefixInv'
  BY <1>1, <1>2 DEF PrefixInv
<1>4. \A t : Waiting(t)' <=> Waiting(t)
  BY <1>1 DEF Waiting
<1>5. \A t \in Task : t[1] \in Calls
  BY DEF Task
<1>6. QueueInv'
  BY <1>4, <1>5 DEF QueueInv
<1> QED
  BY <1>3, <1>6

LEMMA OwnDispatchKeeps ==
    ASSUME CallbackBackend, TypeOK, CallbackInv, PrefixInv, QueueInv,
           HasNextTask, DispatchOneBatch, UNCHANGED <<dropped, delivered, size>>,
           \A c \in Calls : pc[c] \in Ended => pc'[c] \in Ended
    PROVE  PrefixInv' /\ QueueInv'
<1> DEFINE u == NextTask
<1>1. /\ u \in Task
      /\ \A t \in Task : t[2] <= taken'[t[1]] <=> t[2] <= taken[t[1]] \/ t = u
      /\ ~(u[2] <= taken[u[1]])
      /\ \A c \in Calls : taken'[c] >= taken[c]
      /\ \A c \in Calls : taken[c] <= size[c] => taken'[c] <= size[c]
  BY DispatchDraws
<1>2. outputs' = Append(outputs, u)
  BY DEF DispatchOneBatch, CallbackBackend
<1>3. \A t \in Task : t # u => worker'[t] = worker[t]
  BY DispatchFresh
<1> HIDE DEF u
<1>4. \A c : Values(c)' = Values(c) /\ Len(Values(c))' = Len(Values(c))
  BY DEF Values
<1>5. \A c \in Calls : /\ Values(c) \in Seq(Task) /\ Len(Values(c)) \in Nat
                       /\ taken[c] \in Nat /\ taken'[c] \in Nat
  <2>1. \A c \in Calls : Values(c) \in Seq(Task) /\ Len(Values(c)) \in Nat
    BY ValuesType
  <2>2. taken' \in [Calls -> 0..MaxTasks] /\ taken \in [Calls -> 0..MaxTasks]
    BY DispatchType DEF TypeOK, UserTypeOK
  <2> QED
    BY <2>1, <2>2, ParametersAssumption DEF ParametersAssumption
<1>6. \A t \in Task : t[1] \in Calls /\ t[2] \in Nat
  BY ParametersAssumption DEF ParametersAssumption, Task
<1>7. \A t \in Task : Waiting(t)' <=> Waiting(t) \/ t = u
  <2>1. Len(Values(u[1])) < u[2]
    <3>1. Len(Values(u[1])) <= taken[u[1]] /\ u[1] \in Calls
      BY <1>1, <1>6 DEF PrefixInv
    <3> QED
      BY <1>1, <1>5, <1>6, <3>1
  <2> QED
    BY <1>1, <1>4, <2>1 DEF Waiting
<1>8. PrefixInv'
  <2> SUFFICES ASSUME NEW c \in Calls
               PROVE  /\ (Len(Values(c)) <= taken[c] /\ taken[c] <= size[c])'
                      /\ \A i \in DOMAIN Values(c) : /\ Values(c)[i] = <<c, i>>
                                                     /\ worker'[<<c, i>>] = "ok"
    BY <1>4 DEF PrefixInv
  <2>1. (Len(Values(c)) <= taken[c])'
    BY <1>1, <1>4, <1>5 DEF PrefixInv
  <2>2. (taken[c] <= size[c])'
    BY <1>1 DEF PrefixInv
  <2>3. ASSUME NEW i \in DOMAIN Values(c)
        PROVE  Values(c)[i] = <<c, i>> /\ worker'[<<c, i>>] = "ok"
    <3>1. Values(c)[i] = <<c, i>> /\ worker[<<c, i>>] = "ok"
      BY DEF PrefixInv
    <3>2. <<c, i>> \in Task /\ i <= Len(Values(c)) /\ i \in Nat
      BY <1>5, <3>1
    <3>3. i <= taken[c]
      BY <1>5, <3>2 DEF PrefixInv
    <3>4. <<c, i>> # u
      BY <1>1, <3>3
    <3> QED
      BY <1>3, <3>1, <3>2, <3>4
  <2> QED
    BY <2>1, <2>2, <2>3
<1>9. QueueInv'
  <2>1. outputs \in Seq(Task) /\ Len(outputs) \in Nat
    BY DEF TypeOK, ObjectTypeOK
  <2>2. /\ DOMAIN outputs' = 1..(Len(outputs) + 1) /\ DOMAIN outputs = 1..Len(outputs)
        /\ \A k \in DOMAIN outputs : outputs'[k] = outputs[k] /\ outputs[k] \in Task
        /\ outputs'[Len(outputs) + 1] = u
    BY <1>1, <1>2, <2>1
  <2>3. \A k \in DOMAIN outputs' : Waiting(outputs[k])'
    <3> SUFFICES ASSUME NEW k \in DOMAIN outputs' PROVE Waiting(outputs[k])'
      OBVIOUS
    <3>1. PICK t \in Task : outputs'[k] = t /\ (Waiting(t) \/ t = u)
      BY <1>1, <2>1, <2>2 DEF QueueInv
    <3>2. Waiting(t)'
      BY <1>7, <3>1
    <3> QED
      BY <3>1, <3>2 DEF Waiting
  <2>4. \A j, k \in DOMAIN outputs' :
          j < k /\ outputs'[j][1] = outputs'[k][1] => outputs'[j][2] < outputs'[k][2]
    <3> SUFFICES ASSUME NEW j \in DOMAIN outputs', NEW k \in DOMAIN outputs', j < k,
                        outputs'[j][1] = outputs'[k][1]
                 PROVE  outputs'[j][2] < outputs'[k][2]
      OBVIOUS
    <3>1. j \in DOMAIN outputs /\ outputs'[j] = outputs[j] /\ outputs[j] \in Task
      BY <2>1, <2>2
    <3>2. CASE k \in DOMAIN outputs
      BY <2>2, <3>1, <3>2 DEF QueueInv
    <3>3. CASE k \notin DOMAIN outputs
      <4>1. outputs'[k] = u
        BY <2>1, <2>2, <3>3
      <4>2. outputs[j][2] <= taken[u[1]] /\ ~(u[2] <= taken[u[1]]) /\ u[1] \in Calls
        BY <1>1, <1>6, <3>1, <4>1 DEF QueueInv, Waiting
      <4> QED
        BY <1>1, <1>5, <1>6, <3>1, <4>1, <4>2
    <3> QED
      BY <3>2, <3>3
  <2>5. \A t \in Task : pc'[t[1]] \notin Ended /\ Waiting(t)'
                        => \E k \in DOMAIN outputs' : outputs'[k] = t
    <3> SUFFICES ASSUME NEW t \in Task, pc'[t[1]] \notin Ended, Waiting(t)'
                 PROVE  \E k \in DOMAIN outputs' : outputs'[k] = t
      OBVIOUS
    <3>1. CASE t = u
      BY <2>1, <2>2, <3>1
    <3>2. CASE t # u
      <4>1. Waiting(t) /\ pc[t[1]] \notin Ended
        BY <1>6, <1>7, <3>2
      <4>2. PICK k \in DOMAIN outputs : outputs[k] = t
        BY <4>1 DEF QueueInv
      <4> QED
        BY <2>1, <2>2, <4>2
    <3> QED
      BY <3>1, <3>2
  <2> QED
    BY <2>3, <2>4, <2>5 DEF QueueInv
<1> QED
  BY <1>8, <1>9

(***************************************************************************)
(* The oldest batch of the current call is the task after its last value.  *)
(***************************************************************************)
LEMMA OwnRetrieveFinds ==
    ASSUME CallbackBackend, TypeOK, OwnInv, NEW c \in Calls, Retrieve(c)
    PROVE  LET t == <<c, Len(Values(c)) + 1>> IN
           /\ t \in Task /\ t[2] <= taken[c]
           /\ \E k \in DOMAIN outputs : outputs[k] = t /\ outputs' = RemoveAt(outputs, k)
           /\ \/ /\ Goto(c, "raised") /\ UNCHANGED <<first, dropped, delivered>>
                 /\ worker[t] = "error"
              \/ worker[t] = "ok" /\ Yield(c, t)
<1> DEFINE n == Len(Values(c))
           u == <<c, n + 1>>
<1>1. PICK k \in DOMAIN outputs :
        /\ Oldest(k) /\ Ready(outputs[k])
        /\ outputs' = RemoveAt(outputs, k)
        /\ IF worker[outputs[k]] = "error"
           THEN /\ Goto(c, "raised") /\ running' = NoCall
                /\ UNCHANGED <<first, dropped, delivered>>
           ELSE Yield(c, outputs[k])
  BY DEF Retrieve
<1>2. call_id = c /\ pc[c] \notin Ended
  BY DEF Retrieve, OwnInv, IdentifierInv, Begun, InGenerator, Ended
<1>3. outputs \in Seq(Task) /\ Len(outputs) \in Nat /\ outputs[k] \in Task
  BY DEF TypeOK, ObjectTypeOK
<1>4. n \in Nat /\ taken[c] \in 0..MaxTasks /\ MaxTasks \in Nat
  BY ValuesType, ParametersAssumption DEF ParametersAssumption, TypeOK, UserTypeOK
<1> DEFINE t == outputs[k]
<1>5. t[1] = c /\ t[2] \in Nat /\ t = <<c, t[2]>> /\ n < t[2] /\ t[2] <= taken[c]
  <2>1. Waiting(t) /\ t[1] \in Calls /\ t[2] \in Nat /\ t = <<t[1], t[2]>>
    BY <1>3, ParametersAssumption DEF OwnInv, QueueInv, Task, ParametersAssumption
  <2>2. parallel_call_id[t] = t[1]
    BY <1>3, <2>1 DEF OwnInv, BatchInv, Waiting
  <2>3. parallel_call_id[t] = call_id
    BY <1>1 DEF Oldest, Retrievable, CallbackBackend
  <2> QED
    BY <1>2, <2>1, <2>2, <2>3 DEF Waiting
<1> HIDE DEF n
<1>6. u \in Task /\ u[1] = c /\ u[2] = n + 1 /\ n + 1 <= taken[c]
  BY <1>4, <1>5 DEF Task
<1>7. Waiting(u)
  BY <1>4, <1>6 DEF Waiting, n
<1>8. PICK j \in DOMAIN outputs : outputs[j] = u
  BY <1>2, <1>6, <1>7 DEF OwnInv, QueueInv
<1>9. t[2] = n + 1
  <2> SUFFICES ASSUME t[2] # n + 1 PROVE FALSE
    OBVIOUS
  <2>1. n + 1 < t[2]
    BY <1>4, <1>5
  <2>2. ~(j < k)
    <3>1. Retrievable(u)
      <4>1. parallel_call_id[u] = c
        BY <1>6 DEF OwnInv, BatchInv
      <4> QED
        BY <1>2, <4>1 DEF Retrievable
    <3> QED
      BY <1>1, <1>3, <1>8, <3>1 DEF Oldest
  <2>3. ~(k < j)
    <3>1. k < j => t[2] < u[2]
      BY <1>5, <1>6, <1>8 DEF OwnInv, QueueInv
    <3> QED
      BY <1>4, <1>5, <1>6, <2>1, <3>1
  <2>4. j # k
    BY <1>5, <1>6, <1>8, <2>1
  <2> QED
    BY <1>3, <2>2, <2>3, <2>4
<1>10. t = u
  BY <1>5, <1>9
<1>11. worker[t] = "error" \/ worker[t] = "ok"
  BY <1>1, <1>3 DEF Ready, CallbackBackend, OwnInv, BatchInv
<1> QED
  BY <1>1, <1>6, <1>10, <1>11 DEF n

LEMMA OwnRetrieveKeeps ==
    ASSUME CallbackBackend, TypeOK, FirstInv, OwnInv, NEW c \in Calls, Retrieve(c)
    PROVE  PrefixInv' /\ QueueInv'
<1> DEFINE n == Len(Values(c))
           t == <<c, n + 1>>
<1>1. /\ t \in Task /\ t[2] <= taken[c]
      /\ \/ /\ Goto(c, "raised") /\ UNCHANGED <<first, dropped, delivered>>
         \/ worker[t] = "ok" /\ Yield(c, t)
  BY OwnRetrieveFinds
<1>2. PICK k \in DOMAIN outputs : outputs[k] = t /\ outputs' = RemoveAt(outputs, k)
  BY OwnRetrieveFinds
<1>3. UNCHANGED <<taken, size, worker>>
  BY DEF Retrieve, batchVars
<1>4. n \in Nat /\ taken[c] \in Nat
  BY ValuesType, ParametersAssumption DEF ParametersAssumption, TypeOK, UserTypeOK
<1>5. t[1] = c /\ t[2] = n + 1
  OBVIOUS
<1>6. \A u \in Task : u[1] \in Calls /\ u[2] \in Nat /\ u = <<u[1], u[2]>>
  BY ParametersAssumption DEF ParametersAssumption, Task
<1>7. \A d \in Calls : Len(Values(d)) \in Nat /\ Values(d) \in Seq(Task)
  BY ValuesType
<1> HIDE DEF n, t
\* What is left in the queue, and in which order.
<1>8. outputs \in Seq(Task) /\ Len(outputs) \in Nat
  BY DEF TypeOK, ObjectTypeOK
<1>9. /\ outputs' \in Seq(Task) /\ Len(outputs') = Len(outputs) - 1
      /\ \A i \in 1..(Len(outputs) - 1) : outputs'[i] = outputs[IF i < k THEN i ELSE i + 1]
  BY <1>2, <1>8, RemoveAtElements, RemoveAtType
<1>10. \A i \in DOMAIN outputs' : LET j == IF i < k THEN i ELSE i + 1 IN
          j \in DOMAIN outputs /\ j # k /\ outputs'[i] = outputs[j]
  BY <1>8, <1>9
<1>11. \A j \in DOMAIN outputs : j # k => \E i \in DOMAIN outputs' : outputs'[i] = outputs[j]
  <2> SUFFICES ASSUME NEW j \in DOMAIN outputs, j # k
               PROVE  \E i \in DOMAIN outputs' : outputs'[i] = outputs[j]
    OBVIOUS
  <2> DEFINE m == IF j < k THEN j ELSE j - 1
  <2>1. m \in 1..(Len(outputs) - 1) /\ (IF m < k THEN m ELSE m + 1) = j
    BY <1>2, <1>8
  <2> HIDE DEF m
  <2>2. m \in DOMAIN outputs'
    BY <1>8, <1>9, <2>1
  <2>3. outputs'[m] = outputs[IF m < k THEN m ELSE m + 1]
    BY <1>9, <2>1
  <2> QED
    BY <2>1, <2>2, <2>3
<1>12. \A i, j \in DOMAIN outputs' :
         i < j /\ outputs'[i][1] = outputs'[j][1] => outputs'[i][2] < outputs'[j][2]
  <2> SUFFICES ASSUME NEW i \in DOMAIN outputs', NEW j \in DOMAIN outputs', i < j,
                      outputs'[i][1] = outputs'[j][1]
               PROVE  outputs'[i][2] < outputs'[j][2]
    OBVIOUS
  <2> DEFINE a == IF i < k THEN i ELSE i + 1
             b == IF j < k THEN j ELSE j + 1
  <2>1. a \in DOMAIN outputs /\ b \in DOMAIN outputs
        /\ outputs'[i] = outputs[a] /\ outputs'[j] = outputs[b]
    BY <1>10
  <2>2. a < b
    BY <1>2, <1>8, <1>9
  <2> HIDE DEF a, b
  <2> QED
    BY <2>1, <2>2 DEF OwnInv, QueueInv
\* No other entry is the task retrieved.
<1>13. \A j \in DOMAIN outputs : j # k => outputs[j] # t
  <2> SUFFICES ASSUME NEW j \in DOMAIN outputs, j # k, outputs[j] = t PROVE FALSE
    OBVIOUS
  <2>1. j < k \/ k < j
    BY <1>8
  <2>2. t[2] < t[2]
    BY <1>2, <2>1 DEF OwnInv, QueueInv
  <2> QED
    BY <1>1, <1>6, <2>2
<1>14. \A d \in Calls : d # c => pc'[d] = pc[d]
  BY <1>1, <1>5 DEF Yield, Goto, TypeOK, UserTypeOK
<1>15. CASE Goto(c, "raised") /\ UNCHANGED <<first, dropped, delivered>>
  <2>1. \A d : Values(d)' = Values(d)
    BY <1>15 DEF Values
  <2>2. PrefixInv'
    BY <1>3, <2>1 DEF OwnInv, PrefixInv
  <2>3. \A u : Waiting(u)' <=> Waiting(u)
    BY <1>3, <2>1 DEF Waiting
  <2>4. \A i \in DOMAIN outputs' : Waiting(outputs[i])'
    BY <1>10, <2>3 DEF OwnInv, QueueInv
  <2>5. pc'[c] \in Ended
    BY <1>15 DEF Goto, TypeOK, UserTypeOK, Ended
  <2>6. \A u \in Task : pc'[u[1]] \notin Ended /\ Waiting(u)'
                        => \E i \in DOMAIN outputs' : outputs'[i] = u
    <3> SUFFICES ASSUME NEW u \in Task, pc'[u[1]] \notin Ended, Waiting(u)
                 PROVE  \E i \in DOMAIN outputs' : outputs'[i] = u
      BY <2>3
    <3>1. u[1] # c /\ pc[u[1]] \notin Ended
      BY <1>6, <1>14, <2>5
    <3>2. PICK j \in DOMAIN outputs : outputs[j] = u
      BY <3>1 DEF OwnInv, QueueInv
    <3>3. j # k
      BY <1>2, <1>5, <3>1, <3>2
    <3> QED
      BY <1>11, <3>2, <3>3
  <2> QED
    BY <1>12, <2>2, <2>4, <2>6 DEF QueueInv
<1>16. CASE worker[t] = "ok" /\ Yield(c, t)
  <2>1. /\ Values(c)' = Append(Values(c), t)
        /\ \A d \in Calls : d # c => Values(d)' = Values(d)
    BY <1>1, <1>16, YieldAppends DEF FirstInv, Values
  <2>2. Len(Values(c)') = n + 1 /\ \A d \in Calls : d # c => Len(Values(d)') = Len(Values(d))
    BY <1>1, <1>7, <2>1 DEF n
  <2>3. PrefixInv'
    <3> SUFFICES ASSUME NEW d \in Calls
                 PROVE  /\ Len(Values(d)') <= taken[d] /\ taken[d] <= size[d]
                        /\ \A i \in DOMAIN Values(d)' : /\ Values(d)'[i] = <<d, i>>
                                                        /\ worker[<<d, i>>] = "ok"
      BY <1>3 DEF PrefixInv
    <3>1. CASE d # c
      BY <2>1, <3>1 DEF OwnInv, PrefixInv
    <3>2. CASE d = c
      <4>1. Len(Values(c)') <= taken[c] /\ taken[c] <= size[c]
        BY <1>1, <1>5, <2>2 DEF OwnInv, PrefixInv
      <4>2. ASSUME NEW i \in DOMAIN Values(c)'
            PROVE  Values(c)'[i] = <<c, i>> /\ worker[<<c, i>>] = "ok"
        <5>1. CASE i \in DOMAIN Values(c)
          <6>1. Values(c)'[i] = Values(c)[i]
            BY <1>1, <1>7, <2>1, <5>1
          <6> QED
            BY <5>1, <6>1 DEF OwnInv, PrefixInv
        <5>2. CASE i \notin DOMAIN Values(c)
          <6>1. i = n + 1 /\ Values(c)'[i] = t
            BY <1>1, <1>7, <2>1, <5>2 DEF n
          <6> QED
            BY <1>16, <6>1 DEF t
        <5> QED
          BY <5>1, <5>2
      <4> QED
        BY <3>2, <4>1, <4>2
    <3> QED
      BY <3>1, <3>2
  <2>4. \A u \in Task : Waiting(u)' <=> Waiting(u) /\ u # t
    <3> SUFFICES ASSUME NEW u \in Task PROVE Waiting(u)' <=> Waiting(u) /\ u # t
      OBVIOUS
    <3>1. CASE u[1] # c
      <4>1. u # t /\ Len(Values(u[1]))' = Len(Values(u[1]))
        BY <1>5, <1>6, <2>2, <3>1
      <4> QED
        BY <1>3, <4>1 DEF Waiting
    <3>2. CASE u[1] = c
      <4>1. u = t <=> u[2] = n + 1
        BY <1>6, <3>2 DEF t
      <4>2. Waiting(u)' <=> n + 1 < u[2] /\ u[2] <= taken[c]
        BY <1>3, <2>2, <3>2 DEF Waiting
      <4>3. Waiting(u) <=> n < u[2] /\ u[2] <= taken[c]
        BY <3>2 DEF Waiting, n
      <4> QED
        BY <1>4, <1>6, <4>1, <4>2, <4>3
    <3> QED
      BY <3>1, <3>2
  <2>5. \A i \in DOMAIN outputs' : Waiting(outputs[i])'
    <3> SUFFICES ASSUME NEW i \in DOMAIN outputs' PROVE Waiting(outputs[i])'
      OBVIOUS
    <3>1. PICK j \in DOMAIN outputs : j # k /\ outputs'[i] = outputs[j]
      BY <1>10
    <3>2. PICK u \in Task : u = outputs[j] /\ Waiting(u) /\ u # t
      BY <1>8, <1>13, <3>1 DEF OwnInv, QueueInv
    <3>3. Waiting(u)'
      BY <2>4, <3>2
    <3> QED
      BY <3>1, <3>2, <3>3 DEF Waiting
  <2>6. \A u \in Task : pc'[u[1]] \notin Ended /\ Waiting(u)'
                        => \E i \in DOMAIN outputs' : outputs'[i] = u
    <3> SUFFICES ASSUME NEW u \in Task, pc'[u[1]] \notin Ended, Waiting(u), u # t
                 PROVE  \E i \in DOMAIN outputs' : outputs'[i] = u
      BY <2>4
    <3>1. pc[u[1]] \notin Ended
      <4>1. pc[c] \notin Ended
        BY DEF Retrieve, Ended
      <4> QED
        BY <1>6, <1>14, <4>1
    <3>2. PICK j \in DOMAIN outputs : outputs[j] = u
      BY <3>1 DEF OwnInv, QueueInv
    <3> QED
      BY <1>2, <1>11, <3>2
  <2> QED
    BY <1>12, <2>3, <2>5, <2>6 DEF QueueInv
<1> QED
  BY <1>1, <1>15, <1>16

LEMMA OwnNext ==
    ASSUME CallbackBackend, TypeOK, OneAfterTheOther, FirstInv, CallbackInv, OneCallback,
           OwnInv, [Next]_vars, OwnDispatch
    PROVE  OwnInv'
<1>1. IdentifierInv' /\ BatchInv'
  BY IdentifierNext, BatchNext DEF OwnInv
<1>2. ASSUME UNCHANGED <<outputs, dropped, delivered, taken, size>>,
             \A t \in Task : worker[t] = "ok" => worker'[t] = "ok",
             \A c \in Calls : pc[c] \in Ended => pc'[c] \in Ended
      PROVE  PrefixInv' /\ QueueInv'
  BY <1>2, OwnQuiet DEF OwnInv
<1>3. ASSUME NEW c \in Calls, Call(c) \/ Resume(c) \/ ResetCounters(c) \/ NewCallId(c)
             \/ ResetIterating(c) \/ Setup(c) \/ Loop(c) \/ CheckIterating(c)
             \/ ConsumerClearIterating(c) \/ CheckAborting(c)
             \/ (ConsumerDispatch(c) /\ ~HasNextTask)
      PROVE  PrefixInv' /\ QueueInv'
  <2>1. UNCHANGED <<outputs, dropped, delivered, taken, size, worker>>
    BY <1>3 DEF Call, Resume, ResetCounters, NewCallId, ResetIterating, Setup, Loop,
       CheckIterating, ConsumerClearIterating, CheckAborting, ConsumerDispatch, batchVars
  <2>2. pc[c] \notin Ended /\ \A d \in Calls : d # c => pc'[d] = pc[d]
    BY <1>3 DEF Call, Resume, ResetCounters, NewCallId, ResetIterating, Setup, Loop,
       CheckIterating, ConsumerClearIterating, CheckAborting, ConsumerDispatch,
       EndGenerator, Goto, TypeOK, UserTypeOK, Ended
  <2> QED
    BY <1>2, <2>1, <2>2
<1>4. ASSUME NEW c \in Calls, ConsumerDispatch(c), HasNextTask PROVE PrefixInv' /\ QueueInv'
  <2>1. pc[c] \notin Ended /\ \A d \in Calls : d # c => pc'[d] = pc[d]
    BY <1>4 DEF ConsumerDispatch, Goto, TypeOK, UserTypeOK, Ended
  <2>2. DispatchOneBatch /\ UNCHANGED <<dropped, delivered, size>>
    BY <1>4 DEF ConsumerDispatch
  <2> QED
    BY <1>4, <2>1, <2>2, OwnDispatchKeeps DEF OwnInv
<1>5. ASSUME NEW t \in Task, CallbackDispatch(t), HasNextTask PROVE PrefixInv' /\ QueueInv'
  <2>1. DispatchOneBatch /\ UNCHANGED <<dropped, delivered, size, pc>>
    BY <1>5 DEF CallbackDispatch
  <2> QED
    BY <1>5, <2>1, OwnDispatchKeeps DEF OwnInv
<1>6. ASSUME NEW t \in Task, WorkerDone(t) PROVE PrefixInv' /\ QueueInv'
  <2>1. UNCHANGED <<outputs, dropped, delivered, taken, size, pc>>
    BY <1>6 DEF WorkerDone, userVars
  <2>2. \A u \in Task : worker[u] = "ok" => worker'[u] = "ok"
    BY <1>6 DEF WorkerDone, TypeOK, BatchTypeOK
  <2> QED
    BY <1>2, <2>1, <2>2
<1>7. ASSUME NEW t \in Task, CallbackEnter(t) \/ RetrieveResult(t) \/ DispatchNew(t)
             \/ CallbackClearIterating(t) \/ (CallbackDispatch(t) /\ ~HasNextTask)
      PROVE  PrefixInv' /\ QueueInv'
  <2>1. UNCHANGED <<outputs, dropped, delivered, taken, size, pc, worker>>
    BY <1>7 DEF CallbackEnter, RetrieveResult, DispatchNew, CallbackClearIterating,
       CallbackDispatch, userVars, CallbackBackend
  <2> QED
    BY <1>2, <2>1
<1>8. ASSUME Exit PROVE PrefixInv' /\ QueueInv'
  <2>1. UNCHANGED <<outputs, dropped, delivered, taken, size, pc>>
    BY <1>8 DEF Exit, userVars
  <2>2. \A u \in Task : worker[u] = "ok" => worker'[u] = "ok"
    BY <1>8 DEF Exit
  <2> QED
    BY <1>2, <2>1, <2>2
<1>9. ASSUME Enter \/ UNCHANGED vars
      PROVE  UNCHANGED <<outputs, dropped, delivered, taken, size, pc, worker>>
  BY <1>9 DEF Enter, vars, userVars, batchVars
<1>10. ASSUME NEW c \in Calls, Retrieve(c) PROVE PrefixInv' /\ QueueInv'
  BY <1>10, OwnRetrieveKeeps
<1>11. PrefixInv' /\ QueueInv'
  BY <1>2, <1>3, <1>4, <1>5, <1>6, <1>7, <1>8, <1>9, <1>10
  DEF Next, User, UserNext, InsideCall, Generator, ResumeList, Callback
<1> QED
  BY <1>1, <1>11 DEF OwnInv

(***************************************************************************)
(* The steps of the weak promise.  A call ends early at worst, and raises  *)
(* only for a failed task of its own, whose value it does not have.        *)
(***************************************************************************)
LEMMA OwnRetrieveResult ==
    ASSUME CallbackBackend, TypeOK, OneAfterTheOther, FirstInv, OwnInv,
           NEW c \in Calls, Retrieve(c)
    PROVE  Results!Produce(c) \/ Results!Fail(c)
<1> DEFINE t == <<c, Len(Values(c)) + 1>>
<1>1. /\ t \in Task /\ t[2] <= taken[c]
      /\ \/ /\ Goto(c, "raised") /\ UNCHANGED <<first, dropped, delivered>>
            /\ worker[t] = "error"
         \/ worker[t] = "ok" /\ Yield(c, t)
  BY OwnRetrieveFinds
<1>2. pc[c] = "retrieve" /\ pc[c] \notin Inactive /\ UNCHANGED <<size, Failed>>
  BY DEF Retrieve, Inactive, Ended, Failed, batchVars
<1>3. Len(Values(c)) < size[c]
  <2>1. Len(Values(c)) \in Nat /\ taken[c] \in Nat /\ size[c] \in Nat
    BY ValuesType, ParametersAssumption DEF TypeOK, UserTypeOK, ParametersAssumption
  <2>2. Len(Values(c)) + 1 <= taken[c] /\ taken[c] <= size[c]
    BY <1>1 DEF OwnInv, PrefixInv
  <2> QED
    BY <2>1, <2>2
<1>4. Len(Values(c)) + 1 \in (Len(Values(c)) + 1)..size[c]
  BY <1>3, ValuesType, ParametersAssumption DEF TypeOK, UserTypeOK, ParametersAssumption
<1> HIDE DEF t
<1>5. t = <<c, Len(Values(c)) + 1>>
  BY DEF t
<1>6. worker[t] = "error" => t \in Failed
  BY <1>1 DEF Failed
<1> QED
  BY <1>1, <1>2, <1>3, <1>4, <1>5, <1>6, RaiseIsFail, YieldIsProduce

LEMMA RaisesForItsOwn ==
    ASSUME CallbackBackend, TypeOK, OneAfterTheOther, CallbackInv, OwnInv,
           NEW c \in Calls, CheckAborting(c), Goto(c, "raised"),
           \E t \in Task : status[t] = "Error" /\ parallel_call_id[t] = call_id
    PROVE  Results!Fail(c)
<1>1. PICK t \in Task : status[t] = "Error" /\ parallel_call_id[t] = call_id
  OBVIOUS
<1>2. /\ pc[c] = "check_aborting" /\ UNCHANGED <<size, dropped, delivered, Failed>>
      /\ pc'[c] = "raised" /\ \A d \in Calls : d # c => pc'[d] = pc[d]
  BY DEF CheckAborting, Goto, TypeOK, UserTypeOK, Failed, batchVars
<1>3. t[1] \in Calls /\ t[2] \in Nat /\ t[2] > 0 /\ t = <<t[1], t[2]>>
  BY ParametersAssumption DEF Task, ParametersAssumption
<1>4. \A d \in Calls : taken[d] \in Nat /\ size[d] \in Nat
  BY ParametersAssumption DEF TypeOK, UserTypeOK, ParametersAssumption
<1>5. t[2] <= taken[t[1]] /\ t[1] = c
  <2>1. t[2] <= taken[t[1]]
    BY <1>1, <1>3, <1>4 DEF CallbackInv, NotDrawnYet
  <2>2. parallel_call_id[t] = t[1] /\ call_id = c
    BY <1>2, <2>1 DEF OwnInv, BatchInv, IdentifierInv, Begun, InGenerator
  <2> QED
    BY <1>1, <2>1, <2>2
<1>6. Values(c) \in Seq(Task) /\ Len(Values(c)) \in Nat /\ DOMAIN Values(c) = 1..Len(Values(c))
  BY ValuesType
<1>7. ~(t[2] <= Len(Values(c)))
  <2> SUFFICES ASSUME t[2] <= Len(Values(c)) PROVE FALSE
    OBVIOUS
  <2>1. worker[<<c, t[2]>>] = "ok"
    <3>1. t[2] \in DOMAIN Values(c)
      BY <1>3, <1>6
    <3> QED
      BY <3>1 DEF OwnInv, PrefixInv
  <2>2. worker[t] = "error"
    BY <1>1 DEF OwnInv, BatchInv
  <2> QED
    BY <1>3, <1>5, <2>1, <2>2
<1> HIDE DEF Values
<1>8. t[2] \in (Len(Values(c)) + 1)..size[c]
  BY <1>3, <1>4, <1>5, <1>6, <1>7 DEF OwnInv, PrefixInv
<1>9. pc[c] \notin Inactive
  BY <1>2 DEF Inactive, Ended
<1>10. <<c, t[2]>> \in Failed
  BY <1>1, <1>3, <1>5 DEF OwnInv, BatchInv, Failed
<1> QED
  BY <1>2, <1>8, <1>9, <1>10, RaiseIsFail

\* The queue is not all that is known of the values: they are of tasks that ended well.
LEMMA OwnProduced == TypeOK /\ OwnInv => ProducedInv
<1> SUFFICES ASSUME TypeOK, OwnInv, NEW t \in Task, t[2] <= Len(Values(t[1]))
             PROVE  worker[t] = "ok"
  BY DEF ProducedInv
<1>1. t[1] \in Calls /\ t[2] \in Nat /\ t[2] > 0 /\ t = <<t[1], t[2]>>
  BY ParametersAssumption DEF Task, ParametersAssumption
<1>2. t[2] \in DOMAIN Values(t[1])
  BY <1>1, ValuesType
<1> QED
  BY <1>1, <1>2 DEF OwnInv, PrefixInv

LEMMA OwnResultsNext ==
    ASSUME CallbackBackend, TypeOK, OneAfterTheOther, FirstInv, CallbackInv, OwnInv,
           [Next]_vars
    PROVE  [Results!Next]_(Results!vars)
<1>0. ASSUME NEW t \in Task, WorkerDone(t) PROVE [Results!Next]_(Results!vars)
  BY <1>0, WorkerMapsToTask, OwnProduced DEF OwnInv, PrefixInv
<1> SUFFICES ASSUME UNCHANGED Failed PROVE [Results!Next]_(Results!vars)
  BY <1>0, OutcomesStay
<1>1. ASSUME NEW c \in Calls, Retrieve(c) PROVE Results!Next
  BY <1>1, OwnRetrieveResult DEF Results!Next, Results!Calls, Calls
<1>2. ASSUME NEW c \in Calls, Loop(c) \/ CheckIterating(c), EndGenerator(c)
      PROVE  Results!Next
  BY <1>2, EndIsFinish DEF Results!Next, Results!Calls, Calls, CallbackBackend
<1>3. ASSUME NEW c \in Calls, CheckAborting(c), Goto(c, "raised"),
             \E t \in Task : status[t] = "Error" /\ parallel_call_id[t] = call_id
      PROVE  Results!Next
  BY <1>3, RaisesForItsOwn DEF Results!Next, Results!Calls, Calls
<1>4. ASSUME NEW c \in Calls, NEW label, Goto(c, label), label \notin Ended,
             pc[c] \notin Ended, UNCHANGED <<size, dropped, delivered>>
      PROVE  UNCHANGED Results!vars
  <2>1. pc'[c] = label /\ \A d \in Calls : d # c => pc'[d] = pc[d]
    BY <1>4 DEF Goto, TypeOK, UserTypeOK
  <2> QED
    BY <1>4, <2>1, QuietIsStutter
<1>5. ASSUME NEW c \in Calls, Loop(c) \/ CheckIterating(c), ~EndGenerator(c)
      PROVE  UNCHANGED Results!vars
  <2>1. \E label \in {"retrieve", "check_iterating", "dispatch"} : Goto(c, label)
    BY <1>5 DEF Loop, CheckIterating
  <2>2. pc[c] \notin Ended /\ UNCHANGED <<size, dropped, delivered>>
    BY <1>5 DEF Loop, CheckIterating, Ended
  <2> QED
    BY <1>4, <2>1, <2>2 DEF Ended
<1>6. ASSUME NEW c \in Calls, CheckAborting(c), Goto(c, "loop") PROVE UNCHANGED Results!vars
  <2>1. pc[c] \notin Ended /\ "loop" \notin Ended /\ UNCHANGED <<size, dropped, delivered>>
    BY <1>6 DEF CheckAborting, Ended
  <2> QED
    BY <1>4, <1>6, <2>1
<1>7. ASSUME NEW c \in Calls,
             Call(c) \/ Resume(c) \/ InsideCall(c) \/ ConsumerDispatch(c)
             \/ ConsumerClearIterating(c)
      PROVE  UNCHANGED Results!vars
  <2>1. /\ pc[c] \notin Ended /\ UNCHANGED <<size, dropped, delivered>>
        /\ \E label \in InCall \union InGenerator : Goto(c, label)
    BY <1>7 DEF Call, Resume, InsideCall, ResetCounters, ResetIterating, NewCallId,
       Setup, ConsumerDispatch, ConsumerClearIterating, Ended, InCall, InGenerator
  <2>2. (InCall \union InGenerator) \cap Ended = {}
    BY DEF InCall, InGenerator, Ended
  <2> QED
    BY <1>4, <2>1, <2>2
<1>8. ASSUME UNCHANGED <<pc, size, dropped, delivered>> PROVE UNCHANGED Results!vars
  BY <1>8, QuietIsStutter
<1>9. ASSUME NEW t \in Task, WorkerDone(t) \/ Callback(t)
      PROVE  UNCHANGED <<pc, size, dropped, delivered>>
  BY <1>9 DEF WorkerDone, Callback, CallbackEnter, RetrieveResult, DispatchNew,
     CallbackDispatch, CallbackClearIterating, userVars
<1>10. ASSUME Enter \/ Exit \/ UNCHANGED vars
       PROVE  UNCHANGED <<pc, size, dropped, delivered>>
  BY <1>10 DEF Enter, Exit, vars, userVars
<1>11. ASSUME NEW c \in Calls, CheckAborting(c)
       PROVE  \/ Goto(c, "loop")
              \/ /\ Goto(c, "raised")
                 /\ \E t \in Task : status[t] = "Error" /\ parallel_call_id[t] = call_id
  BY <1>11 DEF CheckAborting
<1> QED
  BY <1>1, <1>2, <1>3, <1>5, <1>6, <1>7, <1>8, <1>9, <1>10, <1>11
  DEF Next, User, UserNext, Generator, ResumeList

(***************************************************************************)
(* Whatever calls are made one after the other, fail, end early or are     *)
(* aborted: as long as no callback draws a task from the iterable of an    *)
(* old call under the identifier of a new one (_dispatch_new tests neither *)
(* of them), every call produces a prefix of its own values, in order, and *)
(* raises only for a task of its own that failed.                          *)
(***************************************************************************)
THEOREM OwnValuesInOrder ==
    CallbackBackend => (Spec /\ [][OwnDispatch]_vars => ImplementsOrderedResults)
<1> SUFFICES ASSUME CallbackBackend
             PROVE  Spec /\ [][OwnDispatch]_vars => ImplementsOrderedResults
  OBVIOUS
<1> DEFINE Known == TypeOK /\ OneAfterTheOther /\ FirstInv /\ CallbackInv /\ OneCallback
<1>1. Init => Known /\ OwnInv
  <2>1. Init => OneAfterTheOther
    BY DEF Init, OneAfterTheOther
  <2> QED
    BY <2>1, TypeInit, OnceInit, CallbackInvInit, OwnInit
<1>2. Known /\ [Next]_vars => Known'
  BY TypeNext, OneAfterTheOtherNext, FirstInvNext, CallbackInvNext, OneCallbackNext
  DEF CallbackBackend
<1>3. Known /\ OwnInv /\ [Next]_vars /\ [OwnDispatch]_vars => OwnInv'
  <2>1. UNCHANGED vars => OwnDispatch
    BY DEF vars, userVars, OwnDispatch
  <2> QED
    BY <2>1, OwnNext
<1>4. Known /\ OwnInv /\ [Next]_vars => [Results!Next]_(Results!vars)
  BY OwnResultsNext
<1> HIDE DEF Known
<1> QED
  BY <1>1, <1>2, <1>3, <1>4, ResultsInit, PTL
  DEF Spec, ImplementsOrderedResults, Results!Spec

(***************************************************************************)
(* The first call of an object has nobody before it: its values are its    *)
(* own and in order, whatever fails and in whichever order its tasks end.  *)
(***************************************************************************)
ObjectOfOneCall == original_iterator \in {NoCall, call_id}

LEMMA FirstCallDispatchesItsOwn ==
    ASSUME TypeOK, SingleCounts, IdentifierInv, ObjectOfOneCall, [Next]_vars
    PROVE  OwnDispatch /\ ObjectOfOneCall'
<1> USE DEF ObjectOfOneCall
<1>1. ASSUME NEW c \in Calls, NewCallId(c) PROVE OwnDispatch /\ ObjectOfOneCall'
  BY <1>1 DEF NewCallId, SingleCounts, InCall, OwnDispatch
<1>2. ASSUME NEW c \in Calls, Setup(c) PROVE OwnDispatch /\ ObjectOfOneCall'
  BY <1>2 DEF Setup, IdentifierInv, Begun, OwnDispatch
<1>3. ASSUME UNCHANGED <<call_id, original_iterator>>, taken' = taken \/ HasNextTask
      PROVE  OwnDispatch /\ ObjectOfOneCall'
  BY <1>3 DEF OwnDispatch, HasNextTask
<1>4. ASSUME NEW c \in Calls, Call(c) \/ Resume(c) \/ ResetCounters(c) \/ ResetIterating(c)
             \/ Loop(c) \/ CheckIterating(c) \/ ConsumerDispatch(c) \/ CheckAborting(c)
             \/ ConsumerClearIterating(c) \/ Retrieve(c)
      PROVE  UNCHANGED <<call_id, original_iterator>> /\ (taken' = taken \/ HasNextTask)
  BY <1>4 DEF Call, Resume, ResetCounters, ResetIterating, Loop, CheckIterating,
     ConsumerDispatch, CheckAborting, ConsumerClearIterating, Retrieve, objectVars
<1>5. ASSUME NEW t \in Task, WorkerDone(t) \/ Callback(t)
      PROVE  UNCHANGED <<call_id, original_iterator>> /\ (taken' = taken \/ HasNextTask)
  BY <1>5 DEF WorkerDone, Callback, CallbackEnter, RetrieveResult, DispatchNew,
     CallbackDispatch, CallbackClearIterating, objectVars, userVars
<1>6. ASSUME Enter \/ Exit \/ UNCHANGED vars
      PROVE  UNCHANGED <<call_id, original_iterator, taken>>
  BY <1>6 DEF Enter, Exit, vars, objectVars, userVars
<1> QED
  BY <1>1, <1>2, <1>3, <1>4, <1>5, <1>6
  DEF Next, User, UserNext, InsideCall, Generator, ResumeList

(***************************************************************************)
(* A call over a backend with retrieve callbacks, made on a new object,    *)
(* implements the weak promise of OrderedResults: its generator yields its *)
(* values in the order of the iterable, each once, although the callbacks  *)
(* register them in any order (_get_outputs over _jobs).                   *)
(***************************************************************************)
THEOREM FirstCallInOrder ==
    CallbackBackend /\ MaxCalls = 1 => (Spec => ImplementsOrderedResults)
<1> SUFFICES ASSUME CallbackBackend, MaxCalls = 1 PROVE Spec => ImplementsOrderedResults
  OBVIOUS
<1> DEFINE Known == TypeOK /\ CallbackInv /\ OneCallback /\ FirstInv /\ OnceInv
           Inv == OneAfterTheOther /\ SingleCounts /\ IdentifierInv /\ ObjectOfOneCall
<1>1. Init => Inv
  <2>1. Init => OneAfterTheOther /\ ObjectOfOneCall
    BY DEF Init, OneAfterTheOther, ObjectOfOneCall
  <2> QED
    BY <2>1, SingleInit, OwnInit DEF OwnInv
<1>2. Known /\ Inv /\ [Next]_vars => Inv' /\ OwnDispatch
  BY OneAfterTheOtherNext, SingleCountsNext, IdentifierNext, FirstCallDispatchesItsOwn
  DEF CallbackBackend
<1>3. Spec => [](TypeOK /\ CallbackInv /\ OneCallback /\ FirstInv /\ OnceInv)
  BY TypeCorrect, OnceInvariant, PTL
<1>4. Spec => [][OwnDispatch]_vars
  BY <1>1, <1>2, <1>3, PTL DEF Spec
<1> QED
  BY <1>4, OwnValuesInOrder, PTL

-----------------------------------------------------------------------------
(***************************************************************************)
(* The two races that cost a call its results, and that there is no third. *)
(* One: a callback left from an earlier call still runs when the next one  *)
(* starts (QuietStart excludes it).  Two: _iterating changes between the   *)
(* two tests of the loop of _get_outputs (TestHolds excludes it).  Without *)
(* them calls over callbacks keep the full promise of OrderedResults.      *)
(***************************************************************************)
CallbackObject == /\ CallbackBackend /\ ~UseContext
                  /\ ~PreDispatchAll /\ DispatchImplemented

\* No task of the object runs, and every callback has returned.
Settled == \A t \in Task : worker[t] # "running" /\ cb[t] \in {"none", "returned"}

QuietStart == \A c \in Calls : pc[c] = "idle" /\ pc'[c] # "idle" => Settled

TestHolds == \A c \in Calls : pc[c] = "check_iterating" => iterating' = iterating

StartInv(c) ==
    /\ Settled
    /\ pc[c] # "reset" => n_completed_tasks = 0 /\ n_dispatched_tasks = 0
    /\ pc[c] \in {"new_id", "setup"} => iterating = TRUE

Clearing == ~iterating \/ \E t \in Task : cb[t] = "clear_iterating"

CountingInv(c) ==
    /\ original_iterator = c
    /\ CountsOf(c)
    /\ Clearing \/ pc[c] = "clear_iterating" => taken[c] = size[c]

StageInv(c) ==
    /\ pc[c] \in {"idle"} \union InCall => Untouched(c)
    /\ pc[c] \in InCall => StartInv(c)
    /\ pc[c] \in InGenerator \union {"yielded"} => CountingInv(c)
    /\ Finished(c) => taken[c] = size[c]

\* Between two calls the object still holds the iterable of the one before.
IterableInv ==
    /\ (\A c \in Calls : pc[c] \in Inactive) => original_iterator = call_id
    /\ original_iterator # NoCall => pc[original_iterator] \notin {"idle"} \union InCall

QuietInv ==
    /\ aborting = FALSE /\ managed_backend = FALSE
    /\ IterableInv
    /\ \A c \in Calls : StageInv(c)

LEMMA QuietInit == Init => QuietInv
<1> SUFFICES ASSUME Init PROVE QuietInv
  OBVIOUS
<1>1. \A c \in Calls : pc[c] = "idle" /\ taken[c] = 0 /\ dropped[c] = <<>> /\ delivered[c] = <<>>
  BY DEF Init
<1>2. \A c \in Calls : StageInv(c)
  BY <1>1 DEF StageInv, Untouched, InCall, InGenerator, Finished
<1> QED
  BY <1>2 DEF QuietInv, IterableInv, Init

\* The call that is under way is the one whose iterable the object holds.
LEMMA QuietIsOwn ==
    ASSUME CallbackObject, TypeOK, IdentifierInv, QuietInv, [Next]_vars
    PROVE  OwnDispatch
<1>1. ASSUME NEW c \in Calls, ConsumerDispatch(c) PROVE OwnDispatch
  BY <1>1 DEF ConsumerDispatch, QuietInv, StageInv, CountingInv, IdentifierInv, Begun,
     InGenerator, OwnDispatch
<1>2. ASSUME NEW t \in Task, CallbackDispatch(t) PROVE OwnDispatch
  <2>1. ~Settled
    BY <1>2 DEF CallbackDispatch, Settled
  <2>2. \A c \in Calls : pc[c] \notin InCall
    BY <2>1 DEF QuietInv, StageInv, StartInv
  <2>3. ASSUME NEW c \in Calls, pc[c] \notin Inactive PROVE original_iterator = call_id
    <3>1. pc[c] \in InGenerator \union {"yielded"}
      BY <2>2, <2>3 DEF TypeOK, UserTypeOK, Inactive
    <3> QED
      BY <3>1 DEF QuietInv, StageInv, CountingInv, IdentifierInv, Begun
  <2> QED
    BY <2>3 DEF QuietInv, IterableInv, OwnDispatch
<1>3. ASSUME NEW c \in Calls, Call(c) \/ Resume(c) \/ ResetCounters(c) \/ ResetIterating(c)
             \/ NewCallId(c) \/ Setup(c) \/ Loop(c) \/ CheckIterating(c) \/ CheckAborting(c)
             \/ ConsumerClearIterating(c) \/ Retrieve(c)
      PROVE  UNCHANGED taken
  BY <1>3 DEF Call, Resume, ResetCounters, ResetIterating, NewCallId, Setup, Loop,
     CheckIterating, CheckAborting, ConsumerClearIterating, Retrieve
<1>4. ASSUME NEW t \in Task, WorkerDone(t) \/ CallbackEnter(t) \/ RetrieveResult(t)
             \/ DispatchNew(t) \/ CallbackClearIterating(t)
      PROVE  UNCHANGED taken
  BY <1>4 DEF WorkerDone, CallbackEnter, RetrieveResult, DispatchNew,
     CallbackClearIterating, userVars
<1>5. ASSUME Enter \/ Exit \/ UNCHANGED vars PROVE UNCHANGED taken
  BY <1>5 DEF Enter, Exit, vars, userVars
<1>6. UNCHANGED taken => OwnDispatch
  BY DEF OwnDispatch
<1> QED
  BY <1>1, <1>2, <1>3, <1>4, <1>5, <1>6
  DEF Next, User, UserNext, InsideCall, Generator, ResumeList, Callback

\* A step of the call that is under way only has to keep its own stage.
LEMMA StageOfOneCall ==
    ASSUME TypeOK, OneAfterTheOther, QuietInv, NEW c \in Calls, pc[c] \notin Inactive,
           aborting' = FALSE, managed_backend' = FALSE, IterableInv', StageInv(c)',
           size' = size,
           \A d \in Calls : d # c => /\ pc'[d] = pc[d] /\ taken'[d] = taken[d]
                                     /\ dropped'[d] = dropped[d]
                                     /\ delivered'[d] = delivered[d]
    PROVE  QuietInv'
<1>1. \A d \in Calls : d # c => pc[d] \in Inactive
  BY OthersInactive
<1>2. ASSUME NEW d \in Calls, d # c PROVE StageInv(d)'
  <2>1. pc'[d] \in Inactive /\ pc'[d] \notin InCall \union InGenerator \union {"yielded"}
    BY <1>1, <1>2 DEF Inactive, Ended, InCall, InGenerator
  <2>2. StageInv(d)
    BY DEF QuietInv
  <2>3. taken'[d] = taken[d] /\ (Finished(d)' <=> Finished(d))
        /\ (Untouched(d)' <=> Untouched(d)) /\ size'[d] = size[d]
    BY <1>2 DEF Finished, Untouched
  <2>4. pc'[d] = pc[d]
    BY <1>2
  <2> QED
    BY <2>1, <2>2, <2>3, <2>4 DEF StageInv
<1> QED
  BY <1>1, <1>2 DEF QuietInv

LEMMA QuietCall ==
    ASSUME CallbackObject, TypeOK, OneAfterTheOther, QuietInv, QuietStart,
           NEW c \in Calls, Call(c)
    PROVE  QuietInv'
<1>1. \A d \in Calls : pc[d] \in Inactive
  BY DEF Call, CallbackObject, CallbackBackend, OneAfterTheOther, Inactive, Calls, Ended
<1>2. /\ UNCHANGED <<objectVars, batchVars, size, taken, dropped, delivered>>
      /\ pc[c] = "idle" /\ pc'[c] = "reset" /\ \A d \in Calls : d # c => pc'[d] = pc[d]
  BY DEF Call, Goto, TypeOK, UserTypeOK
<1>3. Settled'
  BY <1>2 DEF QuietStart, Settled, batchVars
<1>4. ASSUME NEW d \in Calls PROVE StageInv(d)'
  <2>1. StageInv(d)
    BY DEF QuietInv
  <2>2. CASE d = c
    BY <1>2, <1>3, <2>1, <2>2 DEF StageInv, StartInv, Untouched, InGenerator, Finished
  <2>3. CASE d # c
    <3>1. pc'[d] \notin InCall \union InGenerator \union {"yielded"}
      BY <1>1, <1>2, <2>3 DEF Inactive, Ended, InCall, InGenerator
    <3>2. taken'[d] = taken[d] /\ size'[d] = size[d] /\ pc'[d] = pc[d]
          /\ (Finished(d)' <=> Finished(d)) /\ (Untouched(d)' <=> Untouched(d))
      BY <1>2, <2>3 DEF Finished, Untouched
    <3> QED
      BY <2>1, <3>1, <3>2 DEF StageInv
  <2> QED
    BY <2>2, <2>3
<1>5. IterableInv'
  <2>1. pc'[c] \notin Inactive
    BY <1>2 DEF Inactive, Ended
  <2>2. original_iterator # NoCall => /\ pc[original_iterator] \notin {"idle"} \union InCall
                                      /\ original_iterator \in Calls
    BY ParametersAssumption
    DEF QuietInv, IterableInv, TypeOK, ObjectTypeOK, Calls, NoCall, ParametersAssumption
  <2> QED
    BY <1>2, <2>1, <2>2 DEF IterableInv, objectVars
<1> QED
  BY <1>2, <1>4, <1>5 DEF QuietInv, objectVars

LEMMA QuietSetup ==
    ASSUME CallbackObject, TypeOK, OneAfterTheOther, IdentifierInv, QuietInv,
           NEW c \in Calls, InsideCall(c)
    PROVE  QuietInv'
<1>1. /\ pc[c] \in InCall /\ pc'[c] \in {"reset_iterating", "new_id", "setup", "loop"}
      /\ pc'[c] = "loop" <=> Setup(c)
      /\ \A d \in Calls : d # c => pc'[d] = pc[d]
  BY DEF InsideCall, ResetCounters, ResetIterating, NewCallId, Setup, InCall, Goto,
         TypeOK, UserTypeOK
<1>2. UNCHANGED <<size, taken, dropped, delivered, batchVars, managed_backend>>
      /\ aborting' = FALSE
  BY DEF InsideCall, ResetCounters, ResetIterating, NewCallId, Setup, QuietInv
<1>3. StageInv(c) /\ StartInv(c) /\ Untouched(c)
  BY <1>1 DEF QuietInv, StageInv
<1>4. Settled' /\ Untouched(c)'
  BY <1>2, <1>3 DEF StartInv, Settled, Untouched, batchVars
<1>5. pc'[c] # "loop" => StartInv(c)'
  <2>1. CASE ResetCounters(c)
    BY <1>4, <2>1 DEF ResetCounters, StartInv, Goto, TypeOK, UserTypeOK
  <2>2. CASE ResetIterating(c)
    BY <1>3, <1>4, <2>2 DEF ResetIterating, StartInv
  <2>3. CASE NewCallId(c)
    BY <1>3, <1>4, <2>3 DEF NewCallId, StartInv
  <2> QED
    BY <1>1, <2>1, <2>2, <2>3 DEF InsideCall
<1>6. pc'[c] = "loop" => CountingInv(c)'
  <2> SUFFICES ASSUME Setup(c) PROVE CountingInv(c)'
    BY <1>1
  <2>1. /\ original_iterator' = c /\ iterating' = TRUE /\ pc'[c] = "loop"
        /\ n_completed_tasks' = 0 /\ n_dispatched_tasks' = 0
    BY <1>1, <1>3 DEF Setup, StartInv, CallbackObject
  <2>2. Values(c)' = <<>> /\ taken'[c] = 0
    BY <1>4 DEF Values, Untouched
  <2>3. ~Clearing'
    BY <1>4, <2>1 DEF Clearing, Settled
  <2> HIDE DEF Values, Clearing
  <2>4. Len(Values(c)') = 0
    BY <2>2
  <2> QED
    BY <2>1, <2>2, <2>3, <2>4 DEF CountingInv, CountsOf
<1>7. StageInv(c)'
  BY <1>1, <1>4, <1>5, <1>6 DEF StageInv, InCall, InGenerator, Finished
<1>8. pc[c] \notin Inactive /\ pc'[c] \notin Inactive
  BY <1>1 DEF InCall, Inactive, Ended
<1>9. IterableInv'
  <2>1. CASE Setup(c)
    BY <1>1, <1>8, <2>1 DEF Setup, CallbackObject, IterableInv, InCall
  <2>2. CASE ~Setup(c)
    <3>1. original_iterator' = original_iterator
      BY <2>2 DEF InsideCall, ResetCounters, ResetIterating, NewCallId
    <3>2. original_iterator # NoCall => /\ original_iterator \in Calls \ {c}
                                        /\ pc[original_iterator] \notin {"idle"} \union InCall
      BY <1>1, ParametersAssumption
      DEF QuietInv, IterableInv, TypeOK, ObjectTypeOK, Calls, NoCall, ParametersAssumption
    <3> QED
      BY <1>1, <1>8, <3>1, <3>2 DEF IterableInv
  <2> QED
    BY <2>1, <2>2
<1> QED
  BY <1>1, <1>2, <1>7, <1>8, <1>9, StageOfOneCall DEF QuietInv

\* A step of the generator of c that leaves its stage in order.
LEMMA GeneratorStage ==
    ASSUME TypeOK, OneAfterTheOther, QuietInv, NEW c \in Calls,
           pc[c] \in InGenerator \union {"yielded"}, UNCHANGED <<size, original_iterator>>,
           aborting' = FALSE, managed_backend' = FALSE,
           pc'[c] \in InGenerator \union {"yielded"} \union Ended,
           pc'[c] \in InGenerator \union {"yielded"} => CountingInv(c)',
           pc'[c] \in Ended => original_iterator = call_id' /\
               (pc'[c] # "raised" => taken'[c] = size[c]),
           \A d \in Calls : d # c => /\ pc'[d] = pc[d] /\ taken'[d] = taken[d]
                                     /\ dropped'[d] = dropped[d]
                                     /\ delivered'[d] = delivered[d]
    PROVE  QuietInv'
<1>1. original_iterator = c /\ pc[c] \notin Inactive
  BY DEF QuietInv, StageInv, CountingInv, InGenerator, Inactive, Ended
<1>2. pc'[c] \notin {"idle"} \union InCall
  BY DEF InGenerator, Ended, InCall
<1>3. IterableInv'
  <2>1. pc'[c] \in Inactive => pc'[c] \in Ended
    BY <1>2 DEF Inactive
  <2> QED
    BY <1>1, <1>2, <2>1 DEF IterableInv
<1>4. StageInv(c)'
  <2>1. Finished(c)' => taken'[c] = size'[c]
    BY DEF Finished, Ended
  <2> QED
    BY <1>2, <2>1 DEF StageInv
<1> QED
  BY <1>1, <1>3, <1>4, StageOfOneCall

LEMMA QuietControl ==
    ASSUME CallbackObject, TypeOK, OneAfterTheOther, IdentifierInv, PrefixInv, QuietInv,
           NEW c \in Calls,
           \/ Loop(c) \/ CheckIterating(c) \/ ConsumerClearIterating(c)
           \/ CheckAborting(c) \/ (ConsumerDispatch(c) /\ ~HasNextTask)
    PROVE  QuietInv'
<1>1. pc[c] \in InGenerator /\ pc[c] # "yielded"
  BY DEF Loop, CheckIterating, ConsumerClearIterating, CheckAborting, ConsumerDispatch,
         InGenerator
<1>2. CountingInv(c) /\ call_id = c
  BY <1>1 DEF QuietInv, StageInv, IdentifierInv, Begun
<1>3. /\ UNCHANGED <<size, taken, dropped, delivered, call_id, original_iterator, cb,
                     n_completed_tasks, n_dispatched_tasks, aborting, managed_backend>>
      /\ \A d \in Calls : d # c => pc'[d] = pc[d]
  BY DEF Loop, CheckIterating, ConsumerClearIterating, CheckAborting, ConsumerDispatch,
         EndGenerator, Goto, objectVars, batchVars, TypeOK, UserTypeOK
<1>4. Values(c)' = Values(c)
  BY <1>3 DEF Values
<1>5. /\ Len(Values(c)) \in Nat /\ taken[c] \in Nat /\ size[c] \in Nat
      /\ Len(Values(c)) <= taken[c] /\ taken[c] <= size[c]
  BY ValuesType, ParametersAssumption DEF PrefixInv, TypeOK, UserTypeOK, ParametersAssumption
<1> HIDE DEF Values
<1>6. n_dispatched_tasks = taken[c] /\ n_completed_tasks = Len(Values(c))
  BY <1>1, <1>2, <1>5 DEF CountingInv, CountsOf
<1>7. ASSUME NEW label \in InGenerator, Goto(c, label),
             Clearing' \/ label = "clear_iterating" => taken[c] = size[c]
      PROVE  QuietInv'
  <2>1. pc'[c] = label /\ label \notin {"yielded"} \union Ended
    BY <1>7 DEF Goto, TypeOK, UserTypeOK, InGenerator, Ended
  <2>2. CountingInv(c)'
    BY <1>2, <1>3, <1>4, <1>5, <1>6, <1>7, <2>1 DEF CountingInv, CountsOf
  <2> QED
    BY <1>1, <1>3, <1>7, <2>1, <2>2, GeneratorStage DEF QuietInv
<1>8. ASSUME iterating' = iterating PROVE Clearing' => taken[c] = size[c]
  BY <1>2, <1>3, <1>8 DEF Clearing, CountingInv
<1>9. ASSUME EndGenerator(c), ~iterating PROVE QuietInv'
  <2>1. pc'[c] \in Ended
    BY <1>9 DEF EndGenerator, Goto, TypeOK, UserTypeOK, Ended
  <2>2. taken[c] = size[c]
    BY <1>2, <1>9 DEF CountingInv, Clearing
  <2>3. pc'[c] \notin InGenerator \union {"yielded"}
    BY <2>1 DEF Ended, InGenerator
  <2> QED
    BY <1>1, <1>2, <1>3, <2>1, <2>2, <2>3, GeneratorStage
    DEF CountingInv, QuietInv
<1>10. CASE Loop(c)
  <2>1. UNCHANGED iterating
    BY <1>10 DEF Loop, objectVars
  <2>2. CASE n_completed_tasks < n_dispatched_tasks
    BY <1>7, <1>8, <1>10, <2>1, <2>2 DEF Loop, InGenerator
  <2>3. CASE ~(n_completed_tasks < n_dispatched_tasks) /\ iterating
    BY <1>7, <1>8, <1>10, <2>1, <2>3 DEF Loop, InGenerator
  <2>4. CASE ~(n_completed_tasks < n_dispatched_tasks) /\ ~iterating
    BY <1>9, <1>10, <2>4 DEF Loop
  <2> QED
    BY <2>2, <2>3, <2>4
<1>11. CASE CheckIterating(c)
  <2>1. UNCHANGED iterating
    BY <1>11 DEF CheckIterating, objectVars
  <2>2. CASE iterating
    <3>1. Goto(c, "dispatch")
      BY <1>11, <2>2 DEF CheckIterating
    <3> QED
      BY <1>7, <1>8, <2>1, <3>1 DEF InGenerator
  <2>3. CASE ~iterating
    BY <1>9, <1>11, <2>3 DEF CheckIterating
  <2> QED
    BY <2>2, <2>3
<1>12. CASE ConsumerClearIterating(c)
  <2>1. taken[c] = size[c] /\ Goto(c, "check_aborting")
    BY <1>2, <1>12 DEF ConsumerClearIterating, CountingInv
  <2> QED
    BY <1>7, <2>1 DEF InGenerator
<1>13. CASE CheckAborting(c)
  <2>1. Goto(c, "loop") /\ UNCHANGED iterating
    BY <1>13 DEF CheckAborting, QuietInv, objectVars
  <2> QED
    BY <1>7, <1>8, <2>1 DEF InGenerator
<1>14. CASE ConsumerDispatch(c) /\ ~HasNextTask
  <2>1. Goto(c, "clear_iterating") /\ UNCHANGED iterating
    BY <1>14 DEF ConsumerDispatch
  <2>2. taken[c] = size[c]
    <3>1. original_iterator = c /\ c # NoCall
      BY <1>2, ParametersAssumption DEF CountingInv, NoCall, Calls, ParametersAssumption
    <3>2. ~(taken[c] < size[c])
      BY <1>14, <3>1 DEF HasNextTask, CallbackObject, QuietInv
    <3> QED
      BY <1>5, <3>2
  <2> QED
    BY <1>7, <2>1, <2>2 DEF InGenerator
<1> QED
  BY <1>10, <1>11, <1>12, <1>13, <1>14

LEMMA QuietValues ==
    ASSUME CallbackObject, TypeOK, OneAfterTheOther, FirstInv, OwnInv, QuietInv,
           NEW c \in Calls, Retrieve(c) \/ Resume(c)
    PROVE  QuietInv'
<1>1. pc[c] \in InGenerator \union {"yielded"} /\ call_id = c
  BY DEF Retrieve, Resume, OwnInv, IdentifierInv, Begun, InGenerator
<1>2. CountingInv(c)
  BY <1>1 DEF QuietInv, StageInv
<1>3. /\ UNCHANGED <<size, taken, call_id, original_iterator, cb, iterating,
                     n_dispatched_tasks, aborting, managed_backend>>
      /\ aborting = FALSE /\ managed_backend = FALSE
  BY DEF Retrieve, Resume, objectVars, batchVars, QuietInv
<1>4. Len(Values(c)) \in Nat
  BY ValuesType
<1>5. Clearing' => taken'[c] = size'[c]
  BY <1>2, <1>3 DEF Clearing, CountingInv
<1>6. CASE Resume(c)
  <2>1. /\ pc[c] = "yielded" /\ pc'[c] = "check_aborting"
        /\ n_completed_tasks' = n_completed_tasks + 1 /\ UNCHANGED <<dropped, delivered>>
        /\ \A d \in Calls : d # c => pc'[d] = pc[d]
    BY <1>6 DEF Resume, Goto, TypeOK, UserTypeOK
  <2>2. Values(c)' = Values(c)
    BY <2>1 DEF Values
  <2> HIDE DEF Values
  <2>3. CountsOf(c)'
    BY <1>2, <1>3, <1>4, <2>1, <2>2 DEF CountingInv, CountsOf
  <2>4. CountingInv(c)'
    BY <1>2, <1>3, <1>5, <2>1, <2>3 DEF CountingInv
  <2>5. pc'[c] \in InGenerator /\ pc'[c] \notin Ended
    BY <2>1 DEF InGenerator, Ended
  <2> QED
    BY <1>1, <1>3, <2>1, <2>4, <2>5, GeneratorStage
<1>7. ASSUME Retrieve(c), Goto(c, "raised"), UNCHANGED <<first, dropped, delivered>>
      PROVE  QuietInv'
  <2>1. pc'[c] = "raised" /\ \A d \in Calls : d # c => pc'[d] = pc[d]
    BY <1>7 DEF Goto, TypeOK, UserTypeOK
  <2>2. pc'[c] \in Ended /\ pc'[c] \notin InGenerator \union {"yielded"}
    BY <2>1 DEF InGenerator, Ended
  <2> QED
    BY <1>1, <1>2, <1>3, <1>7, <2>1, <2>2, GeneratorStage DEF CountingInv
<1>8. ASSUME Retrieve(c), NEW t \in Task, Yield(c, t) PROVE QuietInv'
  <2>1. /\ Values(c)' = Append(Values(c), t) /\ pc'[c] = "yielded"
        /\ \A d \in Calls : d # c => /\ dropped'[d] = dropped[d] /\ pc'[d] = pc[d]
                                     /\ delivered'[d] = delivered[d]
    BY <1>8, YieldAppends DEF FirstInv
  <2>2. Len(Values(c)') = Len(Values(c)) + 1 /\ pc[c] = "retrieve"
        /\ n_completed_tasks' = n_completed_tasks
    BY <1>8, <2>1, ValuesType DEF Retrieve, objectVars
  <2> HIDE DEF Values
  <2>3. CountsOf(c)'
    BY <1>2, <1>3, <1>4, <2>1, <2>2 DEF CountingInv, CountsOf
  <2>4. CountingInv(c)'
    BY <1>2, <1>3, <1>5, <2>1, <2>3 DEF CountingInv
  <2>5. pc'[c] \notin Ended
    BY <2>1 DEF Ended
  <2> QED
    BY <1>1, <1>3, <2>1, <2>4, <2>5, GeneratorStage
<1>9. ASSUME Retrieve(c) PROVE QuietInv'
  BY <1>7, <1>8, <1>9, OwnRetrieveFinds DEF CallbackObject
<1> QED
  BY <1>6, <1>9

\* The iterable the object holds is not exhausted when a task is drawn from it.
LEMMA QuietDispatch ==
    ASSUME CallbackObject, TypeOK, OneAfterTheOther, QuietInv, HasNextTask,
           DispatchOneBatch, iterating' = iterating,
           UNCHANGED <<size, dropped, delivered, call_id, original_iterator, aborting,
                       managed_backend, n_completed_tasks>>,
           \A t \in Task : cb'[t] = "clear_iterating" => cb[t] = "clear_iterating",
           \A c \in Calls : pc[c] \notin InCall,
           \A c \in Calls : \/ pc'[c] = pc[c]
                            \/ pc[c] = "dispatch" /\ pc'[c] = "check_aborting"
    PROVE  QuietInv'
<1> DEFINE o == original_iterator
<1>1. o \in Calls /\ taken[o] < size[o]
  BY NextTaskType DEF HasNextTask
<1>2. pc[o] \notin {"idle"} \union InCall
  BY <1>1 DEF QuietInv, IterableInv, HasNextTask
<1>3. /\ taken'[o] = taken[o] + 1 /\ \A c \in Calls : c # o => taken'[c] = taken[c]
      /\ n_dispatched_tasks' = n_dispatched_tasks + 1
  BY <1>1 DEF DispatchOneBatch, TypeOK, UserTypeOK
<1>4. taken[o] \in Nat /\ size[o] \in Nat
  BY <1>1, ParametersAssumption DEF TypeOK, UserTypeOK, ParametersAssumption
<1> HIDE DEF o
<1>5. \A c : Values(c)' = Values(c)
  BY DEF Values
<1>6. \A c \in Calls : /\ pc'[c] \in Inactive <=> pc[c] \in Inactive
                       /\ pc'[c] \notin InCall
                       /\ pc'[c] = "idle" => pc[c] = "idle"
                       /\ Finished(c)' => Finished(c)
                       /\ pc'[c] \in InGenerator \union {"yielded"}
                          => pc[c] \in InGenerator \union {"yielded"}
  BY DEF Inactive, Ended, InCall, InGenerator, Finished
<1> HIDE DEF Values
<1>7. ASSUME NEW c \in Calls PROVE StageInv(c)'
  <2>1. StageInv(c)
    BY DEF QuietInv
  <2>2. pc'[c] = "idle" => Untouched(c)'
    BY <1>2, <1>3, <1>6, <2>1 DEF StageInv, Untouched
  <2>3. Finished(c)' => taken'[c] = size'[c]
    BY <1>1, <1>3, <1>4, <1>6, <2>1 DEF StageInv
  <2>4. ASSUME pc'[c] \in InGenerator \union {"yielded"} PROVE CountingInv(c)'
    <3>1. CountingInv(c)
      BY <1>6, <2>1, <2>4 DEF StageInv
    <3>2. c = o
      BY <3>1 DEF CountingInv, o
    <3>3. taken[c] # size[c]
      BY <1>1, <1>4, <3>2
    <3>4. ~Clearing'
      BY <3>1, <3>3 DEF CountingInv, Clearing
    <3>6. pc'[c] # "clear_iterating"
      BY <3>1, <3>3 DEF CountingInv
    <3>7. CountsOf(c)'
      <4>1. pc'[c] = "yielded" <=> pc[c] = "yielded"
        OBVIOUS
      <4> QED
        BY <1>3, <1>5, <3>1, <3>2, <4>1 DEF CountingInv, CountsOf
    <3> HIDE DEF Clearing
    <3> QED
      BY <3>1, <3>4, <3>6, <3>7 DEF CountingInv
  <2> QED
    BY <1>6, <2>2, <2>3, <2>4 DEF StageInv
<1>8. IterableInv'
  BY <1>1, <1>2, <1>6 DEF IterableInv, QuietInv, o
<1> QED
  BY <1>7, <1>8 DEF QuietInv

LEMMA QuietCallback ==
    ASSUME CallbackObject, TypeOK, OneAfterTheOther, PrefixInv, QuietInv,
           NEW t \in Task, WorkerDone(t) \/ Callback(t)
    PROVE  QuietInv'
<1>1. \A c \in Calls : pc[c] \notin InCall
  <2>1. ~Settled
    BY DEF WorkerDone, Callback, CallbackEnter, RetrieveResult, DispatchNew,
       CallbackDispatch, CallbackClearIterating, Settled
  <2> QED
    BY <2>1 DEF QuietInv, StageInv, StartInv
<1>2. UNCHANGED <<pc, size, dropped, delivered, call_id, original_iterator, aborting,
                  managed_backend, n_completed_tasks>>
  BY DEF WorkerDone, Callback, CallbackEnter, RetrieveResult, DispatchNew,
     CallbackDispatch, CallbackClearIterating, objectVars, userVars
<1>3. \A c : Values(c)' = Values(c)
  BY <1>2 DEF Values
<1>4. ASSUME UNCHANGED <<taken, n_dispatched_tasks>>,
             \A c \in Calls : CountingInv(c) /\ pc[c] \in InGenerator \union {"yielded"}
                /\ Clearing' => taken[c] = size[c]
      PROVE  QuietInv'
  <2> HIDE DEF Values
  <2>1. IterableInv'
    BY <1>2 DEF QuietInv, IterableInv
  <2>2. ASSUME NEW c \in Calls PROVE StageInv(c)'
    <3>1. StageInv(c)
      BY DEF QuietInv
    <3>2. pc'[c] \in InGenerator \union {"yielded"} => CountingInv(c)'
      <4> SUFFICES ASSUME pc[c] \in InGenerator \union {"yielded"} PROVE CountingInv(c)'
        BY <1>2
      <4>1. CountingInv(c)
        BY <3>1 DEF StageInv
      <4>2. CountsOf(c)'
        BY <1>2, <1>3, <1>4, <4>1 DEF CountingInv, CountsOf
      <4> QED
        BY <1>2, <1>4, <4>1, <4>2 DEF CountingInv
    <3> QED
      BY <1>1, <1>2, <1>3, <1>4, <3>1, <3>2 DEF StageInv, Untouched, Finished
  <2> QED
    BY <1>2, <2>1, <2>2 DEF QuietInv
<1>5. ASSUME WorkerDone(t) \/ CallbackEnter(t) \/ RetrieveResult(t) \/ DispatchNew(t)
      PROVE  QuietInv'
  <2>1. UNCHANGED <<iterating, taken, n_dispatched_tasks>>
    BY <1>5 DEF WorkerDone, CallbackEnter, RetrieveResult, DispatchNew, objectVars, userVars
  <2>2. \A u \in Task : cb'[u] = "clear_iterating" => cb[u] = "clear_iterating"
    BY <1>5 DEF WorkerDone, CallbackEnter, RetrieveResult, DispatchNew, TypeOK, BatchTypeOK
  <2>3. Clearing' => Clearing
    BY <2>1, <2>2 DEF Clearing
  <2> QED
    BY <1>4, <2>1, <2>3 DEF CountingInv
<1>6. ASSUME CallbackDispatch(t), ~HasNextTask PROVE QuietInv'
  <2>1. UNCHANGED <<iterating, taken, n_dispatched_tasks>>
    BY <1>6 DEF CallbackDispatch
  <2>2. ASSUME NEW c \in Calls, CountingInv(c) PROVE taken[c] = size[c]
    <3>1. original_iterator = c /\ c # NoCall
      BY <2>2, ParametersAssumption DEF CountingInv, NoCall, Calls, ParametersAssumption
    <3>2. ~(taken[c] < size[c])
      BY <1>6, <3>1 DEF HasNextTask, CallbackObject, QuietInv
    <3>3. taken[c] \in Nat /\ size[c] \in Nat
      BY ParametersAssumption DEF TypeOK, UserTypeOK, ParametersAssumption
    <3>4. taken[c] <= size[c]
      BY DEF PrefixInv
    <3> QED
      BY <3>2, <3>3, <3>4
  <2> QED
    BY <1>4, <2>1, <2>2
<1>7. ASSUME CallbackDispatch(t), HasNextTask PROVE QuietInv'
  <2>1. DispatchOneBatch /\ UNCHANGED iterating
    BY <1>7 DEF CallbackDispatch
  <2>2. \A u \in Task : cb'[u] = "clear_iterating" => cb[u] = "clear_iterating"
    BY <1>7 DEF CallbackDispatch, TypeOK, BatchTypeOK
  <2> QED
    BY <1>1, <1>2, <1>7, <2>1, <2>2, QuietDispatch
<1>8. ASSUME CallbackClearIterating(t) PROVE QuietInv'
  <2>1. UNCHANGED <<taken, n_dispatched_tasks>> /\ cb[t] = "clear_iterating"
    BY <1>8 DEF CallbackClearIterating, userVars
  <2>2. Clearing
    BY <2>1 DEF Clearing
  <2> QED
    BY <1>4, <2>1, <2>2 DEF CountingInv
<1> QED
  BY <1>5, <1>6, <1>7, <1>8 DEF Callback

LEMMA QuietNext ==
    ASSUME CallbackObject, TypeOK, OneAfterTheOther, FirstInv, CallbackInv, OwnInv,
           QuietInv, [Next]_vars, QuietStart
    PROVE  QuietInv'
<1>1. ~Enter /\ ~Exit
  BY DEF Enter, Exit, CallbackObject, QuietInv
<1>2. ASSUME NEW c \in Calls, ConsumerDispatch(c), HasNextTask PROVE QuietInv'
  <2>1. /\ DispatchOneBatch /\ UNCHANGED <<cb, iterating>>
        /\ pc[c] = "dispatch" /\ pc'[c] = "check_aborting"
        /\ \A d \in Calls : d # c => pc'[d] = pc[d]
    BY <1>2 DEF ConsumerDispatch, Goto, TypeOK, UserTypeOK
  <2>2. \A d \in Calls : pc[d] \notin InCall
    BY <2>1, OthersInactive DEF Inactive, Ended, InCall
  <2>3. UNCHANGED <<size, dropped, delivered, call_id, original_iterator, aborting,
                    managed_backend, n_completed_tasks>>
    BY <1>2 DEF ConsumerDispatch
  <2> QED
    BY <1>2, <2>1, <2>2, <2>3, QuietDispatch
<1>3. CASE UNCHANGED vars
  <2>1. UNCHANGED <<pc, size, taken, dropped, delivered, call_id, original_iterator,
                    aborting, managed_backend, n_completed_tasks, n_dispatched_tasks,
                    iterating, cb, worker>>
    BY <1>3 DEF vars, objectVars, userVars, batchVars
  <2> QED
    BY <2>1 DEF QuietInv, IterableInv, StageInv, StartInv, CountingInv, CountsOf,
       Clearing, Settled, Untouched, Finished, Values
<1>4. ASSUME NEW c \in Calls, Call(c) \/ UserNext(c) \/ InsideCall(c) \/ Generator(c)
      PROVE  QuietInv'
  BY <1>2, <1>4, QuietCall, QuietSetup, QuietControl, QuietValues
  DEF UserNext, Generator, ResumeList, OwnInv
<1> QED
  BY <1>1, <1>3, <1>4, QuietCallback DEF Next, User, OwnInv

LEMMA QuietInvariant ==
    CallbackObject =>
      (Spec /\ [][QuietStart]_vars
         => [](TypeOK /\ OneAfterTheOther /\ CallbackInv /\ OneCallback /\ OwnInv /\ QuietInv)
            /\ [][OwnDispatch]_vars)
<1> SUFFICES ASSUME CallbackObject
             PROVE  Spec /\ [][QuietStart]_vars
                    => [](TypeOK /\ OneAfterTheOther /\ CallbackInv /\ OneCallback
                          /\ OwnInv /\ QuietInv)
                       /\ [][OwnDispatch]_vars
  OBVIOUS
<1> DEFINE Known == TypeOK /\ OneAfterTheOther /\ FirstInv /\ CallbackInv /\ OneCallback
<1>1. Init => Known /\ OwnInv /\ QuietInv
  <2>1. Init => OneAfterTheOther
    BY DEF Init, OneAfterTheOther
  <2> QED
    BY <2>1, TypeInit, OnceInit, CallbackInvInit, OwnInit, QuietInit
<1>2. Known /\ [Next]_vars => Known'
  BY TypeNext, OneAfterTheOtherNext, FirstInvNext, CallbackInvNext, OneCallbackNext
  DEF CallbackObject, CallbackBackend
<1>3. Known /\ OwnInv /\ QuietInv /\ [Next]_vars => OwnDispatch
  BY QuietIsOwn DEF OwnInv
<1>4. Known /\ OwnInv /\ QuietInv /\ [Next]_vars => OwnInv'
  BY <1>3, OwnNext DEF CallbackObject
<1>5. Known /\ OwnInv /\ QuietInv /\ [Next]_vars /\ [QuietStart]_vars => QuietInv'
  <2>1. UNCHANGED vars => QuietStart
    BY DEF vars, userVars, QuietStart
  <2> QED
    BY <2>1, QuietNext
<1>6. Known => TypeOK /\ OneAfterTheOther /\ CallbackInv /\ OneCallback
  OBVIOUS
<1> HIDE DEF Known
<1> QED
  BY <1>1, <1>2, <1>3, <1>4, <1>5, <1>6, PTL DEF Spec

(***************************************************************************)
(* Only a callback of an earlier call can cut the iterable of a call       *)
(* short: when none is left at its start, a call that ends has drawn every *)
(* task.  The run truncated_call shows that the hypothesis is needed.      *)
(***************************************************************************)
THEOREM OnlyLateCallbacksTruncate ==
    CallbackObject => (Spec /\ [][QuietStart]_vars => []IterableExhausted)
<1>1. QuietInv => IterableExhausted
  BY DEF QuietInv, StageInv, IterableExhausted
<1> QED
  BY <1>1, QuietInvariant, PTL

-----------------------------------------------------------------------------
(***************************************************************************)
(* The second race.  While the tests of the loop agree a call only ends at *)
(* the first of them, and there it has retrieved all that it has drawn.    *)
(***************************************************************************)
HeldInv == \A c \in Calls : /\ pc[c] = "check_iterating" => iterating = TRUE
                            /\ Finished(c) => Len(Values(c)) = size[c]

LEMMA HeldNext ==
    ASSUME CallbackObject, TypeOK, OneAfterTheOther, OwnInv, QuietInv, HeldInv, [Next]_vars,
           TestHolds
    PROVE  HeldInv'
<1>1. ASSUME UNCHANGED <<size, dropped, delivered>>,
             \A c \in Calls : pc'[c] = "check_iterating" => iterating' = TRUE,
             \A c \in Calls : Finished(c)' => Finished(c)
      PROVE  HeldInv'
  <2>1. \A c : Values(c)' = Values(c)
    BY <1>1 DEF Values
  <2> HIDE DEF Values
  <2> QED
    BY <1>1, <2>1 DEF HeldInv
<1>2. ASSUME NEW c \in Calls, pc[c] \notin Inactive, UNCHANGED size,
             \A d \in Calls : d # c => /\ pc'[d] = pc[d] /\ dropped'[d] = dropped[d]
                                       /\ delivered'[d] = delivered[d],
             pc'[c] = "check_iterating" => iterating' = TRUE,
             Finished(c)' => Len(Values(c))' = size[c]
      PROVE  HeldInv'
  <2>1. \A d \in Calls : d # c => pc[d] \in Inactive
    BY <1>2, OthersInactive
  <2>2. ASSUME NEW d \in Calls, d # c
        PROVE  /\ pc'[d] # "check_iterating"
               /\ Finished(d)' => Len(Values(d))' = size'[d]
    <3>1. Values(d)' = Values(d) /\ (Finished(d)' <=> Finished(d)) /\ size'[d] = size[d]
      BY <1>2, <2>2 DEF Values, Finished
    <3> HIDE DEF Values
    <3> QED
      BY <1>2, <2>1, <2>2, <3>1 DEF HeldInv, Inactive, Ended
  <2> HIDE DEF Values
  <2> QED
    BY <1>2, <2>2 DEF HeldInv
<1>3. ASSUME NEW c \in Calls, Loop(c) PROVE HeldInv'
  <2>1. /\ pc[c] = "loop" /\ UNCHANGED <<size, taken, dropped, delivered, iterating>>
        /\ \A d \in Calls : d # c => pc'[d] = pc[d]
        /\ pc'[c] = "check_iterating" => iterating = TRUE
        /\ Finished(c)' => ~(n_completed_tasks < n_dispatched_tasks)
    BY <1>3 DEF Loop, EndGenerator, Goto, objectVars, Finished, TypeOK, UserTypeOK, ObjectTypeOK
  <2>2. ASSUME Finished(c)' PROVE Len(Values(c))' = size[c]
    <3>1. CountsOf(c) /\ taken'[c] = taken[c]
      BY <2>1 DEF QuietInv, StageInv, CountingInv, InGenerator
    <3>2. /\ Len(Values(c)) \in Nat /\ taken[c] \in Nat /\ size[c] \in Nat
          /\ Len(Values(c)) <= taken[c] /\ taken[c] <= size[c]
      BY ValuesType, ParametersAssumption
      DEF OwnInv, PrefixInv, TypeOK, UserTypeOK, ParametersAssumption
    <3>3. Values(c)' = Values(c)
      BY <2>1 DEF Values
    <3> HIDE DEF Values
    <3>4. Len(Values(c)) = taken[c]
      BY <2>1, <2>2, <3>1, <3>2 DEF CountsOf
    <3>5. taken[c] = size[c]
      <4>1. ~iterating
        BY <1>3, <2>1, <2>2 DEF Loop, Goto, Finished, TypeOK, UserTypeOK
      <4> QED
        BY <2>1, <4>1 DEF QuietInv, StageInv, CountingInv, Clearing, InGenerator
    <3> QED
      BY <3>3, <3>4, <3>5
  <2>3. pc[c] \notin Inactive
    BY <2>1 DEF Inactive, Ended
  <2> QED
    BY <1>2, <2>1, <2>2, <2>3
<1>4. ASSUME NEW c \in Calls, CheckIterating(c) PROVE HeldInv'
  <2>1. pc[c] = "check_iterating" /\ iterating = TRUE /\ UNCHANGED <<size, dropped, delivered>>
    BY <1>4 DEF CheckIterating, HeldInv
  <2>2. pc'[c] = "dispatch" /\ \A d \in Calls : d # c => pc'[d] = pc[d]
    BY <1>4, <2>1 DEF CheckIterating, Goto, TypeOK, UserTypeOK
  <2> QED
    BY <1>2, <2>1, <2>2 DEF Inactive, Ended, Finished
<1>5. ASSUME NEW c \in Calls, Retrieve(c) PROVE HeldInv'
  <2>1. /\ pc[c] = "retrieve" /\ pc'[c] \in {"raised", "yielded"} /\ UNCHANGED size
        /\ \A d \in Calls : d # c => /\ pc'[d] = pc[d] /\ dropped'[d] = dropped[d]
                                     /\ delivered'[d] = delivered[d]
    BY <1>5 DEF Retrieve, Yield, Goto, TypeOK, UserTypeOK
  <2> QED
    BY <1>2, <2>1 DEF Inactive, Ended, Finished
<1>6. ASSUME NEW c \in Calls,
             Call(c) \/ Resume(c) \/ ResetCounters(c) \/ ResetIterating(c) \/ NewCallId(c)
             \/ Setup(c) \/ ConsumerDispatch(c) \/ ConsumerClearIterating(c) \/ CheckAborting(c)
      PROVE  HeldInv'
  <2>1. /\ UNCHANGED <<size, dropped, delivered>>
        /\ pc'[c] \in InCall \union InGenerator \union {"raised"} /\ pc'[c] # "check_iterating"
        /\ \A d \in Calls : d # c => pc'[d] = pc[d]
    BY <1>6 DEF Call, Resume, ResetCounters, ResetIterating, NewCallId, Setup, ConsumerDispatch,
       ConsumerClearIterating, CheckAborting, Goto, InCall, InGenerator, TypeOK, UserTypeOK
  <2>2. \A d \in Calls : d # c => pc[d] # "check_iterating"
    <3>1. \A d \in Calls : d # c => pc[d] \in Inactive
      BY <1>6, OthersInactive DEF Call, Resume, ResetCounters, ResetIterating, NewCallId,
         Setup, ConsumerDispatch, ConsumerClearIterating, CheckAborting, CallbackObject,
         CallbackBackend, OneAfterTheOther, Inactive, Ended, Calls
    <3> QED
      BY <3>1 DEF Inactive, Ended
  <2>3. ~Finished(c)'
    BY <2>1 DEF Finished, InCall, InGenerator
  <2> QED
    BY <1>1, <2>1, <2>2, <2>3 DEF Finished
<1>7. ASSUME NEW t \in Task, WorkerDone(t) \/ Callback(t) PROVE HeldInv'
  <2>1. UNCHANGED <<pc, size, dropped, delivered>>
    BY <1>7 DEF WorkerDone, Callback, CallbackEnter, RetrieveResult, DispatchNew,
       CallbackDispatch, CallbackClearIterating, userVars
  <2> QED
    BY <1>1, <2>1 DEF TestHolds, HeldInv, Finished
<1>8. ASSUME Enter \/ Exit \/ UNCHANGED vars PROVE HeldInv'
  <2>1. UNCHANGED <<pc, size, dropped, delivered, iterating>>
    BY <1>8 DEF Enter, Exit, vars, userVars, objectVars
  <2> QED
    BY <1>1, <2>1 DEF HeldInv, Finished
<1> QED
  BY <1>3, <1>4, <1>5, <1>6, <1>7, <1>8
  DEF Next, User, UserNext, InsideCall, Generator, ResumeList

(***************************************************************************)
(* Unless a callback of an earlier call is still running when a call       *)
(* starts, or _iterating changes between the two tests of the loop, a call *)
(* that ends has retrieved every value.  The runs lost_result and          *)
(* truncated_call show that neither can be left out.                       *)
(***************************************************************************)
THEOREM OnlyRacesLoseResults ==
    CallbackObject => (Spec /\ [][QuietStart]_vars /\ [][TestHolds]_vars
                       => []EverythingRetrieved)
<1> SUFFICES ASSUME CallbackObject
             PROVE  Spec /\ [][QuietStart]_vars /\ [][TestHolds]_vars
                    => []EverythingRetrieved
  OBVIOUS
<1> DEFINE Known == TypeOK /\ OneAfterTheOther /\ CallbackInv /\ OneCallback /\ OwnInv
                    /\ QuietInv
<1>1. Init => HeldInv
  BY DEF Init, HeldInv, Finished
<1>2. Known /\ HeldInv /\ [Next]_vars /\ [TestHolds]_vars => HeldInv'
  <2>1. UNCHANGED vars => TestHolds
    BY DEF vars, objectVars, TestHolds
  <2> QED
    BY <2>1, HeldNext
<1>3. Spec /\ [][QuietStart]_vars => []Known
  BY QuietInvariant, PTL
<1>4. HeldInv => EverythingRetrieved
  BY DEF HeldInv, EverythingRetrieved
<1> HIDE DEF Known
<1> QED
  BY <1>1, <1>2, <1>3, <1>4, PTL DEF Spec

\* The full promise: a call that ends has all of its values.
Strict == INSTANCE OrderedResults
    WITH values <- [c \in Calls |-> Values(c)],
         outcome <- [c \in Calls |-> Outcome(c)],
         failed <- Failed,
         MayTruncate <- FALSE

LEMMA StrictStep ==
    ASSUME EverythingRetrieved', [Results!Next]_(Results!vars)
    PROVE  [Strict!Next]_(Strict!vars)
<1>1. ASSUME NEW c \in Calls, Results!Finish(c) PROVE Strict!Finish(c)
  <2> DEFINE vals == [d \in Calls |-> Values(d)]
             outs == [d \in Calls |-> Outcome(d)]
  <2>1. /\ outs' = [outs EXCEPT ![c] = "done"] /\ UNCHANGED <<size, vals, Failed>>
        /\ Results!Current(c)
    BY <1>1 DEF Results!Finish
  <2>2. outs'[c] = Outcome(c)' /\ vals'[c] = Values(c)' /\ vals[c] = Values(c)
    OBVIOUS
  <2>3. outs'[c] = "done"
    BY <2>1
  <2>4. Finished(c)'
    BY <2>2, <2>3 DEF Outcome
  <2>5. Len(Values(c)) = size[c]
    BY <2>1, <2>2, <2>4 DEF EverythingRetrieved
  <2>6. vals[c] = Values(c)
    OBVIOUS
  <2> QED
    BY <2>1, <2>5, <2>6 DEF Strict!Finish, Strict!Current, Results!Current
<1>2. ASSUME NEW c \in Calls, Results!Produce(c) PROVE Strict!Produce(c)
  BY <1>2 DEF Results!Produce, Strict!Produce, Strict!Current, Results!Current
<1>3. ASSUME NEW c \in Calls, Results!Fail(c) PROVE Strict!Fail(c)
  BY <1>3 DEF Results!Fail, Strict!Fail, Strict!Current, Results!Current, Results!Rest,
     Strict!Rest
<1>4. ASSUME NEW c \in Calls, Results!TaskFails(c) PROVE Strict!TaskFails(c)
  BY <1>4 DEF Results!TaskFails, Strict!TaskFails, Results!Rest, Strict!Rest
<1>5. UNCHANGED Results!vars => UNCHANGED Strict!vars
  BY DEF Results!vars, Strict!vars
<1> QED
  BY <1>1, <1>2, <1>3, <1>4, <1>5
  DEF Results!Next, Strict!Next, Results!Calls, Strict!Calls, Calls

(***************************************************************************)
(* In the absence of the two races calls over callbacks implement the full *)
(* promise: their own values, in order, all of them unless a task fails.   *)
(***************************************************************************)
THEOREM RaceFreeCallsKeepThePromise ==
    CallbackObject => (Spec /\ [][QuietStart]_vars /\ [][TestHolds]_vars => Strict!Spec)
<1> SUFFICES ASSUME CallbackObject
             PROVE  Spec /\ [][QuietStart]_vars /\ [][TestHolds]_vars => Strict!Spec
  OBVIOUS
<1>1. Spec /\ [][QuietStart]_vars => [][OwnDispatch]_vars
  BY QuietInvariant, PTL
<1>2. Spec /\ [][QuietStart]_vars => [][Results!Next]_(Results!vars)
  BY <1>1, OwnValuesInOrder, PTL DEF CallbackObject, ImplementsOrderedResults, Results!Spec
<1>3. EverythingRetrieved' /\ [Results!Next]_(Results!vars) => [Strict!Next]_(Strict!vars)
  BY StrictStep
<1>4. Init => Strict!Init
  BY ResultsInit DEF Results!Init, Strict!Init, Results!Calls, Strict!Calls
<1> QED
  BY <1>2, <1>3, <1>4, OnlyRacesLoseResults, PTL DEF Spec, Strict!Spec

-----------------------------------------------------------------------------
(***************************************************************************)
(* Waiting.  The loop of _get_outputs goes into retrieve() because of two  *)
(* counters, and waits there for a batch of the queue.  That the counters  *)
(* speak of a batch that exists, and that somebody still works on it, is   *)
(* what the three theorems say.                                            *)
(***************************************************************************)
LockTaken == lock # NoTask => cb[lock] \in {"retrieve", "dispatch", "clear_iterating"}

\* A task drawn for the current call has its outcome, or will get one.
Awaited(t) == /\ t[2] <= taken[t[1]]
              /\ SupportsRetrieveCallback => call_id = t[1]

ComingInv == \A t \in Task : Awaited(t) =>
    Ready(t) \/ worker[t] = "running" \/ cb[t] \in {"enter", "retrieve"}

LEMMA WaitingInit == Init => LockTaken /\ ComingInv
<1> SUFFICES ASSUME Init PROVE LockTaken /\ ComingInv
  OBVIOUS
<1>1. \A t \in Task : t[1] \in Calls /\ t[2] \in Nat /\ t[2] > 0
  BY ParametersAssumption DEF ParametersAssumption, Task
<1>2. \A c \in Calls : taken[c] = 0
  BY DEF Init
<1>3. \A t \in Task : ~Awaited(t)
  BY <1>1, <1>2 DEF Awaited
<1> QED
  BY <1>3 DEF Init, LockTaken, ComingInv

LEMMA LockTakenNext ==
    ASSUME TypeOK, CallbackInv, OneCallback, LockTaken, [Next]_vars
    PROVE  LockTaken'
<1>a. NoTask \notin Task /\ (lock # NoTask => lock \in Task)
  BY DEF NoTask, Task, Calls, TypeOK, ObjectTypeOK
<1> USE DEF LockTaken
<1>1. CASE UNCHANGED <<lock, cb>>
  BY <1>1
<1>2. ASSUME NEW t \in Task, WorkerDone(t) PROVE LockTaken'
  <2>1. /\ UNCHANGED lock /\ cb[t] = "none"
        /\ \A u \in Task : u # t => cb'[u] = cb[u]
    BY <1>2 DEF WorkerDone, OneCallback, TypeOK, BatchTypeOK
  <2> QED
    BY <1>a, <2>1
<1>3. ASSUME NEW t \in Task,
             CallbackEnter(t) \/ RetrieveResult(t) \/ DispatchNew(t)
             \/ CallbackClearIterating(t)
      PROVE  LockTaken'
  BY <1>3, <1>a DEF CallbackEnter, RetrieveResult, DispatchNew, CallbackClearIterating,
     TypeOK, BatchTypeOK
<1>4. ASSUME NEW t \in Task, CallbackDispatch(t) PROVE LockTaken'
  <2>1. lock = t
    BY <1>4 DEF CallbackDispatch, CallbackInv, LockHeld
  <2> QED
    BY <1>4, <2>1 DEF CallbackDispatch, TypeOK, BatchTypeOK
<1>5. ASSUME NEW c \in Calls,
             Call(c) \/ Resume(c) \/ InsideCall(c) \/ Generator(c)
      PROVE  UNCHANGED <<lock, cb>>
  BY <1>5 DEF Call, Resume, InsideCall, Generator, ResumeList, ResetCounters,
     ResetIterating, NewCallId, Setup, Loop, CheckIterating, ConsumerDispatch,
     ConsumerClearIterating, CheckAborting, Retrieve, batchVars
<1>6. ASSUME Enter \/ Exit \/ UNCHANGED vars PROVE UNCHANGED <<lock, cb>>
  BY <1>6 DEF Enter, Exit, vars, batchVars
<1> QED
  BY <1>1, <1>2, <1>3, <1>4, <1>5, <1>6 DEF Next, User, UserNext, Callback

(***************************************************************************)
(* Nothing that is drawn for the current call is lost on its way, unless   *)
(* the object is aborted, or a batch carries the identifier of another     *)
(* call, or tasks of a call are drawn before it has its identifier.        *)
(***************************************************************************)
LEMMA ComingNext ==
    ASSUME TypeOK, CallbackInv, OneCallback, ComingInv, [Next]_vars,
           aborting = FALSE, managed_backend = FALSE, ~UseContext,
           \A c \in Calls : pc[c] = "new_id" => taken[c] = 0,
           SupportsRetrieveCallback =>
               \A t \in Task : t[2] <= taken[t[1]] => parallel_call_id[t] = t[1]
    PROVE  ComingInv'
<1>a. \A t \in Task : t[1] \in Calls /\ t[2] \in Nat /\ t[2] > 0
  BY ParametersAssumption DEF ParametersAssumption, Task
<1> USE DEF ComingInv, Awaited, Ready
<1>1. CASE UNCHANGED <<taken, call_id, status, worker, cb>>
  BY <1>1
<1>2. ASSUME NEW c \in Calls, NewCallId(c) PROVE ComingInv'
  <2>1. /\ UNCHANGED <<taken, status, worker, cb>> /\ call_id' = c
        /\ taken[c] = 0
    BY <1>2 DEF NewCallId, batchVars
  <2> QED
    BY <1>a, <2>1
<1>3. ASSUME HasNextTask, DispatchOneBatch, UNCHANGED call_id,
             \A t \in Task : cb[t] \in {"enter", "retrieve"} => cb'[t] = cb[t]
      PROVE  ComingInv'
  <2>1. /\ NextTask \in Task /\ worker'[NextTask] = "running"
        /\ \A t \in Task : t[2] <= taken'[t[1]] <=> t[2] <= taken[t[1]] \/ t = NextTask
    BY <1>3, DispatchDraws DEF DispatchOneBatch, TypeOK, BatchTypeOK
  <2>2. \A t \in Task : t # NextTask => status'[t] = status[t] /\ worker'[t] = worker[t]
    BY <1>3, DispatchFresh
  <2> QED
    BY <1>3, <2>1, <2>2
<1>4. ASSUME NEW c \in Calls, ConsumerDispatch(c) PROVE ComingInv'
  BY <1>1, <1>3, <1>4 DEF ConsumerDispatch
<1>5. ASSUME NEW t \in Task, CallbackDispatch(t) PROVE ComingInv'
  <2>1. UNCHANGED call_id
        /\ \A u \in Task : cb[u] \in {"enter", "retrieve"} => cb'[u] = cb[u]
    BY <1>5 DEF CallbackDispatch, TypeOK, BatchTypeOK
  <2>2. CASE HasNextTask
    BY <1>3, <1>5, <2>1, <2>2 DEF CallbackDispatch
  <2>3. CASE ~HasNextTask
    BY <1>5, <2>1, <2>3 DEF CallbackDispatch
  <2> QED
    BY <2>2, <2>3
<1>6. ASSUME NEW t \in Task, WorkerDone(t) PROVE ComingInv'
  <2>1. /\ UNCHANGED <<taken, call_id, status>> /\ worker'[t] \in {"ok", "error"}
        /\ SupportsRetrieveCallback => cb'[t] = "enter"
        /\ \A u \in Task : u # t => worker'[u] = worker[u] /\ cb'[u] = cb[u]
    BY <1>6 DEF WorkerDone, objectVars, userVars, TypeOK, BatchTypeOK
  <2> QED
    BY <2>1
<1>7. ASSUME NEW t \in Task, CallbackEnter(t) PROVE ComingInv'
  <2>1. /\ UNCHANGED <<taken, call_id, status, worker>>
        /\ cb'[t] = "retrieve" \/ call_id # parallel_call_id[t]
        /\ \A u \in Task : u # t => cb'[u] = cb[u]
    BY <1>7 DEF CallbackEnter, objectVars, userVars, TypeOK, BatchTypeOK
  <2>2. SupportsRetrieveCallback
    BY <1>7 DEF CallbackEnter, OneCallback
  <2> QED
    BY <2>1, <2>2
<1>8. ASSUME NEW t \in Task, RetrieveResult(t) PROVE ComingInv'
  <2>1. /\ UNCHANGED <<taken, call_id, worker>>
        /\ status'[t] \in {"Done", "Error"}
        /\ \A u \in Task : u # t => status'[u] = status[u] /\ cb'[u] = cb[u]
    BY <1>8 DEF RetrieveResult, objectVars, userVars, TypeOK, BatchTypeOK
  <2>2. SupportsRetrieveCallback
    BY <1>8 DEF RetrieveResult, OneCallback
  <2> QED
    BY <2>1, <2>2
<1>9. ASSUME NEW t \in Task, DispatchNew(t) \/ CallbackClearIterating(t) PROVE ComingInv'
  <2>1. /\ UNCHANGED <<taken, call_id, worker, status>>
        /\ cb[t] \notin {"enter", "retrieve"}
        /\ \A u \in Task : u # t => cb'[u] = cb[u]
    BY <1>9 DEF DispatchNew, CallbackClearIterating, objectVars, userVars, TypeOK, BatchTypeOK
  <2> QED
    BY <2>1
<1>10. ASSUME NEW c \in Calls, Call(c) \/ Resume(c) \/ ResetCounters(c) \/ ResetIterating(c)
              \/ Setup(c) \/ Loop(c) \/ CheckIterating(c) \/ ConsumerClearIterating(c)
              \/ CheckAborting(c) \/ Retrieve(c)
       PROVE  UNCHANGED <<taken, call_id, status, worker, cb>>
  BY <1>10 DEF Call, Resume, ResetCounters, ResetIterating, Setup, Loop, CheckIterating,
     ConsumerClearIterating, CheckAborting, Retrieve, objectVars, batchVars
<1>11. ~Enter /\ ~Exit
  BY DEF Enter, Exit
<1>12. CASE UNCHANGED vars
  BY <1>1, <1>12 DEF vars, objectVars, userVars, batchVars
<1> QED
  BY <1>1, <1>2, <1>4, <1>5, <1>6, <1>7, <1>8, <1>9, <1>10, <1>11, <1>12
  DEF Next, User, UserNext, InsideCall, Generator, ResumeList, Callback

\* Over callbacks: the batch is the task after the last value.
LEMMA CallbackBatchComing ==
    ASSUME CallbackBackend, TypeOK, OwnInv, ComingInv, aborting = FALSE,
           NEW c \in Calls, pc[c] = "retrieve", Len(Values(c)) < taken[c]
    PROVE  \E k \in DOMAIN outputs : Oldest(k) /\ Coming(outputs[k])
<1> DEFINE n == Len(Values(c))
           u == <<c, n + 1>>
<1>1. n \in Nat /\ n < taken[c] /\ taken[c] \in 0..MaxTasks /\ MaxTasks \in Nat
  BY ValuesType, ParametersAssumption DEF ParametersAssumption, TypeOK, UserTypeOK
<1>2. call_id = c /\ pc[c] \notin Ended
  BY DEF OwnInv, IdentifierInv, Begun, InGenerator, Ended
<1> HIDE DEF n
<1>3. u \in Task /\ u[1] = c /\ u[2] = n + 1 /\ u[2] <= taken[c]
  BY <1>1 DEF Task
<1>4. Waiting(u)
  BY <1>1, <1>3 DEF Waiting, n
<1> HIDE DEF u
<1>5. PICK k \in DOMAIN outputs : outputs[k] = u
  BY <1>2, <1>3, <1>4 DEF OwnInv, QueueInv
<1>6. Retrievable(u)
  BY <1>2, <1>3 DEF Retrievable, OwnInv, BatchInv
<1>7. ASSUME NEW j \in 1..(k - 1) PROVE ~Retrievable(outputs[j])
  <2> SUFFICES ASSUME Retrievable(outputs[j]) PROVE FALSE
    OBVIOUS
  <2>1. j \in DOMAIN outputs /\ j < k /\ outputs[j] \in Task
    BY DEF TypeOK, ObjectTypeOK
  <2>2. /\ Waiting(outputs[j]) /\ outputs[j][1] \in Calls /\ outputs[j][2] \in Nat
    BY <2>1, ParametersAssumption DEF OwnInv, QueueInv, Task, ParametersAssumption
  <2>3. outputs[j][1] = c
    <3>1. parallel_call_id[outputs[j]] = call_id
      BY DEF Retrievable, CallbackBackend
    <3> QED
      BY <1>2, <2>1, <2>2, <3>1 DEF OwnInv, BatchInv, Waiting
  <2>4. outputs[j][2] < u[2]
    BY <1>3, <1>5, <2>1, <2>3 DEF OwnInv, QueueInv
  <2>5. n < outputs[j][2]
    BY <2>2, <2>3 DEF Waiting, n
  <2> QED
    BY <1>1, <1>3, <2>2, <2>4, <2>5
<1>8. Oldest(k)
  BY <1>5, <1>6, <1>7 DEF Oldest
<1>9. Coming(u)
  BY <1>2, <1>3 DEF Coming, ComingInv, Awaited
<1> QED
  BY <1>5, <1>8, <1>9

(***************************************************************************)
(* When no callback of an earlier call is left at its start, no call waits *)
(* in vain: the batch that its retrieve() waits for exists, and is done,   *)
(* runs, or has a callback that will register it, and _lock is never left  *)
(* behind.  (A callback that is left can send retrieve() after a batch     *)
(* that does not exist: it counts one between _reset_run_tracking and the  *)
(* new identifier.)                                                        *)
(***************************************************************************)
THEOREM QuietCallsAreServed ==
    CallbackObject => (Spec /\ [][QuietStart]_vars => []WaitsForSomebody)
<1> SUFFICES ASSUME CallbackObject PROVE Spec /\ [][QuietStart]_vars => []WaitsForSomebody
  OBVIOUS
<1> DEFINE Known == TypeOK /\ OneAfterTheOther /\ CallbackInv /\ OneCallback /\ OwnInv
                    /\ QuietInv
           Inv == CountersInv /\ LockTaken /\ ComingInv
<1>1. Init => Inv
  <2>1. Init => CountersInv
    BY DEF Init, CountersInv
  <2> QED
    BY <2>1, WaitingInit
<1>2. Known /\ Inv /\ [Next]_vars => Inv'
  <2> SUFFICES ASSUME Known, Inv, [Next]_vars PROVE Inv'
    OBVIOUS
  <2>1. \A c \in Calls : pc[c] = "new_id" => taken[c] = 0
    BY DEF QuietInv, StageInv, Untouched, InCall
  <2>2. \A t \in Task : t[2] <= taken[t[1]] => parallel_call_id[t] = t[1]
    BY DEF OwnInv, BatchInv
  <2>3. ComingInv'
    BY <2>1, <2>2, ComingNext DEF CallbackObject, QuietInv
  <2> QED
    BY <2>3, LockTakenNext, CountersInvNext DEF CallbackObject, CallbackBackend
<1>3. Known /\ Inv => WaitsForSomebody
  <2> SUFFICES ASSUME Known, Inv PROVE WaitsForSomebody
    OBVIOUS
  <2>1. ASSUME NEW c \in Calls, pc[c] = "retrieve"
        PROVE  \E k \in DOMAIN outputs : Oldest(k) /\ Coming(outputs[k])
    <3>1. n_completed_tasks < n_dispatched_tasks /\ CountsOf(c)
      BY <2>1 DEF CountersInv, QuietInv, StageInv, CountingInv, InGenerator
    <3>2. Len(Values(c)) \in Nat
      BY ValuesType
    <3>3. Len(Values(c)) < taken[c]
      BY <2>1, <3>1, <3>2 DEF CountsOf
    <3> QED
      BY <2>1, <3>3, CallbackBatchComing DEF CallbackObject, QuietInv
  <2> QED
    BY <2>1 DEF WaitsForSomebody, LockTaken
<1>4. Spec /\ [][QuietStart]_vars => []Known
  BY QuietInvariant, PTL
<1> HIDE DEF Known, Inv
<1> QED
  BY <1>1, <1>2, <1>3, <1>4, PTL DEF Spec

(***************************************************************************)
(* The first call of an object over callbacks is such a call: whatever     *)
(* fails, and in whatever order its tasks end, it waits only for batches   *)
(* that come.                                                              *)
(***************************************************************************)
THEOREM FirstCallIsServed ==
    CallbackObject /\ MaxCalls = 1 => (Spec => []WaitsForSomebody)
<1> SUFFICES ASSUME CallbackObject, MaxCalls = 1 PROVE Spec => []WaitsForSomebody
  OBVIOUS
<1>1. ASSUME TypeOK, CallbackInv, SingleCounts, NEW c \in Calls, pc[c] = "idle"
      PROVE  Settled
  <2>1. \A t \in Task : t[1] = c /\ t[2] \in Nat /\ t[2] > 0
    BY ParametersAssumption DEF ParametersAssumption, Task, Calls
  <2>2. taken[c] = 0
    BY <1>1 DEF SingleCounts
  <2> QED
    BY <1>1, <2>1, <2>2 DEF CallbackInv, NotDrawnYet, Settled
<1>2. TypeOK /\ CallbackInv /\ SingleCounts => QuietStart
  BY <1>1 DEF QuietStart
<1>3. Spec => [](TypeOK /\ CallbackInv /\ FirstInv)
  BY TypeCorrect, OnceInvariant, PTL
<1>4. TypeOK /\ FirstInv /\ SingleCounts /\ [Next]_vars => SingleCounts'
  BY SingleCountsNext
<1>5. Spec => [][QuietStart]_vars
  BY <1>2, <1>3, <1>4, SingleInit, PTL DEF Spec
<1> QED
  BY <1>5, QuietCallsAreServed, PTL

(***************************************************************************)
(* Nor does a call over a backend without retrieve callbacks wait in vain, *)
(* however many calls are made one after the other.                        *)
(***************************************************************************)
THEOREM PlainCallsAreServed == PlainBackend => (Spec => []WaitsForSomebody)
<1> SUFFICES ASSUME PlainBackend PROVE Spec => []WaitsForSomebody
  OBVIOUS
<1> DEFINE Inv == TypeOK /\ CallbackInv /\ OneCallback /\ PlainInv /\ LockTaken /\ ComingInv
<1>1. Init => Inv
  BY TypeInit, CallbackInvInit, OnceInit, PlainInit, WaitingInit
<1>2. Inv /\ [Next]_vars => Inv'
  <2> SUFFICES ASSUME Inv, [Next]_vars PROVE Inv'
    OBVIOUS
  <2>1. aborting = FALSE /\ managed_backend = FALSE
    BY DEF PlainInv, NoCallbacks
  <2>2. \A c \in Calls : pc[c] = "new_id" => taken[c] = 0
    BY DEF PlainInv, CallInv, SetupInv, Untouched, InCall
  <2>3. ComingInv'
    BY <2>1, <2>2, ComingNext DEF PlainBackend
  <2> QED
    BY <2>3, TypeNext, CallbackInvNext, OneCallbackNext, PlainNext, LockTakenNext
<1>3. Inv => WaitsForSomebody
  <2> SUFFICES ASSUME Inv PROVE WaitsForSomebody
    OBVIOUS
  <2>1. ASSUME NEW c \in Calls, pc[c] = "retrieve"
        PROVE  \E k \in DOMAIN outputs : Oldest(k) /\ Coming(outputs[k])
    <3> DEFINE u == <<c, Len(Values(c)) + 1>>
    <3>1. taken[c] = Len(Values(c)) + 1 /\ Len(Values(c)) \in Nat
          /\ (taken[c] = Len(Values(c)) => FALSE) /\ QueueOf(c)
      BY <2>1, ValuesType DEF PlainInv, CallInv, GeneratorInv, InGenerator
    <3>2. outputs = <<u>> /\ u[1] = c /\ u[2] <= taken[c]
      BY <3>1 DEF QueueOf
    <3> HIDE DEF u
    <3>3. 1 \in DOMAIN outputs /\ outputs[1] = u /\ u \in Task
      BY <3>2 DEF TypeOK, ObjectTypeOK
    <3>4. Oldest(1)
      BY <3>3 DEF Oldest, Retrievable, PlainBackend
    <3>5. Coming(u)
      BY <3>2, <3>3 DEF Coming, ComingInv, Awaited, PlainBackend, PlainInv, NoCallbacks
    <3> QED
      BY <3>3, <3>4, <3>5
  <2> QED
    BY <2>1 DEF WaitsForSomebody, LockTaken
<1> HIDE DEF Inv
<1> QED
  BY <1>1, <1>2, <1>3, PTL DEF Spec
=============================================================================
