--------------------------- MODULE SequentialCall ---------------------------
(***************************************************************************)
(* Parallel with one job: __call__ returns the generator                   *)
(* _get_sequential_output, or the list of what it yields, and runs each    *)
(* task when its value is asked for.  Several generators of one object may *)
(* be alive at once and share its counters.                                *)
(***************************************************************************)
EXTENDS Integers, Sequences

CONSTANTS SeqCalls, SeqTasks   \* calls, numbered, and bound of their tasks

VARIABLES
  size,      \* tasks in the iterable of each call
  ran,       \* tasks each call has started
  state,     \* "new", "paused" at a yield, "done" or "raised"
  completed, \* _n_completed_tasks
  last,      \* the call that reset the counters last, or 0
  mixed      \* the last call started while an earlier one had not ended

vars == <<size, ran, state, completed, last, mixed>>

Init ==
    /\ size = [c \in SeqCalls |-> 0] /\ ran = [c \in SeqCalls |-> 0]
    /\ state = [c \in SeqCalls |-> "new"]
    /\ completed = 0 /\ last = 0 /\ mixed = FALSE

\* __call__: the counters, the generator, and next(output) up to its first
\* value, which is dropped; on no task at all StopIteration leaves the call.
Call(c, n) ==
    /\ state[c] = "new" /\ \A d \in SeqCalls : d < c => state[d] # "new"
    /\ size' = [size EXCEPT ![c] = n]
    /\ completed' = 0 /\ last' = c
    /\ mixed' = \E d \in SeqCalls : d < c /\ state[d] \notin {"done", "raised"}
    /\ ran' = [ran EXCEPT ![c] = IF n > 0 THEN 1 ELSE 0]
    /\ \E failed \in BOOLEAN :
          state' = [state EXCEPT ![c] = IF n = 0 \/ failed THEN "raised" ELSE "paused"]

\* The generator is asked again: it counts the task whose value was taken,
\* then runs the next one, which may raise.
ResumeCountingLater(c) ==   \* mutant: counts when the next task has run
    /\ state[c] = "paused"
    /\ IF ran[c] = size[c]
       THEN state' = [state EXCEPT ![c] = "done"] /\ UNCHANGED <<ran, completed>>
       ELSE /\ ran' = [ran EXCEPT ![c] = @ + 1] /\ completed' = completed + 1
            /\ UNCHANGED state \/ state' = [state EXCEPT ![c] = "raised"]
    /\ UNCHANGED <<size, last, mixed>>

Resume(c) ==
    /\ state[c] = "paused"
    /\ completed' = completed + 1
    /\ IF ran[c] = size[c]
       THEN state' = [state EXCEPT ![c] = "done"] /\ UNCHANGED ran
       ELSE /\ ran' = [ran EXCEPT ![c] = @ + 1]
            /\ UNCHANGED state \/ state' = [state EXCEPT ![c] = "raised"]
    /\ UNCHANGED <<size, last, mixed>>

Next == \E c \in SeqCalls : Resume(c) \/ \E n \in 0..SeqTasks : Call(c, n)

Spec == Init /\ [][Next]_vars

-----------------------------------------------------------------------------
(***************************************************************************)
(* The tasks of a call that its caller went past: all that it started but  *)
(* the one whose value the caller looks at, or the one that raised.        *)
(***************************************************************************)
Own(c) == CASE state[c] = "done" -> size[c]
            [] size[c] = 0       -> 0
            [] OTHER             -> ran[c] - 1

(***************************************************************************)
(* _n_completed_tasks is never less than the tasks that the caller of the  *)
(* last call went past, and no more than these if this call started when   *)
(* the earlier ones had ended.  While generators alternate it counts the   *)
(* tasks of all of them.                                                   *)
(***************************************************************************)
SequentialCounts == last # 0 =>
    /\ completed >= Own(last)
    /\ ~mixed => completed = Own(last)
=============================================================================
