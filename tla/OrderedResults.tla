--------------------------- MODULE OrderedResults ---------------------------
(***************************************************************************)
(* What a Parallel object promises for return_as "list" and "generator":   *)
(* calls are served one after the other, and the values of a call are      *)
(* those of its own tasks, each once, in the order of its iterable, up to  *)
(* the first that failed.  A call ends with all of them, or it raises, and *)
(* then a task of its own has failed: the one whose value is next, or a    *)
(* later one that is found out first.                                      *)
(*                                                                         *)
(* MayTruncate weakens the promise: a call may also end early, with a      *)
(* prefix of the values.                                                   *)
(***************************************************************************)
EXTENDS Integers, Sequences

CONSTANTS MaxCalls, MaxTasks, MayTruncate

Calls == 1..MaxCalls

VARIABLES size,    \* tasks in the iterable of each call
          values,  \* values each call has produced
          outcome, \* "open", "done" or "raised"
          failed   \* the tasks that have failed

vars == <<size, values, outcome, failed>>

Init == /\ size \in [Calls -> 0..MaxTasks]
        /\ values = [c \in Calls |-> <<>>]
        /\ outcome = [c \in Calls |-> "open"]
        /\ failed = {}

\* The tasks of call c whose values are not produced.
Rest(c) == {<<c, i>> : i \in (Len(values[c]) + 1)..size[c]}

\* A task may fail at any time, also when its call is over.
TaskFails(c) ==
    /\ \E t \in Rest(c) : failed' = failed \union {t}
    /\ UNCHANGED <<size, values, outcome>>

\* Call c is the first that has not ended.
Current(c) == /\ outcome[c] = "open"
              /\ \A d \in 1..(c - 1) : outcome[d] # "open"

Produce(c) ==
    /\ Current(c)
    /\ Len(values[c]) < size[c] /\ <<c, Len(values[c]) + 1>> \notin failed
    /\ values' = [values EXCEPT ![c] = Append(@, <<c, Len(@) + 1>>)]
    /\ UNCHANGED <<size, outcome, failed>>

Finish(c) ==
    /\ Current(c)
    /\ Len(values[c]) = size[c] \/ MayTruncate
    /\ outcome' = [outcome EXCEPT ![c] = "done"]
    /\ UNCHANGED <<size, values, failed>>

Fail(c) ==
    /\ Current(c)
    /\ Rest(c) \cap failed # {}
    /\ outcome' = [outcome EXCEPT ![c] = "raised"]
    /\ UNCHANGED <<size, values, failed>>

Next == \E c \in Calls : TaskFails(c) \/ Produce(c) \/ Finish(c) \/ Fail(c)

Spec == Init /\ [][Next]_vars
=============================================================================
