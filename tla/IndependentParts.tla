-------------------------- MODULE IndependentParts --------------------------
(***************************************************************************)
(* Six parts of joblib that share no state: the outcome of a batch, the    *)
(* semaphores of loky, the log files, the sequential call, the objects of  *)
(* the dask backend, and the configuration.  A behaviour chooses one of    *)
(* them and runs it, so that one run checks them all without their         *)
(* product; where the others start does not matter.                        *)
(***************************************************************************)
EXTENDS Integers

CONSTANTS Readers, Registrars, Processes, SemNames, MaxNaming, ConditionSize,
          Runs, MaxLines, SeqCalls, SeqTasks,
          Threads, Objects, Addresses, Values, NoValue, NoObject, NoAddress,
          Jobs, ScopeBackends, BatchBackends, MaxOpen, Unset, None

\* Runs are numbered from 1 in the order they start.
ASSUME RunsAssumption == Runs \subseteq Nat \ {0} /\ \A r \in Runs : 1..r \subseteq Runs

ASSUME SequentialAssumption == SeqCalls \subseteq Nat \ {0} /\ SeqTasks \in Nat

VARIABLES
  part,
  job, status, result, callback, registrar, reader,
  disk, registered, naming, left, created, partial, owned, alive,
  files, step, lines, overlap,
  size, ran, state, completed, last, mixed,
  interpreter, life, id, pending, data, setting, scatter, data_futures, backend,
  config, open, nested, BACKENDS, DEFAULT_BACKEND, registering

outcomeVars == <<job, status, result, callback, registrar, reader>>
semVars == <<disk, registered, naming, left, created, partial, owned, alive>>
logVars == <<files, step, lines, overlap>>
seqVars == <<size, ran, state, completed, last, mixed>>
daskVars == <<interpreter, life, id, pending, data, setting, scatter, data_futures, backend>>
configVars == <<config, open, nested, BACKENDS, DEFAULT_BACKEND, registering>>

vars == <<part, outcomeVars, semVars, logVars, seqVars, daskVars, configVars>>

Outcome == INSTANCE BatchOutcome
Sem == INSTANCE SemLocks
Log == INSTANCE LogRotation
Sequential == INSTANCE SequentialCall
Dask == INSTANCE DaskData
Config == INSTANCE ParallelConfig

ASSUME DaskAssumption == Dask!DaskAssumption
ASSUME ConfigAssumption == Config!ConfigAssumption

Init == /\ part \in {"outcome", "semlocks", "log", "sequential", "dask", "config"}
        /\ Outcome!Init /\ Sem!Init /\ Log!Init /\ Sequential!Init
        /\ Dask!Init /\ (part # "dask" => interpreter = "CPython")
        /\ Config!Init /\ (part # "config" => DEFAULT_BACKEND = "loky")

Next ==
    /\ UNCHANGED part
    /\ \/ /\ part = "outcome" /\ Outcome!Next
          /\ UNCHANGED <<semVars, logVars, seqVars, daskVars, configVars>>
       \/ /\ part = "semlocks" /\ Sem!Next
          /\ UNCHANGED <<outcomeVars, logVars, seqVars, daskVars, configVars>>
       \/ /\ part = "log" /\ Log!Next
          /\ UNCHANGED <<outcomeVars, semVars, seqVars, daskVars, configVars>>
       \/ /\ part = "sequential" /\ Sequential!Next
          /\ UNCHANGED <<outcomeVars, semVars, logVars, daskVars, configVars>>
       \/ /\ part = "dask" /\ Dask!Next
          /\ UNCHANGED <<outcomeVars, semVars, logVars, seqVars, configVars>>
       \/ /\ part = "config" /\ Config!Next
          /\ UNCHANGED <<outcomeVars, semVars, logVars, seqVars, daskVars>>

Spec == Init /\ [][Next]_vars

\* Bound of the run: it does not go on after a scope was left out of order.
NestedSoFar == Config!NestedSoFar

-----------------------------------------------------------------------------
(* The properties of the parts, which their modules state.                  *)

\* A reader that sees a status set finds a result (get_result).
ReadersFindResult == Outcome!ReadersFindResult

\* SemLocks in use have semaphores of their own (SemLock.__init__).
SemaphoresDistinct == Sem!SemaphoresDistinct

\* No semaphore is forgotten, except in one window (SemLock.__init__).
SemaphoresTracked == Sem!SemaphoresTracked

\* The last two logs are kept (PrintTime.__init__).
LastRunsKept == Log!LastRunsKept

\* What _n_completed_tasks counts (_get_sequential_output).
SequentialCounts == Sequential!SequentialCounts

\* The types of the dask backend's variables.
DaskTypeOK == Dask!TypeOK

\* The future found under an id is that of the object (data_futures).
FuturesOfLiveObjects == Dask!FuturesOfLiveObjects

\* A value belongs to the object it was set for (_WeakKeyDictionary).
IsMapOfObjects == Dask!IsMapOfObjects

\* The types of the configuration's variables.
ConfigTypeOK == Config!TypeOK

\* The innermost open scope wins (parallel_config).
ConfigIsNested == Config!ConfigIsNested

\* The default backend is registered (register_parallel_backend).
DefaultRegistered == Config!DefaultRegistered
=============================================================================
