--------------------------- MODULE ParallelConfig ---------------------------
(***************************************************************************)
(* The configuration of joblib.Parallel: the scopes parallel_config,       *)
(* parallel_backend and BatchedCalls, which live in the threads that open  *)
(* them, the registry of backends, which all threads share, and what a new *)
(* Parallel makes of both.                                                 *)
(*                                                                         *)
(* Of the parameters the module has the backend and n_jobs; the code       *)
(* treats temp_folder, max_nbytes and mmap_mode as it treats n_jobs.  A    *)
(* backend is known by its class.                                          *)
(***************************************************************************)
EXTENDS Integers, Sequences, FiniteSets

CONSTANTS Threads,
          Jobs,          \* values of n_jobs that users give
          ScopeBackends, \* values of backend that users give to scopes
          BatchBackends, \* classes of the backends that batches carry
          MaxOpen,       \* bound: scopes open at once
          Unset,         \* the _Sentinel of a parameter that is not given
          None

Names == {"threading", "loky", "dask", "custom"}
Classes == {"ThreadingBackend", "LokyBackend", "DaskDistributedBackend", "CustomBackend"}
Hints == {"processes", "threads", "sharedmem"}

\* A module that instantiates this one assumes it.
ConfigAssumption ==
    /\ ScopeBackends \subseteq Names \union {Unset, None} /\ BatchBackends \subseteq Classes
    /\ Jobs \subseteq Int \ {-1} /\ MaxOpen \in Nat
    /\ Unset # None
    /\ {Unset, None} \intersect (Int \union Names \union Classes \union Hints) = {}

VARIABLES
  config,          \* _backend.config, of each thread
  open,            \* the scopes opened in each thread and not left yet
  nested,          \* so far this thread left scopes from the innermost one
  BACKENDS,        \* the class registered under each name, or None
  DEFAULT_BACKEND,
  registering      \* the name each thread is about to make the default, or None

vars == <<config, open, nested, BACKENDS, DEFAULT_BACKEND, registering>>

scopeVars == <<config, open, nested>>
registry == <<BACKENDS, DEFAULT_BACKEND, registering>>

Keys == {"backend", "n_jobs"}
Config == [backend : Classes \union {Unset, None}, n_jobs : Jobs \union {-1, Unset, None}]
default_parallel_config == [backend |-> Unset, n_jobs |-> Unset]
Scope == [given : Config, old : Config]

TypeOK ==
    /\ config \in [Threads -> Config]
    /\ open \in [Threads -> Seq(Scope)]
    /\ nested \in [Threads -> BOOLEAN]
    /\ BACKENDS \in [Names -> Classes \union {None}]
    /\ DEFAULT_BACKEND \in Names
    /\ registering \in [Threads -> Names \union {None}]

\* Import of the module, with and without multiprocessing.
Init ==
    /\ config = [t \in Threads |-> default_parallel_config]
    /\ open = [t \in Threads |-> <<>>]
    /\ nested = [t \in Threads |-> TRUE]
    /\ registering = [t \in Threads |-> None]
    /\ \E mp \in BOOLEAN :
        /\ BACKENDS = [n \in Names |->
               CASE n = "threading"   -> "ThreadingBackend"
                 [] n = "loky" /\ mp  -> "LokyBackend"
                 [] OTHER             -> None]
        /\ DEFAULT_BACKEND = IF mp THEN "loky" ELSE "threading"

-----------------------------------------------------------------------------
(* The registry                                                             *)

\* register_parallel_backend(name, factory, make_default): two assignments.
RegisterDefaultFirst(t, name, class, make_default) ==   \* mutant
    /\ registering[t] = None
    /\ DEFAULT_BACKEND' = IF make_default THEN name ELSE DEFAULT_BACKEND
    /\ registering' = [registering EXCEPT ![t] = name]
    /\ UNCHANGED <<scopeVars, BACKENDS>>

Register(t, name, class, make_default) ==
    /\ registering[t] = None
    /\ BACKENDS' = [BACKENDS EXCEPT ![name] = class]
    /\ registering' = [registering EXCEPT ![t] = IF make_default THEN name ELSE None]
    /\ UNCHANGED <<scopeVars, DEFAULT_BACKEND>>

MakeDefault(t) ==
    /\ registering[t] # None
    /\ DEFAULT_BACKEND' = registering[t]
    /\ registering' = [registering EXCEPT ![t] = None]
    /\ UNCHANGED <<scopeVars, BACKENDS>>

\* _register_dask, which a scope for a name in EXTERNAL_BACKENDS calls.
RegisterExternal(name) ==
    IF name = "dask" THEN [BACKENDS EXCEPT ![name] = "DaskDistributedBackend"] ELSE BACKENDS

-----------------------------------------------------------------------------
(* Scopes                                                                   *)

UpdateWithUnset(old, given) == given   \* mutant: parameters not given count

Update(old, given) ==
    [k \in Keys |-> IF given[k] # Unset THEN given[k] ELSE old[k]]

OpenScopes == {s \in Threads \X (1..MaxOpen) : s[2] <= Len(open[s[1]])}

\* A scope that opens.  When _check_backend raises, nothing is assigned yet.
Open(t, given) ==
    /\ registering[t] = None /\ Cardinality(OpenScopes) < MaxOpen
    /\ config' = [config EXCEPT ![t] = Update(config[t], given)]
    /\ open' = [open EXCEPT ![t] = Append(@, [given |-> given, old |-> config[t]])]
    /\ UNCHANGED nested

\* _check_backend: no backend, or the backend registered under the name.
CheckBackendName(b) == b   \* mutant: the name stays a name

CheckBackend(b) == IF b \in Names THEN RegisterExternal(b)[b] ELSE b

Accepts(b) == b \in Names => RegisterExternal(b)[b] # None

\* parallel_config(backend=b, n_jobs=n), in a with statement or without.
ParallelConfigInit(t, b, n) ==
    /\ Accepts(b)
    /\ Open(t, [backend |-> CheckBackend(b), n_jobs |-> n])
    /\ BACKENDS' = RegisterExternal(b)
    /\ UNCHANGED <<DEFAULT_BACKEND, registering>>

\* parallel_backend(b, n_jobs=n), which has no parameter unset.
ParallelBackendInit(t, b, n) == b \in Names /\ n # Unset /\ ParallelConfigInit(t, b, n)

\* A batch on a worker thread: parallel_config with an instance of a backend
\* and the number of jobs in backend_and_jobs, None if there is no tuple.
BatchedCallsCall(t, class, n) ==
    /\ n # Unset
    /\ Open(t, [backend |-> class, n_jobs |-> n])
    /\ UNCHANGED registry

\* A batch on a dask worker.
DaskBatchCall(t) == ParallelConfigInit(t, "dask", Unset)

\* __exit__ of the ith scope of t, called by thread u (unregister): the
\* configuration of u is what it was in t when the scope was opened.
Exit(t, i, u) ==
    /\ i \in DOMAIN open[t] /\ registering[u] = None
    /\ config' = [config EXCEPT ![u] = open[t][i].old]
    /\ open' = [open EXCEPT ![t] = SubSeq(@, 1, i - 1) \o SubSeq(@, i + 1, Len(@))]
    /\ nested' = IF i = Len(open[t]) /\ u = t THEN nested
                 ELSE [nested EXCEPT ![t] = FALSE, ![u] = FALSE]
    /\ UNCHANGED registry

-----------------------------------------------------------------------------
(* Parallel(...)                                                            *)

Errors == {"TypeError", "AttributeError", "ValueError", "KeyError"}
Given == {Unset, None}
Arguments == [backend : {"loky", "custom"} \union Given, verbose : {Unset, 0},
              prefer : {"processes", "threads"} \union Given,
              require : {"sharedmem"} \union Given]

DefaultClass == IF BACKENDS[DEFAULT_BACKEND] = None THEN "KeyError"
                ELSE BACKENDS[DEFAULT_BACKEND]
ProcessClass == IF BACKENDS["loky"] = None THEN "ThreadingBackend" ELSE "LokyBackend"

\* The backend _get_active_backend finds, or its error: Unset is not None,
\* hence it fails the checks of require and prefer.
ActiveBackend(args, cfg) ==
    IF cfg.backend # None THEN cfg.backend
    ELSE IF args.require = "sharedmem" THEN "ThreadingBackend"
    ELSE IF args.require = Unset \/ args.prefer = Unset THEN "ValueError"
    ELSE CASE args.prefer = "processes" -> ProcessClass
           [] args.prefer = "threads"   -> "ThreadingBackend"
           [] args.prefer = None        -> DefaultClass

\* _get_config_param, whatever its arguments: it calls _Sentinel(), a class
\* whose field default_value has no default.
GetConfigParam == "TypeError"

\* What Parallel(...) raises: Unset has no order and no nesting_level, and
\* what comes next is the first _get_config_param.
ParallelInit(args, cfg) ==
    LET active == ActiveBackend(args, cfg)
    IN  IF active \in Errors THEN active
        ELSE IF args.verbose = Unset THEN "TypeError"
        ELSE IF active = Unset THEN "AttributeError"
        ELSE GetConfigParam

-----------------------------------------------------------------------------
Next == \E t \in Threads :
    \/ \E b \in ScopeBackends, n \in Jobs \union Given : ParallelConfigInit(t, b, n)
    \/ \E b \in ScopeBackends, n \in Jobs \union {-1} : ParallelBackendInit(t, b, n)
    \/ \E class \in BatchBackends, n \in Jobs \union {None} : BatchedCallsCall(t, class, n)
    \/ DaskBatchCall(t)
    \/ \E i \in 1..MaxOpen, u \in Threads : Exit(t, i, u)
    \/ \E make_default \in BOOLEAN : Register(t, "custom", "CustomBackend", make_default)
    \/ MakeDefault(t)

Spec == Init /\ [][Next]_vars

\* Bound of the run: it does not go on after a scope was left out of order.
NestedSoFar == \A t \in Threads : nested[t]

-----------------------------------------------------------------------------
(***************************************************************************)
(* What the first n scopes of a thread say: cfg has, for each key, the     *)
(* value of the innermost scope that gives one, or the default.            *)
(***************************************************************************)
Says(scopes, n, cfg) == \A k \in Keys :
    \/ \E i \in 1..n : /\ scopes[i].given[k] # Unset /\ cfg[k] = scopes[i].given[k]
                       /\ \A j \in (i + 1)..n : scopes[j].given[k] = Unset
    \/ /\ \A i \in 1..n : scopes[i].given[k] = Unset
       /\ cfg[k] = default_parallel_config[k]

(***************************************************************************)
(* The configuration of a thread is what its open scopes say, whatever     *)
(* opened and closed before and whatever other threads do, as long as      *)
(* scopes are left by the thread that opened them, the innermost first.    *)
(***************************************************************************)
ConfigIsNested ==
    \A t \in Threads : nested[t] => Says(open[t], Len(open[t]), config[t])

(***************************************************************************)
(* The default backend is registered, also while a thread is between the   *)
(* two assignments of register_parallel_backend.                           *)
(***************************************************************************)
DefaultRegistered == BACKENDS[DEFAULT_BACKEND] # None

(***************************************************************************)
(* "Explicitly setting it in Parallel has priority over setting in a       *)
(* parallel_(config/backend) context manager."  In a scope with a backend, *)
(* arguments that ask for nothing unavailable make an object: Parallel     *)
(* raises no error.                                                        *)
(***************************************************************************)
Explicit(args) ==
    /\ args.verbose # Unset /\ args.require = None
    /\ args.backend \notin Given /\ BACKENDS[args.backend] # None

ExplicitWins == \A t \in Threads, args \in Arguments :
    Explicit(args) /\ config[t].backend \in Classes =>
        ParallelInit(args, config[t]) \notin Errors
=============================================================================
