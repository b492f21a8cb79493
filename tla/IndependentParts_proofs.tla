----------------------- MODULE IndependentParts_proofs -----------------------
(***************************************************************************)
(* The composition implements its parts, so that the theorems about a part *)
(* hold of the composition.                                                *)
(***************************************************************************)
EXTENDS IndependentParts, Sequences, TLAPS

OutcomeFacts == INSTANCE BatchOutcome_proofs
SemFacts == INSTANCE SemLocks_proofs
DaskFacts == INSTANCE DaskData_proofs
ConfigFacts == INSTANCE ParallelConfig_proofs

LEMMA ImplementsOutcome == Spec => OutcomeFacts!Spec
<1>1. Init => OutcomeFacts!Init
  BY DEF Init, Outcome!Init, OutcomeFacts!Init
<1>2. [Next]_vars => [OutcomeFacts!Next]_OutcomeFacts!vars
  BY DEF Next, vars, outcomeVars, Outcome!Next, OutcomeFacts!Next, OutcomeFacts!vars,
         Outcome!TaskEnds, OutcomeFacts!TaskEnds, Outcome!Outcomes, OutcomeFacts!Outcomes,
         Outcome!RetrieveResult, OutcomeFacts!RetrieveResult,
         Outcome!Assignments, OutcomeFacts!Assignments,
         Outcome!StatusOf, OutcomeFacts!StatusOf,
         Outcome!RegisterTest, OutcomeFacts!RegisterTest,
         Outcome!RegisterResult, OutcomeFacts!RegisterResult,
         Outcome!RegisterStatus, OutcomeFacts!RegisterStatus,
         Outcome!GetStatus, OutcomeFacts!GetStatus,
         Outcome!GetResult, OutcomeFacts!GetResult
<1> QED
  BY <1>1, <1>2, PTL DEF Spec, OutcomeFacts!Spec

LEMMA ImplementsSemLocks == Spec => SemFacts!Spec
<1>1. Init => SemFacts!Init
  BY DEF Init, Sem!Init, SemFacts!Init
<1>2. [Next]_vars => [SemFacts!Next]_SemFacts!vars
  BY DEF Next, vars, semVars, Sem!Next, SemFacts!Next, SemFacts!vars,
         Sem!Names, SemFacts!Names, Sem!Construct, SemFacts!Construct,
         Sem!Draw, SemFacts!Draw, Sem!CreateNamed, SemFacts!CreateNamed, Sem!Register, SemFacts!Register,
         Sem!GiveUp, SemFacts!GiveUp, Sem!Cleanup, SemFacts!Cleanup,
         Sem!Crash, SemFacts!Crash, Sem!TrackerExits, SemFacts!TrackerExits
<1> QED
  BY <1>1, <1>2, PTL DEF Spec, SemFacts!Spec

LEMMA ImplementsDask == Spec => DaskFacts!Spec
<1>1. Init => DaskFacts!Init
  BY DEF Init, Dask!Init, DaskFacts!Init, Dask!NoEntry, DaskFacts!NoEntry,
         Dask!NotSetting, DaskFacts!NotSetting
<1>2. [Next]_vars => [DaskFacts!Next]_DaskFacts!vars
  BY DEF Next, vars, daskVars, Dask!Next, DaskFacts!Next, DaskFacts!vars,
         Dask!Alive, DaskFacts!Alive, Dask!Dead, DaskFacts!Dead,
         Dask!InMemory, DaskFacts!InMemory, Dask!NoEntry, DaskFacts!NoEntry,
         Dask!NotSetting, DaskFacts!NotSetting, Dask!HasEntry, DaskFacts!HasEntry,
         Dask!objectVars, DaskFacts!objectVars, Dask!dictVars, DaskFacts!dictVars,
         Dask!backendVars, DaskFacts!backendVars, Dask!Create, DaskFacts!Create,
         Dask!Collect, DaskFacts!Collect, Dask!Free, DaskFacts!Free,
         Dask!OnDestroy, DaskFacts!OnDestroy, Dask!SetItem, DaskFacts!SetItem,
         Dask!Store, DaskFacts!Store, Dask!Scatter, DaskFacts!Scatter,
         Dask!FuturesOf, DaskFacts!FuturesOf, Dask!MapFutures, DaskFacts!MapFutures,
         Dask!DropBackend, DaskFacts!DropBackend
<1> QED
  BY <1>1, <1>2, PTL DEF Spec, DaskFacts!Spec

LEMMA ImplementsConfig == Spec => ConfigFacts!Spec
<1>1. Init => ConfigFacts!Init
  BY DEF Init, Config!Init, ConfigFacts!Init,
         Config!Names, ConfigFacts!Names,
         Config!default_parallel_config, ConfigFacts!default_parallel_config
<1> USE DEF Config!Names, ConfigFacts!Names, Config!Given, ConfigFacts!Given,
            Config!scopeVars, ConfigFacts!scopeVars, Config!registry, ConfigFacts!registry
<1>2. ASSUME NEW t \in Threads, NEW given, Config!Open(t, given)
      PROVE  ConfigFacts!Open(t, given)
  <2>1. Config!OpenScopes = ConfigFacts!OpenScopes
    BY DEF Config!OpenScopes, ConfigFacts!OpenScopes
  <2>2. Config!Update(config[t], given) = ConfigFacts!Update(config[t], given)
    BY DEF Config!Update, ConfigFacts!Update, Config!Keys, ConfigFacts!Keys
  <2> QED
    BY <1>2, <2>1, <2>2 DEF Config!Open, ConfigFacts!Open,
       Config!Cardinality, ConfigFacts!Cardinality
<1>3. ASSUME NEW t \in Threads, NEW b, NEW n, Config!ParallelConfigInit(t, b, n)
      PROVE  ConfigFacts!ParallelConfigInit(t, b, n)
  <2>1. Config!RegisterExternal(b) = ConfigFacts!RegisterExternal(b)
    BY DEF Config!RegisterExternal, ConfigFacts!RegisterExternal
  <2>2. /\ Config!Accepts(b) <=> ConfigFacts!Accepts(b)
        /\ Config!CheckBackend(b) = ConfigFacts!CheckBackend(b)
    BY <2>1 DEF Config!Accepts, ConfigFacts!Accepts,
                Config!CheckBackend, ConfigFacts!CheckBackend
  <2> QED
    BY <1>2, <1>3, <2>1, <2>2
    DEF Config!ParallelConfigInit, ConfigFacts!ParallelConfigInit
<1>4. ASSUME Config!Next PROVE ConfigFacts!Next
  <2> USE DEF ConfigFacts!Next
  <2>1. ASSUME NEW t \in Threads, NEW b \in ScopeBackends,
               NEW n \in Jobs \union Config!Given, Config!ParallelConfigInit(t, b, n)
        PROVE  ConfigFacts!Next
    BY <1>3, <2>1
  <2>2. ASSUME NEW t \in Threads, NEW b \in ScopeBackends, NEW n \in Jobs \union {-1},
               Config!ParallelBackendInit(t, b, n)
        PROVE  ConfigFacts!Next
    BY <1>3, <2>2 DEF Config!ParallelBackendInit, ConfigFacts!ParallelBackendInit
  <2>3. ASSUME NEW t \in Threads, NEW class \in BatchBackends, NEW n \in Jobs \union {None},
               Config!BatchedCallsCall(t, class, n)
        PROVE  ConfigFacts!Next
    BY <1>2, <2>3 DEF Config!BatchedCallsCall, ConfigFacts!BatchedCallsCall
  <2>4. ASSUME NEW t \in Threads, Config!DaskBatchCall(t) PROVE ConfigFacts!Next
    BY <1>3, <2>4 DEF Config!DaskBatchCall, ConfigFacts!DaskBatchCall
  <2>5. ASSUME NEW t \in Threads, NEW i \in 1..MaxOpen, NEW u \in Threads,
               Config!Exit(t, i, u)
        PROVE  ConfigFacts!Next
    BY <2>5 DEF Config!Exit, ConfigFacts!Exit
  <2>6. ASSUME NEW t \in Threads, NEW make_default \in BOOLEAN,
               Config!Register(t, "custom", "CustomBackend", make_default)
        PROVE  ConfigFacts!Next
    <3>1. ConfigFacts!Register(t, "custom", "CustomBackend", make_default)
      BY <2>6, Zenon DEF Config!Register, ConfigFacts!Register
    <3> QED
      BY <3>1
  <2>7. ASSUME NEW t \in Threads, Config!MakeDefault(t) PROVE ConfigFacts!Next
    BY <2>7 DEF Config!MakeDefault, ConfigFacts!MakeDefault
  <2> HIDE DEF ConfigFacts!Next
  <2> QED
    BY <1>4, <2>1, <2>2, <2>3, <2>4, <2>5, <2>6, <2>7 DEF Config!Next
<1>5. [Next]_vars => [ConfigFacts!Next]_ConfigFacts!vars
  BY <1>4 DEF Next, vars, configVars, ConfigFacts!vars
<1> QED
  BY <1>1, <1>5, PTL DEF Spec, ConfigFacts!Spec

-----------------------------------------------------------------------------
(***************************************************************************)
(* get_result finds a result when it has seen a status.                    *)
(***************************************************************************)
THEOREM ResultBeforeStatus == Spec => []ReadersFindResult
<1>1. OutcomeFacts!ReadersFindResult => ReadersFindResult
  BY DEF OutcomeFacts!ReadersFindResult, ReadersFindResult, Outcome!ReadersFindResult
<1> QED
  BY <1>1, ImplementsOutcome, OutcomeFacts!ResultBeforeStatus, PTL

(***************************************************************************)
(* No two SemLocks in use share a semaphore (SemLock.__init__).            *)
(***************************************************************************)
THEOREM NoSharedSemaphore == Spec => []SemaphoresDistinct
<1>1. SemFacts!SemaphoresDistinct => SemaphoresDistinct
  BY DEF SemFacts!SemaphoresDistinct, SemaphoresDistinct, Sem!SemaphoresDistinct,
         SemFacts!Names, Sem!Names
<1> QED
  BY <1>1, ImplementsSemLocks, SemFacts!NoSharedSemaphore, PTL

(***************************************************************************)
(* A semaphore the tracker does not know is one its process has not had    *)
(* the time to register (SemLock.__init__).                                *)
(***************************************************************************)
THEOREM NoForgottenSemaphore == Spec => []SemaphoresTracked
<1>1. SemFacts!SemaphoresTracked => SemaphoresTracked
  BY DEF SemFacts!SemaphoresTracked, SemaphoresTracked, Sem!SemaphoresTracked
<1> QED
  BY <1>1, ImplementsSemLocks, SemFacts!NoForgottenSemaphore, PTL

-----------------------------------------------------------------------------
LEMMA DaskIsAssumed == DaskFacts!DaskAssumption
BY DaskAssumption DEF DaskFacts!DaskAssumption, Dask!DaskAssumption

LEMMA ConfigIsAssumed == ConfigFacts!ConfigAssumption
BY ConfigAssumption
DEF ConfigFacts!ConfigAssumption, Config!ConfigAssumption,
    Config!Names, ConfigFacts!Names, Config!Classes, ConfigFacts!Classes,
    Config!Hints, ConfigFacts!Hints

(***************************************************************************)
(* The futures of the dask backend are those of live objects: what a       *)
(* look-up by id finds belongs to the object that has this id.             *)
(***************************************************************************)
THEOREM FuturesStayRight == Spec => []FuturesOfLiveObjects
<1>1. DaskFacts!FuturesOfLiveObjects => FuturesOfLiveObjects
  BY DEF DaskFacts!FuturesOfLiveObjects, FuturesOfLiveObjects, Dask!FuturesOfLiveObjects,
         DaskFacts!Alive, Dask!Alive
<1> QED
  BY <1>1, ImplementsDask, DaskIsAssumed, DaskFacts!FuturesStayRight, PTL

(***************************************************************************)
(* _WeakKeyDictionary implements the map from live objects to the values   *)
(* last set: in CPython exactly, and where callbacks may come late with    *)
(* values that are lost, but none that is wrong.                           *)
(***************************************************************************)
THEOREM DictionaryIsMap == Spec => IsMapOfObjects
<1> USE DEF Dask!Dead, DaskFacts!Dead, Dask!Alive, DaskFacts!Alive,
            Dask!GetItem, DaskFacts!GetItem, Dask!HasEntry, DaskFacts!HasEntry,
            Dask!NoEntry, DaskFacts!NoEntry
<1>1. DaskFacts!Map!Init => Dask!Map!Init
  BY DEF DaskFacts!Map!Init, Dask!Map!Init
<1>2. [DaskFacts!Map!Next]_(DaskFacts!Map!vars) => [Dask!Map!Next]_(Dask!Map!vars)
  BY DEF DaskFacts!Map!Next, Dask!Map!Next, DaskFacts!Map!vars, Dask!Map!vars,
         DaskFacts!Map!Create, Dask!Map!Create, DaskFacts!Map!Die, Dask!Map!Die,
         DaskFacts!Map!SetValue, Dask!Map!SetValue, DaskFacts!Map!Forget, Dask!Map!Forget
<1> QED
  BY <1>1, <1>2, ImplementsDask, DaskIsAssumed, DaskFacts!DictionaryIsMap, PTL
  DEF IsMapOfObjects, Dask!IsMapOfObjects, Dask!Map!Spec,
      DaskFacts!IsMapOfObjects, DaskFacts!Map!Spec

(***************************************************************************)
(* The configuration of a thread is what its open scopes say, the          *)
(* innermost first (parallel_config and what is built on it).              *)
(***************************************************************************)
THEOREM ScopesNest == Spec => []ConfigIsNested
<1>1. ConfigFacts!ConfigIsNested => ConfigIsNested
  BY DEF ConfigFacts!ConfigIsNested, ConfigIsNested, Config!ConfigIsNested,
         ConfigFacts!Says, Config!Says, ConfigFacts!Keys, Config!Keys,
         ConfigFacts!default_parallel_config, Config!default_parallel_config
<1> QED
  BY <1>1, ImplementsConfig, ConfigIsAssumed, ConfigFacts!ScopesNest, PTL

(***************************************************************************)
(* The default backend is always registered (register_parallel_backend).   *)
(***************************************************************************)
THEOREM DefaultIsRegistered == Spec => []DefaultRegistered
<1>1. ConfigFacts!DefaultRegistered => DefaultRegistered
  BY DEF ConfigFacts!DefaultRegistered, DefaultRegistered, Config!DefaultRegistered
<1> QED
  BY <1>1, ImplementsConfig, ConfigIsAssumed, ConfigFacts!DefaultIsRegistered, PTL

-----------------------------------------------------------------------------
(***************************************************************************)
(* The sequential call.  A generator that is paused has started a task;    *)
(* calls start in order, and when the last one started alone, the earlier  *)
(* ones have ended, so that only its own generator counts.                 *)
(***************************************************************************)
SeqType ==
    /\ size \in [SeqCalls -> Nat] /\ ran \in [SeqCalls -> Nat]
    /\ state \in [SeqCalls -> {"new", "paused", "done", "raised"}]
    /\ completed \in Nat /\ last \in SeqCalls \union {0} /\ mixed \in BOOLEAN

SeqPaused == \A c \in SeqCalls : state[c] = "paused" => 1 <= ran[c] /\ ran[c] <= size[c]

SeqLastInv ==
    /\ \A d \in SeqCalls : IF last < d THEN state[d] = "new" ELSE state[d] # "new"
    /\ ~mixed => \A d \in SeqCalls : d < last => state[d] \in {"done", "raised"}

SeqInv == SeqType /\ SeqPaused /\ SeqLastInv /\ SequentialCounts

LEMMA SeqInvInit == Init => SeqInv
<1> SUFFICES ASSUME Init PROVE SeqInv
  OBVIOUS
<1>1. mixed = FALSE /\ last = 0 /\ completed = 0
      /\ size = [c \in SeqCalls |-> 0] /\ ran = [c \in SeqCalls |-> 0]
      /\ state = [c \in SeqCalls |-> "new"]
  BY Zenon DEF Init, Sequential!Init
<1>2. mixed \in BOOLEAN
  BY <1>1, Zenon
<1>3. SeqType /\ SeqPaused
  BY <1>1, <1>2 DEF SeqType, SeqPaused
<1>4. SeqLastInv /\ SequentialCounts
  BY <1>1, SequentialAssumption
  DEF SeqLastInv, SequentialCounts, Sequential!SequentialCounts
<1> QED
  BY <1>3, <1>4 DEF SeqInv

LEMMA SeqInvCall ==
  ASSUME SeqInv, NEW c \in SeqCalls, NEW n \in 0..SeqTasks, Sequential!Call(c, n)
  PROVE  SeqInv'
<1> USE SequentialAssumption
<1>1. SeqType /\ SeqPaused /\ SeqLastInv
  BY DEF SeqInv
<1>2. state[c] = "new" /\ n \in Nat
  BY DEF Sequential!Call
<1>3. /\ last' = c /\ completed' = 0 /\ size' = [size EXCEPT ![c] = n]
      /\ ran' = [ran EXCEPT ![c] = IF n > 0 THEN 1 ELSE 0]
  BY DEF Sequential!Call
<1>4. PICK s \in {"raised", "paused"} :
        state' = [state EXCEPT ![c] = s] /\ (n = 0 => s = "raised")
  BY DEF Sequential!Call
<1>5. mixed' = (\E d \in SeqCalls : d < c /\ state[d] \notin {"done", "raised"})
  BY DEF Sequential!Call
<1>6. SeqType'
  <2>1. mixed' \in BOOLEAN
    BY <1>5, Zenon
  <2> QED
    BY <1>1, <1>2, <1>3, <1>4, <2>1 DEF SeqType
<1>7. SeqPaused'
  BY <1>1, <1>2, <1>3, <1>4 DEF SeqType, SeqPaused
<1>8. SeqLastInv'
  <2>1. /\ last \in Int /\ c \in Int /\ c > 0 /\ last < c
        /\ \A d \in SeqCalls : c < d => state[d] = "new" /\ d # c
    BY <1>1, <1>2 DEF SeqType, SeqLastInv
  <2>4. \A d \in SeqCalls : d < c => state[d] # "new"
    BY DEF Sequential!Call
  <2>5. \A d \in SeqCalls : IF c < d THEN state'[d] = "new" ELSE state'[d] # "new"
    <3> SUFFICES ASSUME NEW d \in SeqCalls
                 PROVE  IF c < d THEN state'[d] = "new" ELSE state'[d] # "new"
      OBVIOUS
    <3>1. d = c \/ state'[d] = state[d]
      BY <1>1, <1>4 DEF SeqType
    <3>2. state'[c] # "new"
      BY <1>1, <1>4 DEF SeqType
    <3> QED
      BY <2>1, <2>4, <3>1, <3>2
  <2>2. ~mixed' => \A d \in SeqCalls : d < c => state[d] \in {"done", "raised"}
    BY <1>5
  <2>3. ~mixed' => \A d \in SeqCalls : d < c => state'[d] \in {"done", "raised"}
    BY <1>1, <1>4, <2>2 DEF SeqType
  <2> QED
    BY <1>3, <2>3, <2>5 DEF SeqLastInv
<1>9. SequentialCounts'
  BY <1>1, <1>2, <1>3, <1>4
  DEF SeqType, SequentialCounts, Sequential!SequentialCounts, Sequential!Own
<1> QED
  BY <1>6, <1>7, <1>8, <1>9 DEF SeqInv

LEMMA SeqInvResume ==
  ASSUME SeqInv, NEW c \in SeqCalls, Sequential!Resume(c)
  PROVE  SeqInv'
<1> USE SequentialAssumption
<1>1. SeqType /\ SeqPaused /\ SeqLastInv /\ SequentialCounts
  BY DEF SeqInv
<1>2. /\ state[c] = "paused" /\ completed' = completed + 1
      /\ UNCHANGED <<size, last, mixed>>
  BY DEF Sequential!Resume
<1>3. \/ /\ ran[c] = size[c] /\ ran' = ran /\ state' = [state EXCEPT ![c] = "done"]
      \/ /\ ran[c] # size[c] /\ ran' = [ran EXCEPT ![c] = @ + 1]
         /\ state' = state \/ state' = [state EXCEPT ![c] = "raised"]
  BY DEF Sequential!Resume
<1>4. SeqType'
  BY <1>1, <1>2, <1>3 DEF SeqType
<1>5. SeqPaused'
  BY <1>1, <1>2, <1>3 DEF SeqType, SeqPaused
<1>6. SeqLastInv'
  BY <1>1, <1>2, <1>3 DEF SeqType, SeqLastInv
<1>7. SequentialCounts'
  <2>1. 1 <= ran[c] /\ ran[c] <= size[c] /\ ran[c] \in Nat /\ size[c] \in Nat
    BY <1>1, <1>2 DEF SeqType, SeqPaused
  <2>2. ~(last < c) /\ last \in Int /\ c \in Int /\ completed \in Nat
    BY <1>1, <1>2 DEF SeqType, SeqLastInv
  <2>3. CASE c = last
    <3>1. Sequential!Own(c)' = Sequential!Own(c) + 1
      BY <1>1, <1>2, <1>3, <2>1 DEF SeqType, Sequential!Own
    <3>2. Sequential!Own(c) \in Int /\ c # 0
      BY <1>2, <2>1 DEF Sequential!Own
    <3>3. completed >= Sequential!Own(c) /\ (~mixed => completed = Sequential!Own(c))
      BY <1>1, <2>3, <3>2 DEF SequentialCounts, Sequential!SequentialCounts
    <3> QED
      BY <1>2, <2>2, <2>3, <3>1, <3>2, <3>3
      DEF SequentialCounts, Sequential!SequentialCounts
  <2>4. CASE c # last /\ last # 0
    <3>1. c < last /\ last \in SeqCalls
      BY <1>1, <2>2, <2>4 DEF SeqType
    <3>2. mixed
      BY <1>1, <1>2, <3>1 DEF SeqLastInv
    <3>3. Sequential!Own(last)' = Sequential!Own(last) /\ Sequential!Own(last) \in Int
      BY <1>1, <1>2, <1>3, <2>4, <3>1 DEF SeqType, Sequential!Own
    <3>4. completed >= Sequential!Own(last)
      BY <1>1, <2>4 DEF SequentialCounts, Sequential!SequentialCounts
    <3> QED
      BY <1>2, <2>2, <3>2, <3>3, <3>4 DEF SequentialCounts, Sequential!SequentialCounts
  <2> QED
    BY <1>2, <2>2, <2>3, <2>4 DEF SequentialCounts, Sequential!SequentialCounts
<1> QED
  BY <1>4, <1>5, <1>6, <1>7 DEF SeqInv

(***************************************************************************)
(* With one job, _n_completed_tasks is what the caller of the last call    *)
(* went past, for any number of calls and tasks, and any task that raises: *)
(* a call that starts alone resets the counter, and only its own generator *)
(* counts.  Generators that alternate only add to it.                      *)
(***************************************************************************)
THEOREM SequentialCallCounts == Spec => []SequentialCounts
<1>1. SeqInv => SequentialCounts
  BY DEF SeqInv
<1>2. SeqInv /\ [Next]_vars => SeqInv'
  <2> SUFFICES ASSUME SeqInv, [Next]_vars PROVE SeqInv'
    OBVIOUS
  <2>1. CASE UNCHANGED seqVars
    BY <2>1 DEF seqVars, SeqInv, SeqType, SeqPaused, SeqLastInv,
       SequentialCounts, Sequential!SequentialCounts, Sequential!Own
  <2>2. CASE Sequential!Next
    BY <2>2, SeqInvCall, SeqInvResume DEF Sequential!Next
  <2> QED
    BY <2>1, <2>2 DEF Next, vars
<1> QED
  BY <1>1, <1>2, SeqInvInit, PTL DEF Spec

-----------------------------------------------------------------------------
(***************************************************************************)
(* The log files.  Only the run that started last may still be at work, if *)
(* runs do not overlap, and Kept says what it has done to the files of the *)
(* two runs before it.                                                     *)
(***************************************************************************)
LogSteps == {"new", "move", "copy", "open", "header", "logging", "ended"} \X (0..8)

LogType ==
    /\ files \in [Log!Files -> SUBSET (Nat \X Nat)]
    /\ step \in [Runs -> LogSteps] /\ lines \in [Runs -> Nat]

LogOrder == \A r, q \in Runs : q < r /\ step[r][1] # "new" => step[q][1] # "new"

LogAlone == ~overlap =>
    \A r, q \in Runs : q < r /\ step[r][1] # "new" => step[q][1] = "ended"

LogMoves == \A r \in Runs : step[r][1] = "move" => step[r][2] \in 1..8

LastRun(r) == step[r][1] # "new" /\ \A q \in Runs : r < q => step[q][1] = "new"

\* Where the last run and the one before it are.
InFile(i, r) == r \in Runs => files[i] = Log!LinesOf(r)

Kept(r) ==
    /\ step[r][1] = "move" => InFile(0, r - 1) /\ InFile(step[r][2], r - 2)
    /\ step[r][1] = "copy" => InFile(0, r - 1) /\ InFile(9, r - 2)
    /\ step[r][1] \notin {"new", "move", "copy"} => InFile(1, r - 1) /\ InFile(9, r - 2)
    /\ step[r][1] = "header" => files[0] = {}
    /\ step[r][1] \in {"logging", "ended"} => InFile(0, r)

LogKept == ~overlap => \A r \in Runs : LastRun(r) => Kept(r)

LogInv == LogType /\ LogOrder /\ LogAlone /\ LogMoves /\ LogKept

\* The lines of a run are not what an absent file holds.
LEMMA LinesPresent ==
  ASSUME NEW r \in Runs PROVE Log!LinesOf(r) # Log!Absent
<1>1. <<0, 0>> \in Log!Absent
  BY DEF Log!Absent
<1>2. <<0, 0>> \notin Log!LinesOf(r)
  BY RunsAssumption DEF Log!LinesOf
<1> QED
  BY <1>1, <1>2

LEMMA LogInvInit == Init => LogInv
<1> SUFFICES ASSUME Init PROVE LogInv
  OBVIOUS
<1>1. /\ files = [i \in Log!Files |-> Log!Absent]
      /\ step = [r \in Runs |-> <<"new", 0>>] /\ lines = [r \in Runs |-> 0]
  BY DEF Init, Log!Init
<1>2. LogType
  BY <1>1 DEF LogType, LogSteps, Log!Absent
<1>3. \A r \in Runs : step[r][1] = "new"
  BY <1>1
<1> QED
  BY <1>2, <1>3 DEF LogInv, LogOrder, LogAlone, LogMoves, LogKept, LastRun

(***************************************************************************)
(* A run that goes on keeps the order, and is the last one if runs do not  *)
(* overlap.                                                                *)
(***************************************************************************)
LEMMA LogGoesOn ==
  ASSUME LogInv, NEW r \in Runs, NEW s \in LogSteps,
         step[r][1] \notin {"new", "ended"}, s[1] # "new",
         s[1] = "move" => s[2] \in 1..8,
         step' = [step EXCEPT ![r] = s], overlap' = overlap
  PROVE  /\ step' \in [Runs -> LogSteps] /\ step'[r] = s
         /\ LogOrder' /\ LogAlone' /\ LogMoves'
         /\ ~overlap => LastRun(r) /\ \A q \in Runs : LastRun(q)' => q = r
<1> USE RunsAssumption
<1>1. step \in [Runs -> LogSteps] /\ step'[r] = s /\ \A q \in Runs : q # r => step'[q] = step[q]
  BY DEF LogInv, LogType
<1>2. step' \in [Runs -> LogSteps]
  BY <1>1
<1>3. LogOrder' /\ LogMoves'
  BY <1>1 DEF LogInv, LogOrder, LogMoves
<1>4. ~overlap => \A q \in Runs : r < q => step[q][1] = "new"
  BY DEF LogInv, LogAlone
<1>5. LogAlone'
  BY <1>1, <1>4 DEF LogInv, LogAlone
<1>6. ~overlap => LastRun(r)
  BY <1>4 DEF LastRun
<1>7. ASSUME ~overlap, NEW q \in Runs, LastRun(q)' PROVE q = r
  <2>1. ~(q < r)
    BY <1>1, <1>7 DEF LastRun
  <2>2. ~(r < q)
    BY <1>1, <1>4, <1>7 DEF LastRun
  <2> QED
    BY <2>1, <2>2
<1> QED
  BY <1>1, <1>2, <1>3, <1>5, <1>6, <1>7

LEMMA LogInvStart ==
  ASSUME LogInv, NEW r \in Runs, Log!Start(r)
  PROVE  LogInv'
<1> USE RunsAssumption
<1> DEFINE s == IF files[0] = Log!Absent THEN <<"open", 0>> ELSE <<"move", 1>>
<1>1. /\ step[r][1] = "new" /\ \A q \in Runs : q < r => step[q][1] # "new"
      /\ step' = [step EXCEPT ![r] = s] /\ UNCHANGED <<files, lines>>
      /\ ~overlap' => ~overlap /\ \A q \in Runs : q < r => step[q][1] = "ended"
  BY DEF Log!Start, Log!Goto
<1>2. step \in [Runs -> LogSteps] /\ s \in LogSteps
  BY DEF LogInv, LogType, LogSteps
<1>3. /\ step'[r] = s /\ step'[r][1] \in {"open", "move"}
      /\ step'[r][1] = "move" => step'[r][2] = 1
      /\ \A q \in Runs : q # r => step'[q] = step[q]
  BY <1>1, <1>2
<1>4. LogType'
  BY <1>1, <1>2 DEF LogInv, LogType
<1>5. \A q \in Runs : r < q => step[q][1] = "new"
  BY <1>1 DEF LogInv, LogOrder
<1>6. LogOrder' /\ LogMoves'
  BY <1>1, <1>3, <1>5 DEF LogInv, LogOrder, LogMoves
<1>7. LogAlone'
  BY <1>1, <1>3, <1>5 DEF LogInv, LogAlone
<1>8. ASSUME ~overlap', NEW q \in Runs, LastRun(q)' PROVE Kept(q)'
  <2>1. q = r
    BY <1>1, <1>3, <1>5, <1>8 DEF LastRun
  <2>2. CASE r - 1 \in Runs
    <3>1. LastRun(r - 1) /\ step[r - 1][1] = "ended"
      BY <1>1, <1>5, <1>8, <2>2 DEF LastRun
    <3>2. files[0] = Log!LinesOf(r - 1) /\ InFile(1, r - 2)
      BY <1>1, <1>8, <2>2, <3>1 DEF LogInv, LogKept, Kept, InFile
    <3>3. Log!LinesOf(r - 1) # Log!Absent
      BY <2>2, LinesPresent
    <3>4. step'[r][1] = "move" /\ step'[r][2] = 1
      BY <1>3, <3>2, <3>3
    <3>5. InFile(0, r - 1)' /\ InFile(1, r - 2)'
      BY <1>1, <3>2 DEF InFile, Log!LinesOf
    <3> QED
      BY <2>1, <3>4, <3>5 DEF Kept
  <2>3. CASE r - 1 \notin Runs
    <3>1. r - 2 \notin Runs
      BY <2>3
    <3> QED
      BY <1>3, <2>1, <2>3, <3>1 DEF Kept, InFile
  <2> QED
    BY <2>2, <2>3
<1> QED
  BY <1>4, <1>6, <1>7, <1>8 DEF LogInv, LogKept

LEMMA LogInvMove ==
  ASSUME LogInv, NEW r \in Runs, Log!Move(r)
  PROVE  LogInv'
<1> USE RunsAssumption
<1> DEFINE i == step[r][2]
           s == IF i < 8 THEN <<"move", i + 1>> ELSE <<"copy", 0>>
<1>1. /\ step[r][1] = "move" /\ step' = [step EXCEPT ![r] = s]
      /\ files' = IF files[i] = Log!Absent THEN files
                  ELSE [files EXCEPT ![i + 1] = files[i], ![i] = Log!Absent]
      /\ UNCHANGED <<lines, overlap>>
  BY DEF Log!Move, Log!Goto
<1>2. i \in 1..8
  BY <1>1 DEF LogInv, LogMoves
<1>3. /\ s \in LogSteps /\ s[1] \in {"move", "copy"}
      /\ s[1] = "move" => s[2] = i + 1 /\ s[2] \in 1..8
      /\ s[1] = "copy" => i = 8
  BY <1>2 DEF LogSteps
<1>4. /\ step' \in [Runs -> LogSteps] /\ step'[r] = s
      /\ LogOrder' /\ LogAlone' /\ LogMoves'
      /\ ~overlap => LastRun(r) /\ \A q \in Runs : LastRun(q)' => q = r
  BY <1>1, <1>3, LogGoesOn
<1>5. files \in [Log!Files -> SUBSET (Nat \X Nat)] /\ i \in Log!Files /\ i + 1 \in Log!Files
  BY <1>2 DEF LogInv, LogType, Log!Files
<1>6. LogType'
  BY <1>1, <1>4, <1>5 DEF LogInv, LogType, Log!Absent
<1>7. ASSUME ~overlap PROVE Kept(r)'
  <2>1. InFile(0, r - 1) /\ InFile(i, r - 2)
    BY <1>1, <1>4, <1>7 DEF LogInv, LogKept, Kept
  <2>2. InFile(0, r - 1)'
    <3>1. files'[0] = files[0]
      BY <1>1, <1>2, <1>5 DEF Log!Files
    <3> QED
      BY <1>1, <2>1, <3>1 DEF InFile, Log!LinesOf
  <2>3. r - 2 \in Runs => files'[i + 1] = Log!LinesOf(r - 2)'
    <3> SUFFICES ASSUME r - 2 \in Runs PROVE files'[i + 1] = Log!LinesOf(r - 2)'
      OBVIOUS
    <3>1. files[i] = Log!LinesOf(r - 2) /\ files[i] # Log!Absent
      BY <2>1, LinesPresent DEF InFile
    <3>2. files'[i + 1] = files[i]
      BY <1>1, <1>2, <1>5, <3>1
    <3> QED
      BY <1>1, <3>1, <3>2 DEF Log!LinesOf
  <2>4. CASE s[1] = "move"
    <3>1. step'[r][1] = "move" /\ step'[r][2] = i + 1
      BY <1>3, <1>4, <2>4
    <3> QED
      BY <2>2, <2>3, <3>1 DEF Kept, InFile
  <2>5. CASE s[1] = "copy"
    <3>1. step'[r][1] = "copy" /\ i + 1 = 9
      BY <1>3, <1>4, <2>5
    <3> QED
      BY <2>2, <2>3, <3>1 DEF Kept, InFile
  <2> QED
    BY <1>3, <2>4, <2>5
<1> QED
  BY <1>1, <1>4, <1>6, <1>7 DEF LogInv, LogKept

(***************************************************************************)
(* The steps that write one file, or none: the files of earlier runs stay  *)
(* where they were, and the log holds the lines of its own run.            *)
(***************************************************************************)
LEMMA LogInvWrite ==
  ASSUME LogInv, NEW r \in Runs,
         Log!Copy(r) \/ Log!Open(r) \/ Log!Header(r) \/ Log!Log(r) \/ Log!End(r)
  PROVE  LogInv'
<1> USE RunsAssumption
<1>1. files \in [Log!Files -> SUBSET (Nat \X Nat)] /\ lines \in [Runs -> Nat]
      /\ {0, 1, 9} \subseteq Log!Files /\ step \in [Runs -> LogSteps]
  BY DEF LogInv, LogType, Log!Files
<1>2. ASSUME ~overlap, LastRun(r) PROVE Kept(r)
  BY <1>2 DEF LogInv, LogKept
<1>3. CASE Log!Copy(r)
  <2>1. /\ step[r][1] = "copy" /\ step' = [step EXCEPT ![r] = <<"open", 0>>]
        /\ files' = [files EXCEPT ![1] = files[0]] /\ UNCHANGED <<lines, overlap>>
    BY <1>3 DEF Log!Copy, Log!Goto
  <2>2. <<"open", 0>> \in LogSteps
    BY DEF LogSteps
  <2>3. /\ step' \in [Runs -> LogSteps] /\ step'[r] = <<"open", 0>>
        /\ LogOrder' /\ LogAlone' /\ LogMoves'
        /\ ~overlap => LastRun(r) /\ \A q \in Runs : LastRun(q)' => q = r
    BY <2>1, <2>2, LogGoesOn
  <2>4. LogType'
    BY <1>1, <2>1, <2>3 DEF LogType
  <2>5. files'[1] = files[0] /\ files'[9] = files[9]
    BY <1>1, <2>1
  <2>6. ASSUME ~overlap PROVE Kept(r)'
    BY <1>2, <2>1, <2>3, <2>5, <2>6 DEF Kept, InFile, Log!LinesOf
  <2> QED
    BY <2>1, <2>3, <2>4, <2>6 DEF LogInv, LogKept
<1>4. CASE Log!Open(r)
  <2>1. /\ step[r][1] = "open" /\ step' = [step EXCEPT ![r] = <<"header", 0>>]
        /\ files' = [files EXCEPT ![0] = {}] /\ UNCHANGED <<lines, overlap>>
    BY <1>4 DEF Log!Open, Log!Goto
  <2>2. <<"header", 0>> \in LogSteps
    BY DEF LogSteps
  <2>3. /\ step' \in [Runs -> LogSteps] /\ step'[r] = <<"header", 0>>
        /\ LogOrder' /\ LogAlone' /\ LogMoves'
        /\ ~overlap => LastRun(r) /\ \A q \in Runs : LastRun(q)' => q = r
    BY <2>1, <2>2, LogGoesOn
  <2>4. LogType'
    BY <1>1, <2>1, <2>3 DEF LogType
  <2>5. files'[0] = {} /\ files'[1] = files[1] /\ files'[9] = files[9]
    BY <1>1, <2>1
  <2>6. ASSUME ~overlap PROVE Kept(r)'
    BY <1>2, <2>1, <2>3, <2>5, <2>6 DEF Kept, InFile, Log!LinesOf
  <2> QED
    BY <2>1, <2>3, <2>4, <2>6 DEF LogInv, LogKept
<1>5. CASE Log!Header(r)
  <2>1. /\ step[r][1] = "header" /\ step' = [step EXCEPT ![r] = <<"logging", 0>>]
        /\ lines' = [lines EXCEPT ![r] = 1] /\ UNCHANGED overlap
    BY <1>5 DEF Log!Header, Log!Goto
  <2>2. PICK kept \in SUBSET files[0] : files' = [files EXCEPT ![0] = kept \union {<<r, 1>>}]
    BY <1>5 DEF Log!Header
  <2>3. <<"logging", 0>> \in LogSteps
    BY DEF LogSteps
  <2>4. /\ step' \in [Runs -> LogSteps] /\ step'[r] = <<"logging", 0>>
        /\ LogOrder' /\ LogAlone' /\ LogMoves'
        /\ ~overlap => LastRun(r) /\ \A q \in Runs : LastRun(q)' => q = r
    BY <2>1, <2>3, LogGoesOn
  <2>5. kept \union {<<r, 1>>} \in SUBSET (Nat \X Nat)
    BY <1>1
  <2>6. LogType'
    BY <1>1, <2>1, <2>2, <2>4, <2>5 DEF LogType
  <2>7. /\ files'[0] = kept \union {<<r, 1>>} /\ files'[1] = files[1] /\ files'[9] = files[9]
    BY <1>1, <2>2
  <2>8. ASSUME ~overlap PROVE Kept(r)'
    <3>1. files[0] = {} /\ InFile(1, r - 1) /\ InFile(9, r - 2)
      BY <1>2, <2>1, <2>4, <2>8 DEF Kept
    <3>2. kept = {}
      BY <3>1
    <3>3. InFile(1, r - 1)' /\ InFile(9, r - 2)'
      BY <1>1, <2>1, <2>7, <3>1 DEF InFile, Log!LinesOf
    <3>4. Log!LinesOf(r)' = {<<r, 1>>}
      <4>1. lines'[r] = 1
        BY <1>1, <2>1
      <4> QED
        BY <4>1 DEF Log!LinesOf
    <3>5. InFile(0, r)'
      BY <2>7, <3>2, <3>4 DEF InFile
    <3> QED
      BY <2>4, <3>3, <3>5 DEF Kept
  <2> QED
    BY <2>1, <2>4, <2>6, <2>8 DEF LogInv, LogKept
<1>6. CASE Log!Log(r)
  <2>1. /\ step[r][1] = "logging" /\ step' = step /\ overlap' = overlap
        /\ files' = [files EXCEPT ![0] = @ \union {<<r, lines[r] + 1>>}]
        /\ lines' = [lines EXCEPT ![r] = @ + 1]
    BY <1>6 DEF Log!Log
  <2>2. /\ step[r] \in LogSteps /\ step' = [step EXCEPT ![r] = step[r]]
    BY <1>1, <2>1
  <2>3. /\ LogOrder' /\ LogAlone' /\ LogMoves'
        /\ ~overlap => LastRun(r) /\ \A q \in Runs : LastRun(q)' => q = r
    BY <2>1, <2>2, LogGoesOn
  <2>4. /\ lines' \in [Runs -> Nat] /\ lines'[r] = lines[r] + 1
        /\ \A q \in Runs : q # r => lines'[q] = lines[q]
    BY <1>1, <2>1
  <2>5. files[0] \union {<<r, lines[r] + 1>>} \in SUBSET (Nat \X Nat)
    BY <1>1
  <2>6. LogType'
    BY <1>1, <2>1, <2>4, <2>5 DEF LogType
  <2>7. /\ files'[0] = files[0] \union {<<r, lines[r] + 1>>}
        /\ files'[1] = files[1] /\ files'[9] = files[9]
    BY <1>1, <2>1
  <2>8. ASSUME ~overlap PROVE Kept(r)'
    <3>1. InFile(0, r) /\ InFile(1, r - 1) /\ InFile(9, r - 2)
      BY <1>2, <2>1, <2>3, <2>8 DEF Kept
    <3>2. InFile(1, r - 1)' /\ InFile(9, r - 2)'
      BY <2>4, <2>7, <3>1 DEF InFile, Log!LinesOf
    <3>3. Log!LinesOf(r)' = Log!LinesOf(r) \union {<<r, lines[r] + 1>>}
      <4>1. lines[r] \in Nat
        BY <1>1
      <4>2. 1..(lines[r] + 1) = (1..lines[r]) \union {lines[r] + 1}
        BY <4>1
      <4> QED
        BY <2>4, <4>2 DEF Log!LinesOf
    <3>4. InFile(0, r)'
      BY <2>7, <3>1, <3>3 DEF InFile
    <3> QED
      BY <2>1, <3>2, <3>4 DEF Kept
  <2> QED
    BY <2>1, <2>3, <2>6, <2>8 DEF LogInv, LogKept
<1>7. CASE Log!End(r)
  <2>1. /\ step[r][1] = "logging" /\ step' = [step EXCEPT ![r] = <<"ended", 0>>]
        /\ UNCHANGED <<files, lines, overlap>>
    BY <1>7 DEF Log!End, Log!Goto
  <2>2. <<"ended", 0>> \in LogSteps
    BY DEF LogSteps
  <2>3. /\ step' \in [Runs -> LogSteps] /\ step'[r] = <<"ended", 0>>
        /\ LogOrder' /\ LogAlone' /\ LogMoves'
        /\ ~overlap => LastRun(r) /\ \A q \in Runs : LastRun(q)' => q = r
    BY <2>1, <2>2, LogGoesOn
  <2>4. LogType'
    BY <1>1, <2>1, <2>3 DEF LogType
  <2>5. ASSUME ~overlap PROVE Kept(r)'
    BY <1>2, <2>1, <2>3, <2>5 DEF Kept, InFile, Log!LinesOf
  <2> QED
    BY <2>1, <2>3, <2>4, <2>5 DEF LogInv, LogKept
<1> QED
  BY <1>3, <1>4, <1>5, <1>6, <1>7

(***************************************************************************)
(* A rotation keeps the logs of the last two runs whole, for any number of *)
(* runs that do not overlap and any number of messages: the copy is .1,    *)
(* and the file that was .1 has been carried through all names to .9.      *)
(***************************************************************************)
THEOREM RotationKeepsTwo == Spec => []LastRunsKept
<1> USE RunsAssumption
<1>1. LogInv => LastRunsKept
  <2> SUFFICES ASSUME LogInv, ~overlap, NEW r \in Runs, step[r][1] \in {"logging", "ended"},
                      r + 1 \in Runs => step[r + 1][1] = "new"
               PROVE  InFile(0, r) /\ InFile(1, r - 1) /\ InFile(9, r - 2)
    BY DEF LastRunsKept, Log!LastRunsKept, InFile
  <2>1. ASSUME NEW q \in Runs, r < q PROVE step[q][1] = "new"
    <3>1. r + 1 \in Runs
      <4>1. 1..q \subseteq Runs /\ r + 1 \in 1..q
        BY <2>1
      <4> QED
        BY <4>1
    <3>2. q = r + 1 \/ r + 1 < q
      BY <2>1
    <3> QED
      BY <3>1, <3>2 DEF LogInv, LogOrder
  <2>2. LastRun(r)
    BY <2>1 DEF LastRun
  <2> QED
    BY <2>2 DEF LogInv, LogKept, Kept
<1>2. LogInv /\ [Next]_vars => LogInv'
  <2> SUFFICES ASSUME LogInv, [Next]_vars PROVE LogInv'
    OBVIOUS
  <2>1. CASE UNCHANGED logVars
    BY <2>1 DEF logVars, LogInv, LogType, LogOrder, LogAlone, LogMoves, LogKept, LastRun,
           Kept, InFile, Log!LinesOf
  <2>2. CASE Log!Next
    BY <2>2, LogInvStart, LogInvMove, LogInvWrite DEF Log!Next
  <2> QED
    BY <2>1, <2>2 DEF Next, vars
<1> QED
  BY <1>1, <1>2, LogInvInit, PTL DEF Spec
=============================================================================
