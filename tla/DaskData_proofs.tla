-------------------------- MODULE DaskData_proofs ---------------------------
(***************************************************************************)
(* For any number of objects, addresses and threads: the types, the        *)
(* futures of the backend, and that _WeakKeyDictionary implements          *)
(* ObjectMap.                                                              *)
(***************************************************************************)
EXTENDS DaskData, TLAPS

\* Objects in memory have addresses, each its own; callbacks are owed for the
\* dead, in CPython only for those that are still in memory; nobody refers to
\* an object that is not born yet; who is used by __setitem__ is alive.
IdInv ==
    /\ \A o \in Objects : life[o] # "unborn" => id[o] \in Addresses
    /\ \A o, p \in Objects : InMemory(o) /\ InMemory(p) /\ id[o] = id[p] => o = p
    /\ \A o \in pending : Dead(o) /\ (interpreter = "CPython" => InMemory(o))
    /\ \A a \in Addresses : data[a].ref \in Objects => life[data[a].ref] # "unborn"
    /\ \A t \in Threads : setting[t] # NotSetting =>
          /\ Alive(setting[t].obj) /\ setting[t].val \in Values

\* The backend is either on its way to its futures, or holds what they are of.
FuturesInv ==
    /\ backend # "made" => \A a \in Addresses : data_futures[a] = NoObject
    /\ \A o \in scatter : Alive(o)
    /\ \A a \in Addresses : data_futures[a] # NoObject =>
          data_futures[a] \in scatter /\ id[data_futures[a]] = a

(***************************************************************************)
(* Every variable of the dictionary and of the backend keeps its type, and *)
(* a thread in __setitem__ has a weak reference to the object it sets.     *)
(***************************************************************************)
THEOREM TypeCorrect ==
    ASSUME DaskAssumption
    PROVE  Spec => []TypeOK
<1> USE DEF DaskAssumption
<1> USE DEF TypeOK, Entry, NoEntry, Setting, NotSetting, Alive, Dead, InMemory,
            vars, objectVars, dictVars, backendVars
<1>1. Init => TypeOK
  BY DEF Init
<1>2. TypeOK /\ [Next]_vars => TypeOK'
  <2> SUFFICES ASSUME TypeOK, [Next]_vars PROVE TypeOK'
    OBVIOUS
  <2>1. ASSUME NEW o \in Objects, NEW a \in Addresses, Create(o, a) PROVE TypeOK'
    BY <2>1 DEF Create
  <2>2. ASSUME NEW o \in Objects, Collect(o) PROVE TypeOK'
    BY <2>2 DEF Collect
  <2>3. ASSUME NEW o \in Objects, OnDestroy(o) PROVE TypeOK'
    BY <2>3 DEF OnDestroy
  <2>10. ASSUME NEW o \in Objects, Free(o) PROVE TypeOK'
    BY <2>10 DEF Free
  <2>4. ASSUME NEW t \in Threads, NEW o \in Objects, NEW v \in Values, SetItem(t, o, v)
        PROVE  TypeOK'
    BY <2>4 DEF SetItem, HasEntry
  <2>5. ASSUME NEW t \in Threads, Store(t) PROVE TypeOK'
    BY <2>5 DEF Store
  <2>6. ASSUME NEW S \in SUBSET Objects, Scatter(S) PROVE TypeOK'
    BY <2>6 DEF Scatter
  <2>7. ASSUME MapFutures PROVE TypeOK'
    BY <2>7 DEF MapFutures, FuturesOf
  <2>8. ASSUME DropBackend PROVE TypeOK'
    BY <2>8 DEF DropBackend
  <2>9. CASE UNCHANGED vars
    BY <2>9
  <2> QED
    BY <2>1, <2>2, <2>3, <2>4, <2>5, <2>6, <2>7, <2>8, <2>9, <2>10 DEF Next
<1> QED
  BY <1>1, <1>2, PTL DEF Spec

LEMMA IdsInvariant ==
    ASSUME DaskAssumption
    PROVE  Spec => [](TypeOK /\ IdInv)
<1> USE DEF DaskAssumption
<1> USE DEF TypeOK, IdInv, Entry, NoEntry, Setting, NotSetting, Alive, Dead, InMemory,
            vars, objectVars, dictVars, backendVars
<1>1. Init => IdInv
  BY DEF Init
<1>2. TypeOK /\ TypeOK' /\ IdInv /\ [Next]_vars => IdInv'
  <2> SUFFICES ASSUME TypeOK, TypeOK', IdInv, [Next]_vars PROVE IdInv'
    OBVIOUS
  <2>1. ASSUME NEW o \in Objects, NEW a \in Addresses, Create(o, a) PROVE IdInv'
    BY <2>1 DEF Create
  <2>2. ASSUME NEW o \in Objects, Collect(o) PROVE IdInv'
    BY <2>2 DEF Collect
  <2>3. ASSUME NEW o \in Objects, OnDestroy(o) PROVE IdInv'
    BY <2>3 DEF OnDestroy
  <2>10. ASSUME NEW o \in Objects, Free(o) PROVE IdInv'
    BY <2>10 DEF Free
  <2>4. ASSUME NEW t \in Threads, NEW o \in Objects, NEW v \in Values, SetItem(t, o, v)
        PROVE  IdInv'
    BY <2>4 DEF SetItem, HasEntry
  <2>5. ASSUME NEW t \in Threads, Store(t) PROVE IdInv'
    BY <2>5 DEF Store
  <2>6. CASE \/ \E S \in SUBSET Objects : Scatter(S)
             \/ MapFutures \/ DropBackend \/ UNCHANGED vars
    BY <2>6 DEF Scatter, MapFutures, DropBackend
  <2> QED
    BY <2>1, <2>2, <2>3, <2>4, <2>5, <2>6, <2>10 DEF Next
<1> QED
  BY <1>1, <1>2, TypeCorrect, PTL DEF Spec

(***************************************************************************)
(* The futures of the backend are those of live objects: what a look-up by *)
(* id finds in data_futures belongs to the object that has this id.        *)
(***************************************************************************)
THEOREM FuturesStayRight ==
    ASSUME DaskAssumption
    PROVE  Spec => []FuturesOfLiveObjects
<1> USE DEF DaskAssumption
<1> USE DEF TypeOK, IdInv, FuturesInv, Alive, Dead, InMemory,
            vars, objectVars, dictVars, backendVars
<1>1. Init => FuturesInv
  BY DEF Init
<1>2. TypeOK /\ IdInv /\ FuturesInv /\ [Next]_vars => FuturesInv'
  <2> SUFFICES ASSUME TypeOK, IdInv, FuturesInv, [Next]_vars PROVE FuturesInv'
    OBVIOUS
  <2>1. ASSUME NEW o \in Objects, NEW a \in Addresses, Create(o, a) PROVE FuturesInv'
    BY <2>1 DEF Create
  <2>2. ASSUME NEW o \in Objects, Collect(o) PROVE FuturesInv'
    BY <2>2 DEF Collect
  <2>3. ASSUME NEW S \in SUBSET Objects, Scatter(S) PROVE FuturesInv'
    BY <2>3 DEF Scatter
  <2>4. ASSUME MapFutures PROVE FuturesInv'
    BY <2>4 DEF MapFutures, FuturesOf
  <2>5. ASSUME DropBackend PROVE FuturesInv'
    BY <2>5 DEF DropBackend
  <2>6. CASE \/ \E o \in Objects : OnDestroy(o)
             \/ \E t \in Threads : \/ \E o \in Objects, v \in Values : SetItem(t, o, v)
                                   \/ Store(t)
             \/ UNCHANGED vars
    BY <2>6 DEF OnDestroy, SetItem, Store
  <2>7. ASSUME NEW o \in Objects, Free(o) PROVE FuturesInv'
    BY <2>7 DEF Free
  <2> QED
    BY <2>1, <2>2, <2>3, <2>4, <2>5, <2>6, <2>7 DEF Next
<1>3. TypeOK /\ FuturesInv => FuturesOfLiveObjects
  BY DEF FuturesOfLiveObjects
<1> QED
  BY <1>1, <1>2, <1>3, IdsInvariant, PTL DEF Spec

-----------------------------------------------------------------------------
(***************************************************************************)
(* _WeakKeyDictionary implements the map from live objects to the values   *)
(* last set, whatever ids are reused and whenever callbacks come.          *)
(***************************************************************************)
THEOREM DictionaryIsMap ==
    ASSUME DaskAssumption
    PROVE  Spec => IsMapOfObjects
<1> USE DEF DaskAssumption
<1> USE DEF TypeOK, IdInv, Entry, NoEntry, Setting, NotSetting, Alive, Dead, InMemory,
            HasEntry, GetItem
<1>1. Init => Map!Init
  BY DEF Init, Map!Init
<1>2. TypeOK /\ TypeOK' /\ IdInv /\ IdInv' /\ [Next]_vars => [Map!Next]_(Map!vars)
  <2> SUFFICES ASSUME TypeOK, TypeOK', IdInv, IdInv', [Next]_vars
               PROVE  [Map!Next]_(Map!vars)
    OBVIOUS
  <2> USE DEF objectVars, dictVars, backendVars, Map!vars
  <2> DEFINE L == [p \in Objects |-> IF Dead(p) THEN "dead" ELSE life[p]]
             S == [p \in Objects |-> IF Alive(p) THEN GetItem(p) ELSE NoValue]
  <2>1. ASSUME NEW o \in Objects, NEW a \in Addresses, Create(o, a)
        PROVE  Map!Create(o)
    <3>1. L[o] = "unborn" /\ L' = [L EXCEPT ![o] = "alive"] /\ interpreter' = interpreter
      <4>1. /\ life \in [Objects -> {"unborn", "alive", "dying", "dead"}]
            /\ life[o] = "unborn" /\ life' = [life EXCEPT ![o] = "alive"]
            /\ interpreter' = interpreter
        BY <2>1 DEF Create
      <4>2. L[o] = "unborn"
        BY <4>1
      <4>3. \A p \in Objects : L'[p] = [L EXCEPT ![o] = "alive"][p]
        BY <4>1
      <4>4. L' = [L EXCEPT ![o] = "alive"]
        BY <4>3
      <4> QED
        BY <4>1, <4>2, <4>4
    <3>2. GetItem(o)' = NoValue
      BY <2>1 DEF Create
    <3>3. ASSUME NEW p \in Objects, p # o PROVE S'[p] = S[p]
      BY <2>1, <3>3 DEF Create
    <3>4. S'[o] = S[o]
      BY <2>1, <3>2 DEF Create
    <3>5. S' = S
      BY <3>3, <3>4
    <3> HIDE DEF L, S
    <3> QED
      BY <3>1, <3>5 DEF Map!Create, L, S
  <2>2. ASSUME NEW o \in Objects, Collect(o) PROVE Map!Die(o)
    <3>1. L[o] = "alive" /\ L' = [L EXCEPT ![o] = "dead"] /\ interpreter' = interpreter
      <4>1. /\ life \in [Objects -> {"unborn", "alive", "dying", "dead"}]
            /\ life[o] = "alive" /\ life' = [life EXCEPT ![o] = "dying"]
            /\ interpreter' = interpreter
        BY <2>2 DEF Collect
      <4>2. L[o] = "alive"
        BY <4>1
      <4>3. \A p \in Objects : L'[p] = [L EXCEPT ![o] = "dead"][p]
        BY <4>1
      <4>4. L' = [L EXCEPT ![o] = "dead"]
        BY <4>3
      <4> QED
        BY <4>1, <4>2, <4>4
    <3>2. S' = [S EXCEPT ![o] = NoValue]
      BY <2>2 DEF Collect
    <3> HIDE DEF L, S
    <3> QED
      BY <3>1, <3>2 DEF Map!Die, L, S
  <2>3. ASSUME NEW o \in Objects, OnDestroy(o)
        PROVE  UNCHANGED Map!vars \/ \E p \in Objects : Map!Forget(p)
    <3>1. o \in Objects /\ id[o] \in Addresses /\ Dead(o)
          /\ data' = [data EXCEPT ![id[o]] = NoEntry] /\ UNCHANGED <<interpreter, life, id>>
      BY <2>3 DEF OnDestroy
    <3>2. ASSUME NEW p \in Objects, id[p] # id[o] PROVE GetItem(p)' = GetItem(p)
      BY <3>1, <3>2
    <3>3. ASSUME NEW p \in Objects, Alive(p), id[p] = id[o] PROVE GetItem(p)' = NoValue
      BY <3>1, <3>3
    <3>4. CASE \E p \in Objects : Alive(p) /\ id[p] = id[o]
      <4>1. PICK p \in Objects : Alive(p) /\ id[p] = id[o]
        BY <3>4
      <4>2. interpreter = "PyPy"
        BY <2>3, <3>1, <4>1 DEF OnDestroy
      <4>3. \A q \in Objects : Alive(q) /\ id[q] = id[o] => q = p
        BY <4>1
      <4>4. S' = [S EXCEPT ![p] = NoValue]
        <5>1. ASSUME NEW q \in Objects PROVE S'[q] = [S EXCEPT ![p] = NoValue][q]
          <6>1. Alive(q)' = Alive(q)
            BY <3>1
          <6>2. CASE q = p
            BY <6>1, <6>2, <3>3, <4>1
          <6>3. CASE q # p /\ Alive(q)
            <7>1. GetItem(q)' = GetItem(q)
              BY <3>2, <4>3, <6>3
            <7> HIDE DEF GetItem
            <7> QED
              BY <6>1, <6>3, <7>1
          <6>4. CASE q # p /\ ~Alive(q)
            <7> HIDE DEF GetItem
            <7> QED
              BY <6>1, <6>4
          <6> QED
            BY <6>2, <6>3, <6>4
        <5> QED
          BY <5>1
      <4> HIDE DEF S
      <4>5. Map!Forget(p)
        BY <3>1, <4>2, <4>4 DEF Map!Forget, S
      <4> QED
        BY <4>5
    <3>5. CASE \A p \in Objects : Alive(p) => id[p] # id[o]
      BY <3>1, <3>2, <3>5
    <3> QED
      BY <3>4, <3>5
  <2>10. ASSUME NEW o \in Objects, Free(o) PROVE UNCHANGED Map!vars
    BY <2>10 DEF Free
  <2>4. ASSUME NEW t \in Threads, Store(t)
        PROVE  \E o \in Objects, v \in Values : Map!SetValue(o, v)
    <3>1. PICK o \in Objects, v \in Values :
             /\ o = setting[t].obj /\ v = setting[t].val
             /\ Alive(o) /\ id[o] \in Addresses /\ setting[t].ref = o
      BY <2>4 DEF Store
    <3>2. data' = [data EXCEPT ![id[o]] = [ref |-> o, val |-> v]]
      BY <2>4, <3>1 DEF Store
    <3>3. UNCHANGED <<life, id, interpreter>>
      BY <2>4 DEF Store
    <3>4. Alive(o)' /\ GetItem(o)' = v
      <4>1. data'[id[o]] = [ref |-> o, val |-> v]
        BY <3>1, <3>2
      <4>2. o # NoObject
        BY <3>1, DaskAssumption
      <4>3. life' = life /\ id' = id
        BY <3>3
      <4> QED
        BY <3>1, <4>1, <4>2, <4>3
    <3>5. ASSUME NEW p \in Objects, p # o, Alive(p)
          PROVE  Alive(p)' /\ GetItem(p)' = GetItem(p)
      <4>1. id[p] \in Addresses /\ id[p] # id[o]
        BY <3>1, <3>5
      <4> QED
        BY <3>2, <3>3, <3>5, <4>1
    <3>6. ASSUME NEW p \in Objects, ~Alive(p) PROVE ~Alive(p)'
      BY <3>3, <3>6
    <3>7. S' = [S EXCEPT ![o] = v]
      <4>1. o \in Objects
        BY <3>1
      <4>2. ASSUME NEW p \in Objects PROVE S'[p] = [S EXCEPT ![o] = v][p]
        <5>1. CASE p = o
          BY <5>1, <3>4, <4>1 DEF GetItem
        <5>2. CASE p # o /\ Alive(p)
          BY <5>2, <3>5
        <5>3. CASE p # o /\ ~Alive(p)
          BY <5>3, <3>6
        <5> QED
          BY <5>1, <5>2, <5>3
      <4> QED
        BY <4>2
    <3>8. life[o] = "alive"
      BY <3>1
    <3>9. life' = life /\ interpreter' = interpreter
      BY <3>3
    <3> HIDE DEF S
    <3>10. Map!SetValue(o, v)
      BY <3>7, <3>8, <3>9 DEF Map!SetValue, S
    <3> QED
      BY <3>10
  <2>5. CASE \/ \E t \in Threads, o \in Objects, v \in Values : SetItem(t, o, v)
             \/ \E X \in SUBSET Objects : Scatter(X)
             \/ MapFutures \/ DropBackend \/ UNCHANGED vars
    BY <2>5 DEF SetItem, Scatter, MapFutures, DropBackend, vars
  <2>6. CASE Next
    <3>1. CASE \E o \in Objects, a \in Addresses : Create(o, a)
      BY <2>1, <3>1 DEF Map!Next
    <3>2. CASE \E o \in Objects : Collect(o)
      BY <2>2, <3>2 DEF Map!Next
    <3>3. CASE \E o \in Objects : OnDestroy(o) \/ Free(o)
      BY <2>3, <2>10, <3>3 DEF Map!Next
    <3>4. CASE \E t \in Threads : Store(t)
      <4>1. \E o \in Objects, v \in Values : Map!SetValue(o, v)
        BY <2>4, <3>4
      <4> QED
        BY <4>1 DEF Map!Next
    <3> QED
      BY <2>5, <2>6, <3>1, <3>2, <3>3, <3>4 DEF Next
  <2> QED
    BY <2>5, <2>6
<1> QED
  BY <1>1, <1>2, IdsInvariant, PTL DEF Spec, IsMapOfObjects, Map!Spec
=============================================================================
