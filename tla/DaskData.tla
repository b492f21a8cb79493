------------------------------ MODULE DaskData ------------------------------
(***************************************************************************)
(* Objects the dask backend knows by their id(): _WeakKeyDictionary, which *)
(* holds its keys weakly, and data_futures of DaskDistributedBackend,      *)
(* which maps the ids of scattered data to futures.                        *)
(*                                                                         *)
(* The id of an object is its address, which is free for another object    *)
(* when its memory is freed.  When an object dies, the interpreter owes a  *)
(* call to the callback of the weak reference the dictionary holds to it:  *)
(* CPython calls it before it frees the memory, PyPy, on which joblib is   *)
(* tested too, at any time later.                                          *)
(***************************************************************************)
EXTENDS Integers, FiniteSets

CONSTANTS Objects,     \* data objects, each created at most once
          Addresses,   \* what id() returns
          Values,      \* values of the dictionary
          Threads,     \* threads that use the dictionary
          NoValue, NoObject, NoAddress

\* A module that instantiates this one assumes it.
DaskAssumption ==
    NoValue \notin Values /\ NoObject \notin Objects /\ NoAddress \notin Addresses

VARIABLES
  interpreter,  \* "CPython" or "PyPy", chosen once
  life,         \* "unborn", "alive", "dying" (its memory not freed) or "dead"
  id,           \* the address of each object, also after its death
  pending,      \* dead objects whose callback the interpreter owes
  data,         \* _data: for each key a weak reference and a value
  setting,      \* __setitem__ of each thread, between its read and its write
  scatter,      \* _scatter: the objects the backend holds
  data_futures, \* for each key the object whose future it is
  backend       \* "none", "scattering", "made" or "dropped"

vars == <<interpreter, life, id, pending, data, setting, scatter, data_futures, backend>>

objectVars == <<interpreter, life, id, pending>>
dictVars == <<data, setting>>
backendVars == <<scatter, data_futures, backend>>

Entry == [ref : Objects \union {NoObject}, val : Values \union {NoValue}]
NoEntry == [ref |-> NoObject, val |-> NoValue]

Setting == [obj : Objects \union {NoObject}, ref : Objects \union {NoObject},
            val : Values \union {NoValue}]
NotSetting == [obj |-> NoObject, ref |-> NoObject, val |-> NoValue]

TypeOK ==
    /\ interpreter \in {"CPython", "PyPy"}
    /\ life \in [Objects -> {"unborn", "alive", "dying", "dead"}]
    /\ id \in [Objects -> Addresses \union {NoAddress}]
    /\ pending \subseteq Objects
    /\ data \in [Addresses -> Entry]
    /\ setting \in [Threads -> Setting] /\ \A t \in Threads : setting[t].ref = setting[t].obj
    /\ scatter \subseteq Objects
    /\ data_futures \in [Addresses -> Objects \union {NoObject}]
    /\ backend \in {"none", "scattering", "made", "dropped"}

Init ==
    /\ interpreter \in {"CPython", "PyPy"} /\ pending = {}
    /\ life = [o \in Objects |-> "unborn"]
    /\ id = [o \in Objects |-> NoAddress]
    /\ data = [a \in Addresses |-> NoEntry]
    /\ setting = [t \in Threads |-> NotSetting]
    /\ scatter = {} /\ data_futures = [a \in Addresses |-> NoObject]
    /\ backend = "none"

Alive(o) == o \in Objects /\ life[o] = "alive"

Dead(o) == life[o] \in {"dying", "dead"}
InMemory(o) == life[o] \in {"alive", "dying"}

\* self._data[id(obj)], where ref() is None for a dead object.
HasEntry(o) == data[id[o]] # NoEntry

GetItemUntested(o) == IF HasEntry(o) THEN data[id[o]].val ELSE NoValue   \* mutant

GetItem(o) == IF HasEntry(o) /\ data[id[o]].ref = o THEN data[id[o]].val ELSE NoValue

-----------------------------------------------------------------------------
(* The interpreter: objects come and go, weak references call back.         *)

Create(o, a) ==
    /\ life[o] = "unborn" /\ \A p \in Objects : InMemory(p) => id[p] # a
    /\ life' = [life EXCEPT ![o] = "alive"]
    /\ id' = [id EXCEPT ![o] = a]
    /\ UNCHANGED <<interpreter, pending, dictVars, backendVars>>

\* An object dies when nobody holds it: no __setitem__ that runs, no backend.
Collect(o) ==
    /\ life[o] = "alive" /\ o \notin scatter
    /\ \A t \in Threads : setting[t].obj # o
    /\ life' = [life EXCEPT ![o] = "dying"]
    /\ pending' = IF data[id[o]].ref = o THEN pending \union {o} ELSE pending
    /\ UNCHANGED <<interpreter, id, dictVars, backendVars>>

\* The memory of a dead object is freed.
Free(o) ==
    /\ life[o] = "dying" /\ (interpreter = "CPython" => o \notin pending)
    /\ life' = [life EXCEPT ![o] = "dead"]
    /\ UNCHANGED <<interpreter, id, pending, dictVars, backendVars>>

\* on_destroy, the callback of the weak reference to o: it deletes what is
\* at its key, whose ever it is (a KeyError if there is nothing, ignored).
OnDestroy(o) ==
    /\ o \in pending
    /\ data' = [data EXCEPT ![id[o]] = NoEntry]
    /\ pending' = pending \ {o}
    /\ UNCHANGED <<interpreter, life, id, setting, backendVars>>

-----------------------------------------------------------------------------
(* _WeakKeyDictionary.__setitem__                                           *)

\* It takes the weak reference of the entry if that is to obj, or a new one.
SetItemKeepingRef(t, o, v) ==   \* mutant: any entry at this key will do
    /\ setting[t] = NotSetting /\ Alive(o)
    /\ LET ref == IF data[id[o]] # NoEntry THEN data[id[o]].ref ELSE o
       IN setting' = [setting EXCEPT ![t] = [obj |-> o, ref |-> ref, val |-> v]]
    /\ UNCHANGED <<objectVars, data, backendVars>>

SetItem(t, o, v) ==
    /\ setting[t] = NotSetting /\ Alive(o)
    /\ LET ref == IF HasEntry(o) /\ data[id[o]].ref = o THEN data[id[o]].ref ELSE o
       IN setting' = [setting EXCEPT ![t] = [obj |-> o, ref |-> ref, val |-> v]]
    /\ UNCHANGED <<objectVars, data, backendVars>>

Store(t) ==
    /\ setting[t] # NotSetting
    /\ data' = [data EXCEPT ![id[setting[t].obj]] =
                   [ref |-> setting[t].ref, val |-> setting[t].val]]
    /\ setting' = [setting EXCEPT ![t] = NotSetting]
    /\ UNCHANGED <<objectVars, backendVars>>

-----------------------------------------------------------------------------
(* DaskDistributedBackend.__init__ and its end                              *)

\* It copies the list, and with it a reference to each object; then
\* client.scatter() takes its time.
Scatter(S) ==
    /\ backend = "none" /\ S # {} /\ \A o \in S : Alive(o)
    /\ scatter' = S /\ backend' = "scattering"
    /\ UNCHANGED <<objectVars, dictVars, data_futures>>

FuturesOf(S) == [a \in Addresses |->
    IF \E o \in S : id[o] = a THEN CHOOSE o \in S : id[o] = a ELSE NoObject]

MapFuturesUnheld ==   \* mutant: the backend keeps the ids, not the objects
    /\ backend = "scattering"
    /\ data_futures' = FuturesOf(scatter) /\ scatter' = {} /\ backend' = "made"
    /\ UNCHANGED <<objectVars, dictVars>>

MapFutures ==
    /\ backend = "scattering"
    /\ data_futures' = FuturesOf(scatter) /\ backend' = "made"
    /\ UNCHANGED <<objectVars, dictVars, scatter>>

\* client.scatter() raises, or the backend is collected later.
DropBackend ==
    /\ backend \in {"scattering", "made"}
    /\ scatter' = {} /\ data_futures' = [a \in Addresses |-> NoObject]
    /\ backend' = "dropped"
    /\ UNCHANGED <<objectVars, dictVars>>

-----------------------------------------------------------------------------
Next == \/ \E o \in Objects, a \in Addresses : Create(o, a)
        \/ \E o \in Objects : Collect(o) \/ Free(o) \/ OnDestroy(o)
        \/ \E t \in Threads : \/ \E o \in Objects, v \in Values : SetItem(t, o, v)
                              \/ Store(t)
        \/ \E S \in SUBSET Objects : Scatter(S)
        \/ MapFutures \/ DropBackend

Spec == Init /\ [][Next]_vars

-----------------------------------------------------------------------------
(***************************************************************************)
(* _WeakKeyDictionary is a map from live objects, by identity: an object   *)
(* that got the id of a dead one never has its value, and a look-up        *)
(* returns what was last set for the object, whichever threads set it.     *)
(* Where callbacks come before addresses are used again that is all; where *)
(* they may come later, one can delete the entry of another object, which  *)
(* is then forgotten.                                                      *)
(***************************************************************************)
Map == INSTANCE ObjectMap
    WITH life <- [o \in Objects |-> IF Dead(o) THEN "dead" ELSE life[o]],
         store <- [o \in Objects |-> IF Alive(o) THEN GetItem(o) ELSE NoValue],
         forgetful <- (interpreter = "PyPy")

IsMapOfObjects == Map!Spec

(***************************************************************************)
(* While the backend lives, the future found under the id of an object is  *)
(* the future of that very object (data_futures), because the backend      *)
(* holds what it has scattered.                                            *)
(***************************************************************************)
FuturesOfLiveObjects ==
    \A a \in Addresses : data_futures[a] # NoObject =>
        Alive(data_futures[a]) /\ id[data_futures[a]] = a
=============================================================================
