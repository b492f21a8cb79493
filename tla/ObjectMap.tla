----------------------------- MODULE ObjectMap ------------------------------
(***************************************************************************)
(* What _WeakKeyDictionary promises: a value for each object, by identity, *)
(* for as long as the object lives.  A forgetful map may lose a value, but *)
(* has never one that was not set for this object.                         *)
(***************************************************************************)
CONSTANTS Objects, Values, NoValue

VARIABLES life,      \* "unborn", "alive" or "dead"
          store,     \* the value last set for each object
          forgetful  \* whether this map is, chosen once

vars == <<life, store, forgetful>>

Init == /\ life = [o \in Objects |-> "unborn"]
        /\ store = [o \in Objects |-> NoValue]
        /\ forgetful \in BOOLEAN

Create(o) == /\ life[o] = "unborn"
             /\ life' = [life EXCEPT ![o] = "alive"]
             /\ UNCHANGED <<store, forgetful>>

Die(o) == /\ life[o] = "alive"
          /\ life' = [life EXCEPT ![o] = "dead"]
          /\ store' = [store EXCEPT ![o] = NoValue]
          /\ UNCHANGED forgetful

SetValue(o, v) == /\ life[o] = "alive"
                  /\ store' = [store EXCEPT ![o] = v]
                  /\ UNCHANGED <<life, forgetful>>

Forget(o) == /\ forgetful
             /\ store' = [store EXCEPT ![o] = NoValue]
             /\ UNCHANGED <<life, forgetful>>

Next == \E o \in Objects :
           Create(o) \/ Die(o) \/ Forget(o) \/ \E v \in Values : SetValue(o, v)

Spec == Init /\ [][Next]_vars
=============================================================================
