-------------------------- MODULE SemLocks_proofs ---------------------------
(***************************************************************************)
(* Theorems about SemLocks, for every number of processes, of names, and   *)
(* of names that are drawn before a SemLock gives up.                      *)
(***************************************************************************)
EXTENDS SemLocks, TLAPS

\* The names that the processes hold.
HoldersType ==
    /\ created \in [Processes -> SUBSET SemNames]
    /\ partial \in [Processes -> SUBSET SemNames]
    /\ owned \in [Processes -> SUBSET SemNames]
    /\ alive \in [Processes -> BOOLEAN]

LEMMA HoldersTyped == Spec => []HoldersType
<1>1. Init => HoldersType
  BY DEF Init, HoldersType
<1>2. HoldersType /\ [Next]_vars => HoldersType'
  <2> SUFFICES ASSUME HoldersType, [Next]_vars PROVE HoldersType'
    OBVIOUS
  <2> USE DEF HoldersType
  <2>1. ASSUME NEW p \in Processes, NEW n \in SemNames, Draw(p, n) \/ CreateNamed(p, n)
        PROVE  HoldersType'
    BY <2>1 DEF Draw, CreateNamed
  <2>2. ASSUME NEW p \in Processes, Register(p) PROVE HoldersType'
    BY <2>2 DEF Register, Names
  <2>3. ASSUME NEW p \in Processes, GiveUp(p) PROVE HoldersType'
    BY <2>3 DEF GiveUp
  <2>4. ASSUME NEW p \in Processes, NEW n \in SemNames, Cleanup(p, n) PROVE HoldersType'
    BY <2>4 DEF Cleanup
  <2>5. CASE \/ \E p \in Processes :
                  Construct(p, 1) \/ Construct(p, ConditionSize) \/ Crash(p)
             \/ TrackerExits \/ UNCHANGED vars
    BY <2>5 DEF Construct, Crash, TrackerExits, vars
  <2> QED
    BY <2>1, <2>2, <2>3, <2>4, <2>5 DEF Next
<1> QED
  BY <1>1, <1>2, PTL DEF Spec

-----------------------------------------------------------------------------
(***************************************************************************)
(* No two SemLocks in use share a semaphore, and all of them exist.        *)
(***************************************************************************)
THEOREM NoSharedSemaphore == Spec => []SemaphoresDistinct
<1> USE DEF Names
<1>1. Init => SemaphoresDistinct
  BY DEF Init, SemaphoresDistinct
<1>2. HoldersType /\ SemaphoresDistinct /\ [Next]_vars => SemaphoresDistinct'
  <2> SUFFICES ASSUME HoldersType, SemaphoresDistinct, [Next]_vars
               PROVE  SemaphoresDistinct'
    OBVIOUS
  <2> USE DEF HoldersType, SemaphoresDistinct
  <2>1. ASSUME NEW p \in Processes, NEW n \in SemNames, Draw(p, n) \/ CreateNamed(p, n)
        PROVE  SemaphoresDistinct'
    BY <2>1 DEF Draw, CreateNamed
  <2>2. ASSUME NEW p \in Processes, Register(p) PROVE SemaphoresDistinct'
    <3>1. CASE left[p] = 1
      BY <2>2, <3>1 DEF Register
    <3>2. CASE left[p] # 1
      BY <2>2, <3>2 DEF Register
    <3> QED
      BY <3>1, <3>2
  <2>3. ASSUME NEW p \in Processes, GiveUp(p) PROVE SemaphoresDistinct'
    BY <2>3 DEF GiveUp
  <2>4. ASSUME NEW p \in Processes, NEW n \in SemNames, Cleanup(p, n)
        PROVE  SemaphoresDistinct'
    BY <2>4 DEF Cleanup
  <2>5. ASSUME NEW p \in Processes, Crash(p) PROVE SemaphoresDistinct'
    BY <2>5 DEF Crash
  <2>6. ASSUME TrackerExits PROVE SemaphoresDistinct'
    BY <2>6 DEF TrackerExits
  <2>7. CASE \/ \E p \in Processes : Construct(p, 1) \/ Construct(p, ConditionSize)
             \/ UNCHANGED vars
    BY <2>7 DEF Construct, vars
  <2> QED
    BY <2>1, <2>2, <2>3, <2>4, <2>5, <2>6, <2>7 DEF Next
<1> QED
  BY <1>1, <1>2, HoldersTyped, PTL DEF Spec

-----------------------------------------------------------------------------
(***************************************************************************)
(* Every semaphore that exists is known to the tracker, or its process is, *)
(* or died, between its creation and its registration.                     *)
(***************************************************************************)
THEOREM NoForgottenSemaphore == Spec => []SemaphoresTracked
<1>1. Init => SemaphoresTracked
  BY DEF Init, SemaphoresTracked
<1>2. HoldersType /\ SemaphoresTracked /\ [Next]_vars => SemaphoresTracked'
  <2> SUFFICES ASSUME HoldersType, SemaphoresTracked, [Next]_vars
               PROVE  SemaphoresTracked'
    OBVIOUS
  <2> USE DEF HoldersType, SemaphoresTracked
  <2>1. ASSUME NEW p \in Processes, NEW n \in SemNames, Draw(p, n) \/ CreateNamed(p, n)
        PROVE  SemaphoresTracked'
    <3>1. disk' \subseteq disk \union created'[p] /\ registered' = registered
      BY <2>1 DEF Draw, CreateNamed
    <3>2. \A q \in Processes : q # p => created'[q] = created[q]
      BY <2>1 DEF Draw, CreateNamed
    <3>3. created[p] = {} \/ created'[p] = created[p]
      BY <2>1 DEF Draw, CreateNamed
    <3> QED
      BY <3>1, <3>2, <3>3
  <2>2. ASSUME NEW p \in Processes, Register(p) PROVE SemaphoresTracked'
    <3>1. \A q \in Processes : created[q] \subseteq registered' \union created'[q]
      BY <2>2 DEF Register
    <3> QED
      BY <2>2, <3>1 DEF Register
  <2>3. CASE \E p \in Processes : GiveUp(p) \/ \E n \in SemNames : Cleanup(p, n)
    BY <2>3 DEF GiveUp, Cleanup
  <2>4. CASE TrackerExits
    BY <2>4 DEF TrackerExits
  <2>5. CASE \/ \E p \in Processes :
                  Construct(p, 1) \/ Construct(p, ConditionSize) \/ Crash(p)
             \/ UNCHANGED vars
    BY <2>5 DEF Construct, Crash, vars
  <2> QED
    BY <2>1, <2>2, <2>3, <2>4, <2>5 DEF Next
<1> QED
  BY <1>1, <1>2, HoldersTyped, PTL DEF Spec
=============================================================================
