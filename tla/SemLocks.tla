------------------------------ MODULE SemLocks ------------------------------
(***************************************************************************)
(* The named semaphores of loky's synchronisation primitives: a SemLock    *)
(* draws a name until one is free, or takes that of its caller, and        *)
(* registers it with the resource tracker; a Condition makes four of them, *)
(* one after the other.  Any step may be the last of its process.          *)
(***************************************************************************)
EXTENDS Integers, FiniteSets

CONSTANTS Processes,
          SemNames,   \* names _make_name can draw
          MaxNaming,  \* names a SemLock draws before it gives up (100)
          ConditionSize  \* SemLocks in a Condition (4)

VARIABLES
  disk,        \* names of semaphores that exist
  registered,  \* names the resource tracker knows
  naming,      \* of each process: names the SemLock under construction drew
  left,        \* SemLocks the object under construction still needs
  created,     \* the semaphore created and not registered, as a set
  partial,     \* names of the object under construction
  owned,       \* names of the SemLocks of the process that are in use
  alive        \* the process runs

vars == <<disk, registered, naming, left, created, partial, owned, alive>>

Init ==
    /\ disk = {} /\ registered = {}
    /\ naming = [p \in Processes |-> 0] /\ left = [p \in Processes |-> 0]
    /\ created = [p \in Processes |-> {}] /\ partial = [p \in Processes |-> {}]
    /\ owned = [p \in Processes |-> {}] /\ alive = [p \in Processes |-> TRUE]

Names(p) == created[p] \union partial[p] \union owned[p]

\* Lock(), RLock(), Semaphore() or, with n = ConditionSize, Condition().
Construct(p, n) ==
    /\ alive[p] /\ left[p] = 0
    /\ left' = [left EXCEPT ![p] = n]
    /\ UNCHANGED <<disk, registered, naming, created, partial, owned, alive>>

\* SemLock.__init__: the kernel refuses a name that exists.
DrawShared(p, n) ==   \* mutant: FileExistsError is taken for success
    /\ alive[p] /\ left[p] > 0 /\ created[p] = {} /\ naming[p] < MaxNaming
    /\ disk' = disk \union {n} /\ created' = [created EXCEPT ![p] = {n}]
    /\ naming' = [naming EXCEPT ![p] = 0]
    /\ UNCHANGED <<registered, left, partial, owned, alive>>

Draw(p, n) ==
    /\ alive[p] /\ left[p] > 0 /\ created[p] = {} /\ naming[p] < MaxNaming
    /\ IF n \in disk
       THEN /\ naming' = [naming EXCEPT ![p] = @ + 1]
            /\ UNCHANGED <<disk, created>>
       ELSE /\ disk' = disk \union {n} /\ created' = [created EXCEPT ![p] = {n}]
            /\ naming' = [naming EXCEPT ![p] = 0]
    /\ UNCHANGED <<registered, left, partial, owned, alive>>

\* SemLock.__init__ with a name of the caller's: one attempt, which raises
\* FileExistsError and changes nothing when the name exists.
CreateNamed(p, n) ==
    /\ alive[p] /\ left[p] = 0 /\ created[p] = {} /\ n \notin disk
    /\ disk' = disk \union {n} /\ created' = [created EXCEPT ![p] = {n}]
    /\ left' = [left EXCEPT ![p] = 1]
    /\ UNCHANGED <<registered, naming, partial, owned, alive>>

\* resource_tracker.register and the finalizer; the next SemLock of a
\* Condition, or the object is complete.
RegisterAnonymous(p) ==   \* mutant: registers self.name, which is None
    /\ alive[p] /\ created[p] # {}
    /\ created' = [created EXCEPT ![p] = {}]
    /\ left' = [left EXCEPT ![p] = @ - 1]
    /\ owned' = [owned EXCEPT ![p] = IF left[p] = 1 THEN @ \union Names(p) ELSE @]
    /\ partial' = [partial EXCEPT ![p] = IF left[p] = 1 THEN {} ELSE @ \union created[p]]
    /\ UNCHANGED <<disk, registered, naming, alive>>

Register(p) ==
    /\ alive[p] /\ created[p] # {}
    /\ registered' = registered \union created[p]
    /\ created' = [created EXCEPT ![p] = {}]
    /\ left' = [left EXCEPT ![p] = @ - 1]
    /\ owned' = [owned EXCEPT ![p] = IF left[p] = 1 THEN @ \union Names(p) ELSE @]
    /\ partial' = [partial EXCEPT ![p] = IF left[p] = 1 THEN {} ELSE @ \union created[p]]
    /\ UNCHANGED <<disk, naming, alive>>

\* FileExistsError out of the constructor: the SemLocks made so far are
\* garbage, and their finalizers run (_cleanup unlinks and unregisters).
GiveUp(p) ==
    /\ alive[p] /\ naming[p] = MaxNaming
    /\ disk' = disk \ partial[p] /\ registered' = registered \ partial[p]
    /\ partial' = [partial EXCEPT ![p] = {}] /\ naming' = [naming EXCEPT ![p] = 0]
    /\ left' = [left EXCEPT ![p] = 0]
    /\ UNCHANGED <<created, owned, alive>>

\* A SemLock is collected.
Cleanup(p, n) ==
    /\ alive[p] /\ n \in owned[p]
    /\ disk' = disk \ {n} /\ registered' = registered \ {n}
    /\ owned' = [owned EXCEPT ![p] = @ \ {n}]
    /\ UNCHANGED <<naming, left, created, partial, alive>>

\* The process is killed; no finalizer runs.
Crash(p) ==
    /\ alive[p] /\ alive' = [alive EXCEPT ![p] = FALSE]
    /\ UNCHANGED <<disk, registered, naming, left, created, partial, owned>>

\* The tracker notices that all processes are gone, and cleans up.
TrackerExits ==
    /\ \A p \in Processes : ~alive[p]
    /\ registered # {}
    /\ disk' = disk \ registered /\ registered' = {}
    /\ UNCHANGED <<naming, left, created, partial, owned, alive>>

Next == \/ \E p \in Processes :
             \/ Construct(p, 1) \/ Construct(p, ConditionSize)
             \/ \E n \in SemNames : Draw(p, n) \/ CreateNamed(p, n) \/ Cleanup(p, n)
             \/ Register(p) \/ GiveUp(p) \/ Crash(p)
        \/ TrackerExits

Spec == Init /\ [][Next]_vars

-----------------------------------------------------------------------------
(***************************************************************************)
(* No two SemLocks in use share a semaphore, and all of them exist,        *)
(* whichever names the processes draw and retry at the same time.          *)
(***************************************************************************)
SemaphoresDistinct == \A p \in Processes : alive[p] =>
    /\ Names(p) \subseteq disk
    /\ created[p] \intersect (partial[p] \union owned[p]) = {}
    /\ partial[p] \intersect owned[p] = {}
    /\ \A q \in Processes \ {p} : alive[q] => Names(p) \intersect Names(q) = {}

(***************************************************************************)
(* A semaphore is never forgotten, but for one whose process dies between  *)
(* its creation and its registration: a constructor that fails half way,   *)
(* or a crash at any other step, leaves none that the tracker misses.      *)
(***************************************************************************)
SemaphoresTracked ==
    disk \subseteq registered \union UNION {created[p] : p \in Processes}
=============================================================================
