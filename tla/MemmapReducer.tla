--------------------------- MODULE MemmapReducer ----------------------------
(***************************************************************************)
(* ArrayMemmapForwardReducer: large arrays go to the workers as files.     *)
(* The thread that pickles the tasks dumps an array once and then sends    *)
(* instructions to load it; the resource tracker, a process of its own,    *)
(* counts the references to a file from the messages in its pipe, and      *)
(* unlinks it when none is left; a worker gives its reference back when it *)
(* collects the memmap.                                                    *)
(*                                                                         *)
(* Arrays are those the reducer dumps: above max_nbytes, of a dtype        *)
(* without objects, not backed by a memmap.  The others touch no state.    *)
(* The name drawn for an array stands for its file, so an array is also    *)
(* the name of its file.  The tracker, the workers and the clean-up at the *)
(* end of a call have no body in the repository: they are external.        *)
(***************************************************************************)
EXTENDS Integers, SequencesExt

CONSTANTS Arrays,         \* large arrays of the parent process
          Workers,        \* worker processes
          MaxPickled,     \* bound: picklings
          DumpMayFail,    \* dump() may raise, and leave part of a file, or
                          \* what comes after it, with the whole file left
          NoArray

ASSUME MemmapAssumption ==
    /\ NoArray \notin Arrays
    /\ MaxPickled \in Nat /\ DumpMayFail \in BOOLEAN

VARIABLES
  unlink_on_gc_collect,         \* _unlink_on_gc_collect: workers hold references
  temporary_memmaped_filenames, \* _temporary_memmaped_filenames
  pc, pickling,                 \* where the reducer is, and with which array
  pickled,                      \* picklings so far (bounded)
  files,                        \* what is on disk for each array
  pipe,                         \* messages the tracker is yet to read
  refs,                         \* the tracker's count for each file
  instructions,                 \* pickled instructions no worker has read yet
  mapped,                       \* the file each worker has mapped
  failed,                       \* a worker could not load what it was told to
  cleaned                       \* the parent has given its references back

vars == <<unlink_on_gc_collect, temporary_memmaped_filenames, pc, pickling, pickled,
          files, pipe, refs, instructions, mapped, failed, cleaned>>

Message == {"register", "maybe_unlink"} \X Arrays

TypeOK ==
    /\ unlink_on_gc_collect \in BOOLEAN
    /\ temporary_memmaped_filenames \subseteq Arrays
    /\ pc \in {"idle", "exists", "dump", "return"}
    /\ pickling \in Arrays \union {NoArray} /\ (pickling = NoArray <=> pc = "idle")
    /\ pickled \in 0..MaxPickled
    /\ files \in [Arrays -> {"absent", "partial", "complete"}]
    /\ pipe \in Seq(Message)
    /\ refs \in [Arrays -> Nat]
    /\ instructions \in Seq(Arrays)
    /\ mapped \in [Workers -> Arrays \union {NoArray}]
    /\ failed \in BOOLEAN /\ cleaned \in BOOLEAN

Init ==
    /\ unlink_on_gc_collect \in BOOLEAN
    /\ temporary_memmaped_filenames = {}
    /\ pc = "idle" /\ pickling = NoArray /\ pickled = 0
    /\ files = [a \in Arrays |-> "absent"]
    /\ pipe = <<>> /\ refs = [a \in Arrays |-> 0]
    /\ instructions = <<>>
    /\ mapped = [w \in Workers |-> NoArray]
    /\ failed = FALSE /\ cleaned = FALSE

-----------------------------------------------------------------------------
(* The reducer, in the thread that pickles.                                 *)

\* One reference for the worker that will load the file, one for the parent
\* the first time.
ReferencesOfWorkersOnly(a) ==   \* mutant: the parent takes no reference
    IF unlink_on_gc_collect THEN <<<<"register", a>>>> ELSE <<>>

ReferenceOfOne(a) ==   \* mutant: the first reference counts for both
    IF unlink_on_gc_collect \/ a \notin temporary_memmaped_filenames
    THEN <<<<"register", a>>>> ELSE <<>>

ReferenceEachTime(a) ==   \* mutant: the parent takes one reference per pickling
    (IF unlink_on_gc_collect THEN <<<<"register", a>>>> ELSE <<>>)
    \o <<<<"register", a>>>>

References(a) ==
    (IF unlink_on_gc_collect THEN <<<<"register", a>>>> ELSE <<>>)
    \o (IF a \notin temporary_memmaped_filenames THEN <<<<"register", a>>>> ELSE <<>>)

Register(a) ==
    /\ pc = "idle" /\ ~cleaned /\ pickled < MaxPickled
    /\ pipe' = pipe \o References(a)
    /\ temporary_memmaped_filenames' = temporary_memmaped_filenames \union {a}
    /\ pickling' = a /\ pc' = "exists" /\ pickled' = pickled + 1
    /\ UNCHANGED <<unlink_on_gc_collect, files, refs, instructions, mapped, failed,
                   cleaned>>

\* os.path.exists, in the parent: the tracker may be about to unlink the file.
Exists ==
    /\ pc = "exists"
    /\ pc' = IF files[pickling] = "absent" THEN "dump" ELSE "return"
    /\ UNCHANGED <<unlink_on_gc_collect, temporary_memmaped_filenames, pickling,
                   pickled, files, pipe, refs, instructions, mapped, failed, cleaned>>

Dump ==
    /\ pc = "dump"
    /\ \/ /\ files' = [files EXCEPT ![pickling] = "complete"]
          /\ pc' = "return" /\ UNCHANGED pickling
       \/ /\ DumpMayFail
          /\ \E left \in {"absent", "partial", "complete"} :
                files' = [files EXCEPT ![pickling] = left]
          /\ pc' = "idle" /\ pickling' = NoArray
    /\ UNCHANGED <<unlink_on_gc_collect, temporary_memmaped_filenames, pickled, pipe,
                   refs, instructions, mapped, failed, cleaned>>

\* The instruction (load_temporary_memmap, filename) is sent to the workers.
Return ==
    /\ pc = "return"
    /\ instructions' = Append(instructions, pickling)
    /\ pc' = "idle" /\ pickling' = NoArray
    /\ UNCHANGED <<unlink_on_gc_collect, temporary_memmaped_filenames, pickled, files,
                   pipe, refs, mapped, failed, cleaned>>

-----------------------------------------------------------------------------
(* External: the workers, the tracker and the end of the call.              *)

Load(w) ==
    /\ mapped[w] = NoArray /\ instructions # <<>>
    /\ instructions' = Tail(instructions)
    /\ IF files[Head(instructions)] = "complete"
       THEN mapped' = [mapped EXCEPT ![w] = Head(instructions)] /\ UNCHANGED failed
       ELSE failed' = TRUE /\ UNCHANGED mapped
    /\ UNCHANGED <<unlink_on_gc_collect, temporary_memmaped_filenames, pc, pickling,
                   pickled, files, pipe, refs, cleaned>>

Collect(w) ==
    /\ mapped[w] # NoArray
    /\ mapped' = [mapped EXCEPT ![w] = NoArray]
    /\ pipe' = IF unlink_on_gc_collect
               THEN Append(pipe, <<"maybe_unlink", mapped[w]>>) ELSE pipe
    /\ UNCHANGED <<unlink_on_gc_collect, temporary_memmaped_filenames, pc, pickling,
                   pickled, files, refs, instructions, failed, cleaned>>

\* The parent keeps its references until the tasks of the call are done.
CleanTemporaryResources ==
    /\ pc = "idle" /\ instructions = <<>> /\ ~cleaned
    /\ cleaned' = TRUE
    /\ pipe' = pipe \o SetToSeq({"maybe_unlink"} \X temporary_memmaped_filenames)
    /\ UNCHANGED <<unlink_on_gc_collect, temporary_memmaped_filenames, pc, pickling,
                   pickled, files, refs, instructions, mapped, failed>>

TrackOnce ==   \* mutant: a file counts once, however often it is registered
    /\ pipe # <<>>
    /\ pipe' = Tail(pipe)
    /\ LET a == Head(pipe)[2] IN
       IF Head(pipe)[1] = "register"
       THEN refs' = [refs EXCEPT ![a] = 1] /\ UNCHANGED files
       ELSE /\ refs' = [refs EXCEPT ![a] = @ - 1]
            /\ files' = IF refs[a] = 1 THEN [files EXCEPT ![a] = "absent"] ELSE files
    /\ UNCHANGED <<unlink_on_gc_collect, temporary_memmaped_filenames, pc, pickling,
                   pickled, instructions, mapped, failed, cleaned>>

Track ==
    /\ pipe # <<>>
    /\ pipe' = Tail(pipe)
    /\ LET a == Head(pipe)[2] IN
       IF Head(pipe)[1] = "register"
       THEN refs' = [refs EXCEPT ![a] = @ + 1] /\ UNCHANGED files
       ELSE /\ refs' = [refs EXCEPT ![a] = IF @ = 0 THEN 0 ELSE @ - 1]
            /\ files' = IF refs[a] = 1 THEN [files EXCEPT ![a] = "absent"] ELSE files
    /\ UNCHANGED <<unlink_on_gc_collect, temporary_memmaped_filenames, pc, pickling,
                   pickled, instructions, mapped, failed, cleaned>>

-----------------------------------------------------------------------------
Reduce == Exists \/ Dump \/ Return

Next == \/ \E a \in Arrays : Register(a)
        \/ Reduce
        \/ \E w \in Workers : Load(w) \/ Collect(w)
        \/ CleanTemporaryResources \/ Track

Spec == Init /\ [][Next]_vars

\* Whoever has begun goes on, and memmaps are collected.  Nobody has to pickle.
FairSpec == /\ Spec
            /\ WF_vars(Reduce) /\ WF_vars(Track)
            /\ \A w \in Workers : WF_vars(Load(w)) /\ WF_vars(Collect(w))
-----------------------------------------------------------------------------
(***************************************************************************)
(* A worker finds the whole array in the file it is told to load, although *)
(* the tracker unlinks files at its own pace and the reducer only looks    *)
(* whether the file exists before it sends the instruction.                *)
(***************************************************************************)
LoadsSucceed == ~failed

(***************************************************************************)
(* The tracker is never asked to give back a reference it does not count   *)
(* (it would print a warning that the tests forbid).                       *)
(***************************************************************************)
TrackerSilent == pipe # <<>> /\ Head(pipe)[1] = "maybe_unlink" => refs[Head(pipe)[2]] > 0

(***************************************************************************)
(* No reference is registered that nobody gives back: when the call has    *)
(* cleaned up, no worker is yet to give a reference back and the tracker   *)
(* has read everything, it has unlinked every file.                        *)
(***************************************************************************)
NoFileLeft ==
    /\ cleaned /\ pipe = <<>>
    /\ unlink_on_gc_collect => \A w \in Workers : mapped[w] = NoArray
    => \A a \in Arrays : files[a] = "absent"

(***************************************************************************)
(* Once the call has given its references back, and the workers theirs, no *)
(* file is left.                                                           *)
(***************************************************************************)
FilesUnlinked == cleaned ~> \A a \in Arrays : files[a] = "absent"
=============================================================================
