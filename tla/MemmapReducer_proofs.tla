------------------------ MODULE MemmapReducer_proofs ------------------------
(***************************************************************************)
(* Theorems about MemmapReducer, for every number of arrays, workers and   *)
(* picklings: what the reducer registers is enough for the tracker never   *)
(* to unlink a file that a worker is still told to load.                   *)
(***************************************************************************)
EXTENDS MemmapReducer, FiniteSetTheorems, TLAPS

\* SetToSeq lists the elements of a finite set, each once.
LEMMA SetToSeqLists ==
    ASSUME NEW S, IsFiniteSet(S)
    PROVE  /\ SetToSeq(S) \in Seq(S)
           /\ \A x \in S : \E k \in 1..Len(SetToSeq(S)) : SetToSeq(S)[k] = x
           /\ \A j, k \in 1..Len(SetToSeq(S)) : SetToSeq(S)[j] = SetToSeq(S)[k] => j = k
<1> DEFINE n == Cardinality(S)
<1>1. n \in Nat /\ ExistsBijection(1..n, S)
  BY FS_CardinalityType
<1>2. PICK f \in Bijection(1..n, S) : TRUE
  BY <1>1 DEF ExistsBijection
<1>3. f \in [1..n -> S] /\ IsInjective(f)
  BY <1>2 DEF Bijection, Injection, IsInjective
<1> DEFINE g == SetToSeq(S)
<1>4. g \in [1..n -> S] /\ IsInjective(g)
  BY <1>3 DEF SetToSeq
<1>5. g \in Injection(1..n, S)
  BY <1>4 DEF Injection, IsInjective
<1>6. IsFiniteSet(1..n) /\ Cardinality(1..n) = Cardinality(S)
  BY <1>1, FS_Interval
<1>7. g \in Surjection(1..n, S)
  BY <1>5, <1>6, FS_Injection
<1>8. g \in Seq(S) /\ Len(g) = n
  BY <1>1, <1>4
<1> QED
  BY <1>4, <1>7, <1>8 DEF IsInjective, Surjection

-----------------------------------------------------------------------------
(***************************************************************************)
(* Types.  The set of temporary files stays finite: an array joins it in   *)
(* each pickling.                                                          *)
(***************************************************************************)
Given(names) == {"maybe_unlink"} \X names

Typed == TypeOK /\ IsFiniteSet(Given(temporary_memmaped_filenames))

LEMMA ReferencesType ==
    ASSUME NEW a \in Arrays
    PROVE  References(a) \in Seq(Message)
  BY DEF References, Message

LEMMA GivenType ==
    ASSUME Typed
    PROVE  SetToSeq(Given(temporary_memmaped_filenames)) \in Seq(Message)
<1> DEFINE q == SetToSeq(Given(temporary_memmaped_filenames))
<1>1. q \in Seq(Given(temporary_memmaped_filenames))
  BY SetToSeqLists DEF Typed
<1>2. Given(temporary_memmaped_filenames) \subseteq Message
  BY DEF Typed, TypeOK, Given, Message
<1> QED
  BY <1>1, <1>2

LEMMA TypedInit == Init => Typed
<1> SUFFICES ASSUME Init PROVE Typed
  OBVIOUS
<1>1. TypeOK
  <2>1. failed \in BOOLEAN /\ cleaned \in BOOLEAN /\ unlink_on_gc_collect \in BOOLEAN
    BY Zenon DEF Init
  <2>2. pickled \in 0..MaxPickled
    BY MemmapAssumption, SMT DEF Init, MemmapAssumption
  <2> QED
    BY <2>1, <2>2 DEF Init, TypeOK
<1>2. Given(temporary_memmaped_filenames) = {}
  BY DEF Init, Given
<1> QED
  BY <1>1, <1>2, FS_EmptySet DEF Typed

LEMMA TypedNext == Typed /\ [Next]_vars => Typed'
<1> SUFFICES ASSUME Typed, [Next]_vars PROVE Typed'
  OBVIOUS
<1> USE MemmapAssumption DEF MemmapAssumption
<1>1. ASSUME NEW a \in Arrays, Register(a) PROVE Typed'
  <2>1. Given(temporary_memmaped_filenames \union {a})
          = Given(temporary_memmaped_filenames) \union {<<"maybe_unlink", a>>}
    BY DEF Given
  <2>2. IsFiniteSet(Given(temporary_memmaped_filenames'))
    BY <1>1, <2>1, FS_AddElement DEF Register, Typed
  <2>3. pipe' \in Seq(Message)
    BY <1>1, ReferencesType DEF Register, Typed, TypeOK
  <2> QED
    BY <1>1, <2>2, <2>3 DEF Register, Typed, TypeOK
<1>2. CASE Exists
  BY <1>2 DEF Exists, Typed, TypeOK
<1>3. CASE Dump
  BY <1>3 DEF Dump, Typed, TypeOK
<1>4. CASE Return
  BY <1>4 DEF Return, Typed, TypeOK
<1>5. ASSUME NEW w \in Workers, Load(w) PROVE Typed'
  <2>1. failed' \in BOOLEAN
    BY <1>5, Zenon DEF Load, Typed, TypeOK
  <2>2. Head(instructions) \in Arrays /\ instructions' \in Seq(Arrays)
    BY <1>5 DEF Load, Typed, TypeOK
  <2>3. mapped' \in [Workers -> Arrays \union {NoArray}]
    BY <1>5, <2>2 DEF Load, Typed, TypeOK
  <2> QED
    BY <1>5, <2>1, <2>2, <2>3 DEF Load, Typed, TypeOK
<1>6. ASSUME NEW w \in Workers, Collect(w) PROVE Typed'
  <2>1. <<"maybe_unlink", mapped[w]>> \in Message
    BY <1>6 DEF Collect, Typed, TypeOK, Message
  <2>2. pipe' \in Seq(Message)
    BY <1>6, <2>1 DEF Collect, Typed, TypeOK
  <2> QED
    BY <1>6, <2>2 DEF Collect, Typed, TypeOK
<1>7. CASE CleanTemporaryResources
  <2>1. pipe' \in Seq(Message)
    BY <1>7, GivenType DEF CleanTemporaryResources, Typed, TypeOK, Given
  <2> QED
    BY <1>7, <2>1 DEF CleanTemporaryResources, Typed, TypeOK
<1>8. CASE Track
  <2>1. Head(pipe)[2] \in Arrays /\ pipe' \in Seq(Message)
    BY <1>8 DEF Track, Typed, TypeOK, Message
  <2>2. refs' \in [Arrays -> Nat]
    BY <1>8, <2>1 DEF Track, Typed, TypeOK
  <2>3. files' \in [Arrays -> {"absent", "partial", "complete"}]
    BY <1>8, <2>1 DEF Track, Typed, TypeOK
  <2> QED
    BY <1>8, <2>1, <2>2, <2>3 DEF Track, Typed, TypeOK
<1>9. CASE UNCHANGED vars
  BY <1>9 DEF vars, Typed, TypeOK
<1> QED
  BY <1>1, <1>2, <1>3, <1>4, <1>5, <1>6, <1>7, <1>8, <1>9 DEF Next, Reduce

(***************************************************************************)
(* The reducer, the workers and the tracker keep their types.              *)
(***************************************************************************)
THEOREM TypeCorrect == Spec => []TypeOK
<1>1. Typed => TypeOK
  BY DEF Typed
<1> QED
  BY <1>1, TypedInit, TypedNext, PTL DEF Spec

-----------------------------------------------------------------------------
(***************************************************************************)
(* Counting references.  b[i] is the tracker's count for a file when it    *)
(* has read i messages of s, if it counts r of them now; whenever it reads *)
(* a maybe_unlink of this file, it counts n references or more.            *)
(***************************************************************************)
Change(m, a) == IF m[2] # a THEN 0 ELSE IF m[1] = "register" THEN 1 ELSE -1

Sums(b, s, a, r, n) ==
    /\ b \in [0..Len(s) -> Int]
    /\ b[0] = r
    /\ \A i \in 1..Len(s) :
          /\ b[i] = b[i - 1] + Change(s[i], a)
          /\ s[i] = <<"maybe_unlink", a>> => b[i - 1] >= n

\* More messages in the pipe.
LEMMA SumsConcat ==
    ASSUME NEW s \in Seq(Message), NEW q \in Seq(Message), NEW a, NEW r, NEW n,
           NEW b, Sums(b, s, a, r, n), NEW e, Sums(e, q, a, b[Len(s)], n)
    PROVE  \E d : /\ Sums(d, s \o q, a, r, n)
                  /\ d[Len(s \o q)] = e[Len(q)]
<1> DEFINE d == [i \in 0..Len(s \o q) |-> IF i <= Len(s) THEN b[i] ELSE e[i - Len(s)]]
<1>1. /\ Len(s) \in Nat /\ Len(q) \in Nat /\ Len(s \o q) = Len(s) + Len(q)
      /\ \A i \in 1..Len(s) : (s \o q)[i] = s[i]
      /\ \A i \in 1..Len(s \o q) : i > Len(s) => (s \o q)[i] = q[i - Len(s)]
  OBVIOUS
<1>2. d \in [0..Len(s \o q) -> Int]
  BY <1>1 DEF Sums
<1>3. d[0] = r
  BY <1>1 DEF Sums
<1>4. ASSUME NEW i \in 1..Len(s \o q)
      PROVE  /\ d[i] = d[i - 1] + Change((s \o q)[i], a)
             /\ (s \o q)[i] = <<"maybe_unlink", a>> => d[i - 1] >= n
  <2>1. CASE i <= Len(s)
    BY <1>1, <2>1 DEF Sums
  <2>2. CASE i > Len(s)
    <3>1. i - Len(s) \in 1..Len(q) /\ d[i] = e[i - Len(s)]
      BY <1>1, <2>2
    <3>2. d[i - 1] = e[i - Len(s) - 1]
      BY <1>1, <2>2 DEF Sums
    <3> QED
      BY <1>1, <2>2, <3>1, <3>2 DEF Sums
  <2> QED
    BY <1>1, <2>1, <2>2
<1>5. d[Len(s \o q)] = e[Len(q)]
  BY <1>1 DEF Sums
<1> QED
  BY <1>2, <1>3, <1>4, <1>5 DEF Sums

\* The tracker has read the first message.
LEMMA SumsTail ==
    ASSUME NEW s \in Seq(Message), s # <<>>, NEW a, NEW r \in Int, NEW n,
           NEW b, Sums(b, s, a, r, n)
    PROVE  \E d : /\ Sums(d, Tail(s), a, r + Change(Head(s), a), n)
                  /\ d[Len(Tail(s))] = b[Len(s)]
<1> DEFINE d == [i \in 0..Len(Tail(s)) |-> b[i + 1]]
<1>1. /\ Len(s) \in Nat \ {0} /\ Len(Tail(s)) = Len(s) - 1 /\ Head(s) = s[1]
      /\ \A i \in 1..Len(Tail(s)) : Tail(s)[i] = s[i + 1]
  OBVIOUS
<1>2. d \in [0..Len(Tail(s)) -> Int]
  BY <1>1 DEF Sums
<1>3. d[0] = r + Change(Head(s), a)
  BY <1>1 DEF Sums
<1>4. ASSUME NEW i \in 1..Len(Tail(s))
      PROVE  /\ d[i] = d[i - 1] + Change(Tail(s)[i], a)
             /\ Tail(s)[i] = <<"maybe_unlink", a>> => d[i - 1] >= n
  <2>1. i + 1 \in 1..Len(s) /\ (i + 1) - 1 = i /\ d[i] = b[i + 1] /\ d[i - 1] = b[i]
    BY <1>1
  <2> QED
    BY <1>1, <2>1 DEF Sums
<1>5. d[Len(Tail(s))] = b[Len(s)]
  BY <1>1
<1> QED
  BY <1>2, <1>3, <1>4, <1>5 DEF Sums

(***************************************************************************)
(* c[i] is the number of workers that have the file of a mapped when they  *)
(* have loaded what the first i instructions of s say, if w have it now.   *)
(***************************************************************************)
One(condition) == IF condition THEN 1 ELSE 0

Counts(c, s, a, w) ==
    /\ c \in [0..Len(s) -> Nat]
    /\ c[0] = w
    /\ \A i \in 1..Len(s) : c[i] = c[i - 1] + One(s[i] = a)
    /\ \A i, j \in 0..Len(s) : i <= j => c[i] <= c[j]

\* One more instruction.
LEMMA CountsAppend ==
    ASSUME NEW s \in Seq(Arrays), NEW x \in Arrays, NEW a, NEW w, NEW c, Counts(c, s, a, w)
    PROVE  \E d : /\ Counts(d, Append(s, x), a, w)
                  /\ d[Len(Append(s, x))] = c[Len(s)] + One(x = a)
<1> DEFINE t == Append(s, x)
           d == [i \in 0..Len(t) |-> IF i <= Len(s) THEN c[i] ELSE c[Len(s)] + One(x = a)]
<1>1. /\ Len(s) \in Nat /\ Len(t) = Len(s) + 1
      /\ \A i \in 1..Len(s) : t[i] = s[i]
      /\ t[Len(t)] = x
  OBVIOUS
<1>2. d \in [0..Len(t) -> Nat] /\ d[0] = w /\ d[Len(t)] = c[Len(s)] + One(x = a)
  BY <1>1 DEF Counts, One
<1>3. \A i \in 1..Len(t) : d[i] = d[i - 1] + One(t[i] = a)
  BY <1>1, <1>2 DEF Counts
<1>4. ASSUME NEW i \in 0..Len(t), NEW j \in 0..Len(t), i <= j PROVE d[i] <= d[j]
  <2>1. CASE j <= Len(s)
    BY <1>1, <1>4, <2>1 DEF Counts
  <2>2. CASE i <= Len(s) /\ j > Len(s)
    <3>1. c[i] <= c[Len(s)] /\ c[i] \in Nat /\ c[Len(s)] \in Nat
      BY <1>1, <2>2 DEF Counts
    <3> QED
      BY <1>1, <2>2, <3>1 DEF One
  <2>3. CASE i > Len(s)
    BY <1>1, <1>2, <1>4, <2>3
  <2> QED
    BY <1>1, <2>1, <2>2, <2>3
<1> QED
  BY <1>2, <1>3, <1>4 DEF Counts

\* A worker has read the first instruction.
LEMMA CountsTail ==
    ASSUME NEW s \in Seq(Arrays), s # <<>>, NEW a, NEW w, NEW c, Counts(c, s, a, w),
           NEW v \in Nat, v <= w + One(Head(s) = a)
    PROVE  \E d : /\ Counts(d, Tail(s), a, v)
                  /\ d[Len(Tail(s))] = c[Len(s)] - (w + One(Head(s) = a)) + v
<1> DEFINE t == Tail(s)
           d == [i \in 0..Len(t) |-> c[i + 1] - c[1] + v]
<1>1. /\ Len(s) \in Nat \ {0} /\ Len(t) = Len(s) - 1 /\ Head(s) = s[1]
      /\ \A i \in 1..Len(t) : t[i] = s[i + 1]
  OBVIOUS
<1>2. c[1] = w + One(Head(s) = a) /\ c[1] \in Nat /\ c[0] = w
  BY <1>1 DEF Counts
<1>3. \A i \in 0..Len(t) : i + 1 \in 1..Len(s) /\ c[i + 1] \in Nat /\ c[1] <= c[i + 1]
  BY <1>1 DEF Counts
<1>4. d \in [0..Len(t) -> Nat] /\ d[0] = v /\ d[Len(t)] = c[Len(s)] - c[1] + v
  <2>1. \A i \in 0..Len(t) : d[i] \in Nat
    BY <1>2, <1>3
  <2>2. d[0] = v
    BY <1>1, <1>2
  <2>3. d[Len(t)] = c[Len(s)] - c[1] + v
    BY <1>1
  <2>4. d \in [0..Len(t) -> Nat]
    BY <2>1
  <2> QED
    BY <2>2, <2>3, <2>4
<1>5. ASSUME NEW i \in 1..Len(t) PROVE d[i] = d[i - 1] + One(t[i] = a)
  <2>1. d[i] = c[i + 1] - c[1] + v /\ d[i - 1] = c[i] - c[1] + v
    BY <1>1
  <2>2. i + 1 \in 1..Len(s) /\ (i + 1) - 1 = i /\ c[i + 1] = c[i] + One(s[i + 1] = a)
    BY <1>1 DEF Counts
  <2>3. c[i] \in Nat
    BY <1>1 DEF Counts
  <2> QED
    BY <1>1, <1>2, <2>1, <2>2, <2>3 DEF One
<1>6. ASSUME NEW i \in 0..Len(t), NEW j \in 0..Len(t), i <= j PROVE d[i] <= d[j]
  <2>1. c[i + 1] <= c[j + 1]
    BY <1>1, <1>6 DEF Counts
  <2> QED
    BY <1>2, <1>3, <2>1
<1> QED
  BY <1>2, <1>4, <1>5, <1>6 DEF Counts

\* A worker has collected a memmap.
LEMMA CountsFewer ==
    ASSUME NEW s \in Seq(Arrays), NEW a, NEW w \in Nat \ {0}, NEW c, Counts(c, s, a, w)
    PROVE  \E d : Counts(d, s, a, w - 1) /\ d[Len(s)] = c[Len(s)] - 1
<1> DEFINE d == [i \in 0..Len(s) |-> c[i] - 1]
<1>1. \A i \in 0..Len(s) : c[i] \in Nat /\ c[i] >= 1
  BY DEF Counts
<1>2. Len(s) \in Nat
  OBVIOUS
<1>3. d \in [0..Len(s) -> Nat] /\ d[0] = w - 1 /\ d[Len(s)] = c[Len(s)] - 1
  BY <1>1, <1>2 DEF Counts
<1>4. ASSUME NEW i \in 1..Len(s) PROVE d[i] = d[i - 1] + One(s[i] = a)
  <2>1. c[i] = c[i - 1] + One(s[i] = a) /\ c[i - 1] \in Nat /\ i - 1 \in 0..Len(s)
    <3>1. i - 1 \in 0..Len(s)
      BY <1>2
    <3> QED
      BY <3>1 DEF Counts
  <2> QED
    BY <1>2, <2>1 DEF One
<1>5. \A i, j \in 0..Len(s) : i <= j => d[i] <= d[j]
  BY <1>1, <1>2 DEF Counts
<1> QED
  BY <1>3, <1>4, <1>5 DEF Counts

-----------------------------------------------------------------------------
(***************************************************************************)
(* The references to a file.  When the tracker has read its pipe it counts *)
(* at least one for each worker that has the file, will load it or is sent *)
(* an instruction to, and one for the parent until it has cleaned up; and  *)
(* no maybe_unlink that it reads before that is for the last reference.    *)
(* It counts no more than that, unless a dump failed and the reference of  *)
(* a worker is left that is never told of the file.                        *)
(***************************************************************************)
Holders(a) == {w \in Workers : mapped[w] = a}
Enough == IF cleaned THEN 1 ELSE 2
Kept(a) == One(a \in temporary_memmaped_filenames /\ ~cleaned)
Owed(c, a) == IF unlink_on_gc_collect THEN c[Len(instructions)] + One(pickling = a) ELSE 0

Exactly == ~DumpMayFail \/ ~unlink_on_gc_collect
Covers(n, owed) == n >= owed /\ (Exactly => n = owed)

Balanced(a) == \E b, c :
    /\ Sums(b, pipe, a, refs[a], Enough)
    /\ Counts(c, instructions, a, Cardinality(Holders(a)))
    /\ Covers(b[Len(pipe)], Owed(c, a) + Kept(a))

Known ==
    /\ pickling # NoArray => pickling \in temporary_memmaped_filenames
    /\ \A i \in 1..Len(instructions) : instructions[i] \in temporary_memmaped_filenames
    /\ \A w \in Workers : mapped[w] # NoArray => mapped[w] \in temporary_memmaped_filenames
    /\ cleaned => pc = "idle" /\ instructions = <<>>

(***************************************************************************)
(* The files that are needed are there: a file is unlinked only after the  *)
(* parent has cleaned up, when no instruction is left.                     *)
(***************************************************************************)
FilesInv ==
    /\ ~failed
    /\ \A a \in Arrays : files[a] \in {"absent", "complete"}
    /\ pc = "return" => files[pickling] = "complete"
    /\ \A i \in 1..Len(instructions) : files[instructions[i]] = "complete"

RefsInv ==
    /\ Known
    /\ \A a \in Arrays : IsFiniteSet(Holders(a)) /\ Balanced(a)

LEMMA RefsInvInit == Init => RefsInv
<1> SUFFICES ASSUME Init PROVE RefsInv
  OBVIOUS
<1>1. Known
  BY DEF Init, Known
<1>2. ASSUME NEW a \in Arrays PROVE IsFiniteSet(Holders(a)) /\ Balanced(a)
  <2>1. Holders(a) = {}
    BY MemmapAssumption DEF Init, Holders, MemmapAssumption
  <2>2. IsFiniteSet(Holders(a)) /\ Cardinality(Holders(a)) = 0
    BY <2>1, FS_EmptySet
  <2> DEFINE b == [i \in 0..0 |-> 0]
  <2>3. Sums(b, pipe, a, refs[a], Enough)
    BY DEF Init, Sums
  <2>4. Counts(b, instructions, a, 0)
    BY DEF Init, Counts
  <2>5. Covers(b[Len(pipe)], Owed(b, a) + Kept(a))
    <3>1. pipe = <<>> /\ instructions = <<>> /\ a # pickling
          /\ a \notin temporary_memmaped_filenames
      BY MemmapAssumption DEF Init, MemmapAssumption
    <3> QED
      BY <3>1 DEF Owed, Kept, One, Covers
  <2> QED
    BY <2>2, <2>3, <2>4, <2>5 DEF Balanced
<1> QED
  BY <1>1, <1>2 DEF RefsInv

\* One more message in the pipe.
LEMMA SumsAppend ==
    ASSUME NEW s \in Seq(Message), NEW m \in Message, NEW a, NEW r, NEW n,
           NEW b, Sums(b, s, a, r, n), m = <<"maybe_unlink", a>> => b[Len(s)] >= n
    PROVE  \E d : /\ Sums(d, Append(s, m), a, r, n)
                  /\ d[Len(Append(s, m))] = b[Len(s)] + Change(m, a)
<1> DEFINE q == <<m>>
           e == [i \in 0..1 |-> IF i = 0 THEN b[Len(s)] ELSE b[Len(s)] + Change(m, a)]
<1>1. b[Len(s)] \in Int /\ Change(m, a) \in Int
  BY DEF Sums, Change
<1>2. q \in Seq(Message) /\ Len(q) = 1 /\ Append(s, m) = s \o q
  OBVIOUS
<1>3. Sums(e, q, a, b[Len(s)], n)
  <2>1. e \in [0..Len(q) -> Int] /\ e[0] = b[Len(s)]
    BY <1>1
  <2>2. ASSUME NEW i \in 1..Len(q)
        PROVE  /\ e[i] = e[i - 1] + Change(q[i], a)
               /\ q[i] = <<"maybe_unlink", a>> => e[i - 1] >= n
    <3>1. i = 1 /\ i - 1 = 0 /\ q[i] = m
      OBVIOUS
    <3>2. e[1] = b[Len(s)] + Change(m, a) /\ e[0] = b[Len(s)]
      OBVIOUS
    <3> HIDE DEF e
    <3> QED
      BY <3>1, <3>2
  <2> QED
    BY <2>1, <2>2 DEF Sums
<1>4. e[Len(q)] = b[Len(s)] + Change(m, a)
  OBVIOUS
<1> HIDE DEF e, q
<1>5. PICK d : /\ Sums(d, s \o q, a, r, n)
               /\ d[Len(s \o q)] = e[Len(q)]
  BY <1>2, <1>3, SumsConcat
<1> QED
  BY <1>2, <1>4, <1>5

LEMMA QuietBalanced ==
    ASSUME NEW a \in Arrays, Typed, Balanced(a), refs' = refs, cleaned' = cleaned,
           pipe' = pipe, instructions' = instructions, mapped' = mapped,
           temporary_memmaped_filenames' = temporary_memmaped_filenames,
           unlink_on_gc_collect' = unlink_on_gc_collect,
           pickling' \in {pickling, NoArray},
           Exactly => pickling' = pickling \/ ~unlink_on_gc_collect
    PROVE  Balanced(a)'
<1>1. PICK b, c : /\ Sums(b, pipe, a, refs[a], Enough)
                  /\ Counts(c, instructions, a, Cardinality(Holders(a)))
                  /\ Covers(b[Len(pipe)], Owed(c, a) + Kept(a))
  BY DEF Balanced
<1>2. Enough' = Enough /\ Holders(a)' = Holders(a) /\ Kept(a)' = Kept(a)
  BY DEF Enough, Holders, Kept
<1>3. b[Len(pipe)] \in Int /\ c[Len(instructions)] \in Nat /\ Kept(a) \in Int
  <2>1. Len(pipe) \in Nat /\ Len(instructions) \in Nat
    BY DEF Typed, TypeOK
  <2>2. Kept(a) \in Int
    BY DEF Kept, One
  <2> QED
    BY <1>1, <2>1, <2>2 DEF Sums, Counts
<1>4. One((pickling = a)') <= One(pickling = a)
  BY MemmapAssumption DEF One, MemmapAssumption
<1>5. Covers(b[Len(pipe')], Owed(c, a)' + Kept(a)')
  <2>1. CASE unlink_on_gc_collect
    BY <1>1, <1>2, <1>3, <1>4, <2>1 DEF Owed, One, Covers
  <2>2. CASE ~unlink_on_gc_collect
    BY <1>1, <1>2, <1>3, <2>2 DEF Owed, Covers
  <2> QED
    BY <2>1, <2>2
<1>6. Exactly' = Exactly
  BY DEF Exactly
<1> QED
  BY <1>1, <1>2, <1>5, <1>6 DEF Balanced, Covers

\* A witness of the balance, and the types of its numbers.
LEMMA BalanceWitness ==
    ASSUME NEW a \in Arrays, Typed, Balanced(a)
    PROVE  \E b, c : /\ Sums(b, pipe, a, refs[a], Enough)
                     /\ Counts(c, instructions, a, Cardinality(Holders(a)))
                     /\ Covers(b[Len(pipe)], Owed(c, a) + Kept(a))
                     /\ b[Len(pipe)] \in Int /\ c[Len(instructions)] \in Nat
<1>1. Len(pipe) \in Nat /\ Len(instructions) \in Nat
  BY DEF Typed, TypeOK
<1>2. PICK b, c : /\ Sums(b, pipe, a, refs[a], Enough)
                  /\ Counts(c, instructions, a, Cardinality(Holders(a)))
                  /\ Covers(b[Len(pipe)], Owed(c, a) + Kept(a))
  BY DEF Balanced
<1>3. b[Len(pipe)] \in Int /\ c[Len(instructions)] \in Nat
  BY <1>1, <1>2 DEF Sums, Counts
<1> QED
  BY <1>2, <1>3

LEMMA RegisterBalanced ==
    ASSUME Typed, RefsInv, NEW x \in Arrays, Register(x), NEW a \in Arrays
    PROVE  Balanced(a)'
<1>1. PICK b, c : /\ Sums(b, pipe, a, refs[a], Enough)
                  /\ Counts(c, instructions, a, Cardinality(Holders(a)))
                  /\ Covers(b[Len(pipe)], Owed(c, a) + Kept(a))
                  /\ b[Len(pipe)] \in Int /\ c[Len(instructions)] \in Nat
  BY BalanceWitness DEF RefsInv
<1> DEFINE q == References(x)
           e == [i \in 0..Len(q) |-> b[Len(pipe)] + (IF a = x THEN i ELSE 0)]
<1>2. /\ q \in Seq(Message)
      /\ Len(q) = One(unlink_on_gc_collect) + One(x \notin temporary_memmaped_filenames)
      /\ \A i \in 1..Len(q) : q[i] = <<"register", x>>
  BY ReferencesType DEF References, One
<1>3. Len(q) \in Nat
  BY <1>2
<1> HIDE DEF q
<1>4. Sums(e, q, a, b[Len(pipe)], Enough)
  <2>1. e \in [0..Len(q) -> Int] /\ e[0] = b[Len(pipe)]
    BY <1>1, <1>3
  <2>2. ASSUME NEW i \in 1..Len(q)
        PROVE  /\ e[i] = e[i - 1] + Change(q[i], a)
               /\ q[i] # <<"maybe_unlink", a>>
    <3>1. q[i] = <<"register", x>>
      BY <1>2
    <3>2. Change(q[i], a) = IF a = x THEN 1 ELSE 0
      BY <3>1 DEF Change
    <3>3. e[i] = e[i - 1] + (IF a = x THEN 1 ELSE 0)
      BY <1>1, <1>3
    <3> QED
      BY <3>1, <3>2, <3>3
  <2> QED
    BY <2>1, <2>2 DEF Sums
<1>5. e[Len(q)] = b[Len(pipe)] + (IF a = x THEN Len(q) ELSE 0)
  BY <1>3
<1> HIDE DEF e
<1>6. PICK d : /\ Sums(d, pipe \o q, a, refs[a], Enough)
               /\ d[Len(pipe \o q)] = e[Len(q)]
  <2>1. pipe \in Seq(Message)
    BY DEF Typed, TypeOK
  <2> QED
    BY <1>1, <1>2, <1>4, <2>1, SumsConcat
<1>7. Sums(d, pipe, a, refs[a], Enough)'
  BY <1>6 DEF Register, Enough, q
<1>8. Counts(c, instructions, a, Cardinality(Holders(a)))'
  BY <1>1 DEF Register, Holders
<1>9. Covers(e[Len(q)], Owed(c, a)' + Kept(a)')
  <2>1. ~cleaned /\ ~cleaned' /\ pickling = NoArray /\ pickling' = x
        /\ instructions' = instructions /\ unlink_on_gc_collect' = unlink_on_gc_collect
    BY DEF Register, Typed, TypeOK
  <2>2. NoArray # a
    BY MemmapAssumption DEF MemmapAssumption
  <2>3. CASE a = x
    <3>1. Kept(a)' = 1 /\ Kept(a) = One(x \in temporary_memmaped_filenames)
      BY <2>1, <2>3 DEF Kept, One, Register
    <3> QED
      BY <1>1, <1>2, <1>5, <2>1, <2>2, <2>3, <3>1 DEF Owed, One, Covers
  <2>4. CASE a # x
    <3>1. Kept(a)' = Kept(a) /\ Kept(a) \in Int
      BY <2>1, <2>4 DEF Kept, One, Register
    <3> QED
      BY <1>1, <1>5, <2>1, <2>2, <2>4, <3>1 DEF Owed, One, Covers
  <2> QED
    BY <2>3, <2>4
<1>10. Covers(d[Len(pipe')], Owed(c, a)' + Kept(a)')
  BY <1>6, <1>9 DEF Register, q
<1>11. Exactly' = Exactly
  BY DEF Register, Exactly
<1> QED
  BY <1>7, <1>8, <1>10, <1>11 DEF Balanced, Covers

LEMMA ReturnBalanced ==
    ASSUME Typed, RefsInv, Return, NEW a \in Arrays
    PROVE  Balanced(a)'
<1>1. PICK b, c : /\ Sums(b, pipe, a, refs[a], Enough)
                  /\ Counts(c, instructions, a, Cardinality(Holders(a)))
                  /\ Covers(b[Len(pipe)], Owed(c, a) + Kept(a))
                  /\ b[Len(pipe)] \in Int /\ c[Len(instructions)] \in Nat
  BY BalanceWitness DEF RefsInv
<1>2. pickling \in Arrays /\ instructions \in Seq(Arrays) /\ pickling' # a
  BY MemmapAssumption DEF Return, Typed, TypeOK, MemmapAssumption
<1>3. PICK d : /\ Counts(d, Append(instructions, pickling), a, Cardinality(Holders(a)))
               /\ d[Len(Append(instructions, pickling))]
                    = c[Len(instructions)] + One(pickling = a)
  BY <1>1, <1>2, CountsAppend
<1>4. Counts(d, instructions, a, Cardinality(Holders(a)))'
  BY <1>3 DEF Return, Holders
<1>5. d[Len(instructions')] = c[Len(instructions)] + One(pickling = a)
  BY <1>3 DEF Return
<1>6. Sums(b, pipe, a, refs[a], Enough)' /\ Kept(a)' = Kept(a)
  BY <1>1 DEF Return, Enough, Kept
<1>7. Owed(d, a)' = Owed(c, a)
  BY <1>1, <1>2, <1>5 DEF Return, Owed, One
<1>8. Exactly' = Exactly /\ pipe' = pipe
  BY DEF Return, Exactly
<1> QED
  BY <1>1, <1>4, <1>6, <1>7, <1>8 DEF Balanced, Covers

LEMMA LoadBalanced ==
    ASSUME Typed, RefsInv, ~DumpMayFail => FilesInv, NEW w \in Workers, Load(w), NEW a \in Arrays
    PROVE  IsFiniteSet(Holders(a)') /\ Balanced(a)'
<1>1. PICK b, c : /\ Sums(b, pipe, a, refs[a], Enough)
                  /\ Counts(c, instructions, a, Cardinality(Holders(a)))
                  /\ Covers(b[Len(pipe)], Owed(c, a) + Kept(a))
                  /\ b[Len(pipe)] \in Int /\ c[Len(instructions)] \in Nat
  BY BalanceWitness DEF RefsInv
<1> DEFINE h == Head(instructions)
<1>2. instructions \in Seq(Arrays) /\ instructions # <<>> /\ h \in Arrays
  BY DEF Load, Typed, TypeOK
<1>3. w \notin Holders(a)
  BY MemmapAssumption DEF Load, Holders, MemmapAssumption
<1>4. Holders(a)' \in {Holders(a), Holders(a) \union {w}} /\ (h # a => Holders(a)' = Holders(a))
  <2>1. mapped' \in {mapped, [mapped EXCEPT ![w] = h]} /\ mapped[w] # a
    BY MemmapAssumption DEF Load, MemmapAssumption
  <2>2. mapped \in [Workers -> Arrays \union {NoArray}]
    BY DEF Typed, TypeOK
  <2>3. CASE mapped' = mapped
    BY <2>3 DEF Holders
  <2>4. CASE mapped' = [mapped EXCEPT ![w] = h]
    <3>1. CASE h = a
      BY <2>2, <2>4, <3>1 DEF Holders
    <3>2. CASE h # a
      BY <2>1, <2>2, <2>4, <3>2 DEF Holders
    <3> QED
      BY <3>1, <3>2
  <2> QED
    BY <2>1, <2>3, <2>4
<1> DEFINE n == Cardinality(Holders(a))
           v == Cardinality(Holders(a)')
<1>5. IsFiniteSet(Holders(a)) /\ n \in Nat
  BY FS_CardinalityType DEF RefsInv
<1>6. IsFiniteSet(Holders(a)') /\ v \in Nat /\ v <= n + One(h = a)
      /\ (~DumpMayFail => v = n + One(h = a))
  <2>1. IsFiniteSet(Holders(a) \union {w}) /\ Cardinality(Holders(a) \union {w}) = n + 1
    BY <1>3, <1>5, FS_AddElement
  <2>2. ~DumpMayFail /\ h = a => Holders(a)' = Holders(a) \union {w}
    <3> SUFFICES ASSUME ~DumpMayFail, h = a PROVE Holders(a)' = Holders(a) \union {w}
      OBVIOUS
    <3>1. files[h] = "complete"
      <4>1. h = instructions[1] /\ 1 \in 1..Len(instructions)
        BY <1>2
      <4> QED
        BY <4>1 DEF FilesInv
    <3>2. mapped' = [mapped EXCEPT ![w] = a] /\ mapped \in [Workers -> Arrays \union {NoArray}]
      BY <3>1 DEF Load, Typed, TypeOK
    <3> QED
      BY <3>2 DEF Holders
  <2> QED
    <3>1. CASE h = a
      <4>1. Holders(a)' = Holders(a) => v = n
        OBVIOUS
      <4>2. Holders(a)' = Holders(a) \union {w} => v = n + 1
        BY <2>1
      <4> HIDE DEF n, v
      <4>3. v \in {n, n + 1} /\ (~DumpMayFail => v = n + 1)
        BY <1>4, <2>2, <3>1, <4>1, <4>2
      <4>4. IsFiniteSet(Holders(a)')
        BY <1>4, <1>5, <2>1
      <4> QED
        BY <1>5, <3>1, <4>3, <4>4 DEF One
    <3>2. CASE h # a
      BY <1>4, <1>5, <3>2 DEF One
    <3> QED
      BY <3>1, <3>2
<1>7. PICK d : /\ Counts(d, Tail(instructions), a, v)
               /\ d[Len(Tail(instructions))] = c[Len(instructions)] - (n + One(h = a)) + v
  <2> HIDE DEF n, v
  <2>1. Counts(c, instructions, a, n)
    BY <1>1 DEF n
  <2> QED
    BY <1>2, <1>6, <2>1, CountsTail
<1>8. instructions' = Tail(instructions) /\ Tail(instructions) \in Seq(Arrays)
  BY <1>2 DEF Load
<1>9. Counts(d, instructions, a, Cardinality(Holders(a)))'
  BY <1>7, <1>8
<1>10. Sums(b, pipe, a, refs[a], Enough)' /\ Kept(a)' = Kept(a) /\ pipe' = pipe
       /\ Kept(a) \in Int
  BY <1>1 DEF Load, Enough, Kept, One
<1>11. d[Len(Tail(instructions))] \in Nat
  BY <1>7, <1>8 DEF Counts
<1>12. Owed(d, a)' <= Owed(c, a) /\ Owed(d, a)' \in Int /\ Owed(c, a) \in Int
       /\ (Exactly => Owed(d, a)' = Owed(c, a))
  <2>1. pickling' = pickling /\ unlink_on_gc_collect' = unlink_on_gc_collect
    BY DEF Load
  <2>2. n + One(h = a) \in Int
    BY <1>5 DEF One
  <2> HIDE DEF n, v
  <2>3. d[Len(Tail(instructions))] <= c[Len(instructions)]
        /\ (~DumpMayFail => d[Len(Tail(instructions))] = c[Len(instructions)])
    BY <1>1, <1>6, <1>7, <1>11, <2>2
  <2> QED
    BY <1>1, <1>8, <1>11, <2>1, <2>3 DEF Owed, One, Exactly
<1>13. Covers(b[Len(pipe')], Owed(d, a)' + Kept(a)')
  BY <1>1, <1>10, <1>12 DEF Covers
<1>14. Exactly' = Exactly
  BY DEF Load, Exactly
<1> QED
  BY <1>6, <1>9, <1>10, <1>13, <1>14 DEF Balanced, Covers

LEMMA CollectBalanced ==
    ASSUME Typed, RefsInv, NEW w \in Workers, Collect(w), NEW a \in Arrays
    PROVE  IsFiniteSet(Holders(a)') /\ Balanced(a)'
<1>1. PICK b, c : /\ Sums(b, pipe, a, refs[a], Enough)
                  /\ Counts(c, instructions, a, Cardinality(Holders(a)))
                  /\ Covers(b[Len(pipe)], Owed(c, a) + Kept(a))
                  /\ b[Len(pipe)] \in Int /\ c[Len(instructions)] \in Nat
  BY BalanceWitness DEF RefsInv
<1> DEFINE m == <<"maybe_unlink", mapped[w]>>
<1>2. /\ mapped[w] \in Arrays /\ m \in Message /\ pipe \in Seq(Message)
      /\ mapped[w] \in temporary_memmaped_filenames
      /\ instructions \in Seq(Arrays) /\ Len(instructions) \in Nat
  BY DEF Collect, Typed, TypeOK, Message, RefsInv, Known
<1>3. Holders(a)' = IF mapped[w] = a THEN Holders(a) \ {w} ELSE Holders(a)
  BY MemmapAssumption DEF Collect, Holders, Typed, TypeOK, MemmapAssumption
<1>4. mapped[w] = a => w \in Holders(a)
  BY DEF Holders
<1>5. IsFiniteSet(Holders(a)) /\ Cardinality(Holders(a)) \in Nat
      /\ (mapped[w] = a => Cardinality(Holders(a)) # 0)
  BY <1>4, FS_CardinalityType, FS_EmptySet DEF RefsInv
<1>6. IsFiniteSet(Holders(a)')
      /\ Cardinality(Holders(a)') = Cardinality(Holders(a)) - One(mapped[w] = a)
  <2>1. CASE mapped[w] = a
    <3>1. IsFiniteSet(Holders(a) \ {w})
          /\ Cardinality(Holders(a) \ {w}) = Cardinality(Holders(a)) - 1
      BY <1>4, <1>5, <2>1, FS_RemoveElement
    <3> QED
      BY <1>3, <2>1, <3>1 DEF One
  <2>2. CASE mapped[w] # a
    BY <1>3, <1>5, <2>2 DEF One
  <2> QED
    BY <2>1, <2>2
<1>7. PICK d : /\ Counts(d, instructions, a, Cardinality(Holders(a)'))
               /\ d[Len(instructions)] = c[Len(instructions)] - One(mapped[w] = a)
  <2>1. CASE mapped[w] = a
    <3>1. Cardinality(Holders(a)') = Cardinality(Holders(a)) - 1
          /\ Cardinality(Holders(a)) \in Nat \ {0}
      BY <1>5, <1>6, <2>1 DEF One
    <3>2. PICK f : /\ Counts(f, instructions, a, Cardinality(Holders(a)) - 1)
                   /\ f[Len(instructions)] = c[Len(instructions)] - 1
      BY <1>1, <1>2, <3>1, CountsFewer
    <3> QED
      BY <2>1, <3>1, <3>2 DEF One
  <2>2. CASE mapped[w] # a
    BY <1>1, <1>3, <2>2 DEF One
  <2> QED
    BY <2>1, <2>2
<1>8. Counts(d, instructions, a, Cardinality(Holders(a)))'
  BY <1>7 DEF Collect
<1>9. Enough' = Enough /\ Kept(a)' = Kept(a) /\ Kept(a) \in Int
  BY DEF Collect, Enough, Kept, One
<1>10. unlink_on_gc_collect /\ mapped[w] = a => b[Len(pipe)] >= Enough
  <2> SUFFICES ASSUME unlink_on_gc_collect, mapped[w] = a PROVE b[Len(pipe)] >= Enough
    OBVIOUS
  <2>1. c[Len(instructions)] >= 1
    <3>1. c[0] = Cardinality(Holders(a)) /\ c[0] <= c[Len(instructions)]
      BY <1>1, <1>2 DEF Counts
    <3> QED
      BY <1>1, <1>5, <3>1
  <2>2. Kept(a) = One(~cleaned)
    BY <1>2 DEF Kept, One
  <2>3. Owed(c, a) >= c[Len(instructions)] /\ Owed(c, a) \in Int
    BY <1>1 DEF Owed, One
  <2> QED
    BY <1>1, <2>1, <2>2, <2>3 DEF Enough, One, Covers
<1>11. Exactly' = Exactly
  BY DEF Collect, Exactly
<1>12. CASE unlink_on_gc_collect
  <2>1. Change(m, a) = -One(mapped[w] = a) /\ (m = <<"maybe_unlink", a>> => mapped[w] = a)
    BY DEF Change, One
  <2> HIDE DEF m
  <2>2. PICK f : /\ Sums(f, Append(pipe, m), a, refs[a], Enough)
                 /\ f[Len(Append(pipe, m))] = b[Len(pipe)] + Change(m, a)
    BY <1>1, <1>2, <1>10, <1>12, <2>1, SumsAppend
  <2>3. pipe' = Append(pipe, m)
    BY <1>12 DEF Collect, m
  <2>4. Sums(f, pipe, a, refs[a], Enough)' /\ f[Len(pipe')] = b[Len(pipe)] - One(mapped[w] = a)
    BY <1>1, <1>9, <2>1, <2>2, <2>3 DEF Collect, One
  <2>5. Owed(d, a)' = Owed(c, a) - One(mapped[w] = a) /\ Owed(c, a) \in Int
    BY <1>1, <1>7, <1>12 DEF Collect, Owed, One
  <2>6. Covers(f[Len(pipe')], Owed(d, a)' + Kept(a)')
    BY <1>1, <1>9, <2>4, <2>5 DEF One, Covers
  <2> QED
    BY <1>6, <1>8, <1>11, <2>4, <2>6 DEF Balanced, Covers
<1>13. CASE ~unlink_on_gc_collect
  <2>1. Sums(b, pipe, a, refs[a], Enough)' /\ pipe' = pipe
    BY <1>1, <1>9, <1>13 DEF Collect
  <2>2. Owed(d, a)' = 0 /\ Owed(c, a) = 0
    BY <1>13 DEF Collect, Owed
  <2> QED
    BY <1>1, <1>6, <1>8, <1>9, <1>11, <2>1, <2>2 DEF Balanced, Covers
<1> QED
  BY <1>12, <1>13

LEMMA CleanBalanced ==
    ASSUME Typed, RefsInv, CleanTemporaryResources, NEW a \in Arrays
    PROVE  Balanced(a)'
<1>1. PICK b, c : /\ Sums(b, pipe, a, refs[a], Enough)
                  /\ Counts(c, instructions, a, Cardinality(Holders(a)))
                  /\ Covers(b[Len(pipe)], Owed(c, a) + Kept(a))
                  /\ b[Len(pipe)] \in Int /\ c[Len(instructions)] \in Nat
  BY BalanceWitness DEF RefsInv
<1> DEFINE q == SetToSeq(Given(temporary_memmaped_filenames))
           given == <<"maybe_unlink", a>>
           e == [i \in 0..Len(q) |-> b[Len(pipe)] - One(\E k \in 1..i : q[k] = given)]
<1>2. /\ q \in Seq(Message) /\ pipe \in Seq(Message)
      /\ \A x \in Given(temporary_memmaped_filenames) : \E k \in 1..Len(q) : q[k] = x
      /\ \A j, k \in 1..Len(q) : q[j] = q[k] => j = k
  BY SetToSeqLists, GivenType DEF Typed, TypeOK
<1>3. \A i \in 1..Len(q) : q[i] \in Given(temporary_memmaped_filenames)
  BY SetToSeqLists DEF Typed
<1>4. Len(q) \in Nat
  BY <1>2
<1>5. pipe' = pipe \o q
  BY DEF CleanTemporaryResources, Given
<1> HIDE DEF q
<1>6. given \in Given(temporary_memmaped_filenames) <=> a \in temporary_memmaped_filenames
  BY DEF Given
<1>7. \A i \in 1..Len(q) : Change(q[i], a) = -One(q[i] = given)
  BY <1>3 DEF Given, Change, One
<1>8. Owed(c, a) \in Nat /\ ~cleaned /\ cleaned'
  BY <1>1 DEF CleanTemporaryResources, Owed, One
<1>9. Enough = 2 /\ Enough' = 1
  BY <1>8 DEF Enough
<1>10. (\E k \in 1..Len(q) : q[k] = given) => b[Len(pipe)] >= 1
  BY <1>1, <1>3, <1>6, <1>8 DEF Kept, One, Covers
<1> HIDE DEF given
<1>11. Sums(e, q, a, b[Len(pipe)], 1)
  <2>1. e \in [0..Len(q) -> Int] /\ e[0] = b[Len(pipe)]
    BY <1>1, <1>4 DEF One
  <2>2. ASSUME NEW i \in 1..Len(q)
        PROVE  /\ e[i] = e[i - 1] + Change(q[i], a)
               /\ q[i] = given => e[i - 1] >= 1
    <3>1. e[i] = b[Len(pipe)] - One(\E k \in 1..i : q[k] = given)
          /\ e[i - 1] = b[Len(pipe)] - One(\E k \in 1..(i - 1) : q[k] = given)
      BY <1>4
    <3>2. q[i] = given => /\ \E k \in 1..i : q[k] = given
                          /\ ~\E k \in 1..(i - 1) : q[k] = given
      BY <1>2, <1>4
    <3>3. q[i] # given => ((\E k \in 1..i : q[k] = given)
                              <=> (\E k \in 1..(i - 1) : q[k] = given))
      BY <1>4
    <3>4. CASE q[i] = given
      <4>1. e[i] = b[Len(pipe)] - 1 /\ e[i - 1] = b[Len(pipe)] /\ Change(q[i], a) = -1
        BY <1>1, <1>7, <3>1, <3>2, <3>4 DEF One
      <4> QED
        BY <1>1, <1>10, <3>4, <4>1
    <3>5. CASE q[i] # given
      <4>1. e[i] = e[i - 1] /\ Change(q[i], a) = 0 /\ e[i - 1] \in Int
        BY <1>1, <1>7, <3>1, <3>3, <3>5 DEF One
      <4> QED
        BY <3>5, <4>1
    <3> QED
      BY <3>4, <3>5
  <2> QED
    BY <2>1, <2>2 DEF Sums, given
<1>12. e[Len(q)] = b[Len(pipe)] - Kept(a)
  <2>1. (\E k \in 1..Len(q) : q[k] = given) <=> a \in temporary_memmaped_filenames
    BY <1>2, <1>3, <1>6
  <2> QED
    BY <1>4, <1>8, <2>1 DEF Kept, One
<1> HIDE DEF e
<1>13. Sums(b, pipe, a, refs[a], 1)
  <2>1. Sums(b, pipe, a, refs[a], 2)
    BY <1>1, <1>9
  <2>2. ASSUME NEW i \in 1..Len(pipe), b[i - 1] >= 2 PROVE b[i - 1] >= 1
    <3>1. i - 1 \in 0..Len(pipe)
      BY <1>2
    <3>2. b[i - 1] \in Int
      BY <2>1, <3>1 DEF Sums
    <3> QED
      BY <2>2, <3>2
  <2> QED
    BY <2>1, <2>2 DEF Sums
<1>14. PICK d : Sums(d, pipe \o q, a, refs[a], 1) /\ d[Len(pipe \o q)] = e[Len(q)]
  BY <1>2, <1>11, <1>13, SumsConcat
<1>15. Sums(d, pipe, a, refs[a], Enough)'
  BY <1>5, <1>9, <1>14 DEF CleanTemporaryResources
<1>16. Counts(c, instructions, a, Cardinality(Holders(a)))'
  BY <1>1 DEF CleanTemporaryResources, Holders
<1>17. Owed(c, a)' = Owed(c, a) /\ Kept(a)' = 0 /\ Kept(a) \in Int
  BY <1>8 DEF CleanTemporaryResources, Owed, Kept, One
<1>18. Covers(d[Len(pipe')], Owed(c, a)' + Kept(a)')
  BY <1>1, <1>5, <1>8, <1>12, <1>14, <1>17 DEF Covers
<1>19. Exactly' = Exactly
  BY DEF CleanTemporaryResources, Exactly
<1> QED
  BY <1>15, <1>16, <1>18, <1>19 DEF Balanced, Covers

\* The tracker never reads a maybe_unlink for a file it counts too little.
LEMMA HeadIsCovered ==
    ASSUME Typed, RefsInv, pipe # <<>>, Head(pipe)[1] = "maybe_unlink"
    PROVE  Head(pipe)[2] \in Arrays /\ refs[Head(pipe)[2]] >= Enough
<1> DEFINE a == Head(pipe)[2]
<1>1. a \in Arrays /\ Head(pipe) = <<"maybe_unlink", a>> /\ pipe[1] = Head(pipe)
      /\ Len(pipe) \in Nat \ {0}
  BY DEF Typed, TypeOK, Message
<1>2. PICK b : Sums(b, pipe, a, refs[a], Enough)
  BY <1>1 DEF RefsInv, Balanced
<1>3. b[1 - 1] >= Enough /\ b[0] = refs[a]
  BY <1>1, <1>2 DEF Sums
<1> QED
  BY <1>1, <1>3

LEMMA TrackBalanced ==
    ASSUME Typed, RefsInv, Track, NEW a \in Arrays
    PROVE  Balanced(a)'
<1>1. PICK b, c : /\ Sums(b, pipe, a, refs[a], Enough)
                  /\ Counts(c, instructions, a, Cardinality(Holders(a)))
                  /\ Covers(b[Len(pipe)], Owed(c, a) + Kept(a))
                  /\ b[Len(pipe)] \in Int /\ c[Len(instructions)] \in Nat
  BY BalanceWitness DEF RefsInv
<1>2. /\ pipe \in Seq(Message) /\ pipe # <<>> /\ pipe' = Tail(pipe)
      /\ Head(pipe)[2] \in Arrays /\ Head(pipe)[1] \in {"register", "maybe_unlink"}
      /\ refs \in [Arrays -> Nat]
  BY DEF Track, Typed, TypeOK, Message
<1>3. refs'[a] = refs[a] + Change(Head(pipe), a)
  <2>1. CASE Head(pipe)[1] = "register"
    BY <1>2, <2>1 DEF Track, Change
  <2>2. CASE Head(pipe)[1] = "maybe_unlink"
    <3>1. refs[Head(pipe)[2]] # 0
      BY <1>2, <2>2, HeadIsCovered DEF Enough
    <3> QED
      BY <1>2, <2>2, <3>1 DEF Track, Change
  <2> QED
    BY <1>2, <2>1, <2>2
<1>4. PICK d : /\ Sums(d, Tail(pipe), a, refs[a] + Change(Head(pipe), a), Enough)
               /\ d[Len(Tail(pipe))] = b[Len(pipe)]
  <2>1. refs[a] \in Int
    BY <1>2
  <2> QED
    BY <1>1, <1>2, <2>1, SumsTail
<1>5. Enough' = Enough /\ Kept(a)' = Kept(a) /\ Owed(c, a)' = Owed(c, a)
      /\ Counts(c, instructions, a, Cardinality(Holders(a)))'
  BY <1>1 DEF Track, Enough, Kept, Owed, Holders
<1>6. Sums(d, pipe, a, refs[a], Enough)'
  BY <1>2, <1>3, <1>4, <1>5
<1>7. Exactly' = Exactly
  BY DEF Track, Exactly
<1> QED
  BY <1>1, <1>2, <1>4, <1>5, <1>6, <1>7 DEF Balanced, Covers

LEMMA RefsInvNext == 
    Typed /\ RefsInv /\ (~DumpMayFail => FilesInv) /\ [Next]_vars => RefsInv'
<1> SUFFICES ASSUME Typed, RefsInv, ~DumpMayFail => FilesInv, [Next]_vars PROVE RefsInv'
  OBVIOUS
<1>1. ASSUME NEW x \in Arrays, Register(x) PROVE RefsInv'
  <2>1. Known'
    BY <1>1 DEF Register, RefsInv, Known
  <2>2. \A a \in Arrays : Holders(a)' = Holders(a)
    BY <1>1 DEF Register, Holders
  <2> QED
    BY <1>1, <2>1, <2>2, RegisterBalanced DEF RefsInv
<1>2. CASE Exists \/ Dump \/ UNCHANGED vars
  <2>1. /\ refs' = refs /\ cleaned' = cleaned /\ pipe' = pipe
        /\ instructions' = instructions /\ mapped' = mapped
        /\ temporary_memmaped_filenames' = temporary_memmaped_filenames
        /\ unlink_on_gc_collect' = unlink_on_gc_collect
        /\ pickling' \in {pickling, NoArray}
    BY <1>2 DEF Exists, Dump, vars
  <2>2. Known'
    BY <1>2, <2>1 DEF RefsInv, Known, Exists, Dump, vars
  <2>3. \A a \in Arrays : Holders(a)' = Holders(a)
    BY <2>1 DEF Holders
  <2>4. Exactly => pickling' = pickling \/ ~unlink_on_gc_collect
    BY <1>2 DEF Exactly, Exists, Dump, vars
  <2> QED
    BY <2>1, <2>2, <2>3, <2>4, QuietBalanced DEF RefsInv
<1>3. CASE Return
  <2>1. Known'
    BY <1>3 DEF Return, RefsInv, Known, Typed, TypeOK
  <2>2. \A a \in Arrays : Holders(a)' = Holders(a)
    BY <1>3 DEF Return, Holders
  <2> QED
    BY <1>3, <2>1, <2>2, ReturnBalanced DEF RefsInv
<1>4. ASSUME NEW w \in Workers, Load(w) PROVE RefsInv'
  <2>1. /\ instructions \in Seq(Arrays) /\ instructions # <<>>
        /\ instructions' = Tail(instructions) /\ Head(instructions) = instructions[1]
        /\ \A i \in 1..Len(instructions') : instructions'[i] = instructions[i + 1]
        /\ Len(instructions') = Len(instructions) - 1 /\ Len(instructions) \in Nat \ {0}
    BY <1>4 DEF Load, Typed, TypeOK
  <2>2. \A i \in 1..Len(instructions') : instructions'[i] \in temporary_memmaped_filenames
    BY <2>1 DEF RefsInv, Known
  <2>3. Head(instructions) \in temporary_memmaped_filenames
    BY <2>1 DEF RefsInv, Known
  <2>4. \A v \in Workers : mapped'[v] # NoArray => mapped'[v] \in temporary_memmaped_filenames
    BY <1>4, <2>3 DEF Load, RefsInv, Known, Typed, TypeOK
  <2>5. ~cleaned /\ ~cleaned'
    BY <1>4, <2>1 DEF Load, RefsInv, Known
  <2>6. Known'
    BY <1>4, <2>2, <2>4, <2>5 DEF Load, RefsInv, Known
  <2> QED
    BY <1>4, <2>6, LoadBalanced DEF RefsInv
<1>5. ASSUME NEW w \in Workers, Collect(w) PROVE RefsInv'
  <2>1. Known'
    BY <1>5 DEF Collect, RefsInv, Known, Typed, TypeOK
  <2> QED
    BY <1>5, <2>1, CollectBalanced DEF RefsInv
<1>6. CASE CleanTemporaryResources
  <2>1. Known'
    BY <1>6 DEF CleanTemporaryResources, RefsInv, Known
  <2>2. \A a \in Arrays : Holders(a)' = Holders(a)
    BY <1>6 DEF CleanTemporaryResources, Holders
  <2> QED
    BY <1>6, <2>1, <2>2, CleanBalanced DEF RefsInv
<1>7. CASE Track
  <2>1. Known'
    BY <1>7 DEF Track, RefsInv, Known
  <2>2. \A a \in Arrays : Holders(a)' = Holders(a)
    BY <1>7 DEF Track, Holders
  <2> QED
    BY <1>7, <2>1, <2>2, TrackBalanced DEF RefsInv
<1> QED
  BY <1>1, <1>2, <1>3, <1>4, <1>5, <1>6, <1>7 DEF Next, Reduce

LEMMA FilesInvNext ==
    ASSUME ~DumpMayFail
    PROVE  Typed /\ RefsInv /\ FilesInv /\ [Next]_vars => FilesInv'
<1> SUFFICES ASSUME Typed, RefsInv, FilesInv, [Next]_vars PROVE FilesInv'
  OBVIOUS
<1>1. ASSUME NEW x \in Arrays, Register(x) PROVE FilesInv'
  BY <1>1 DEF Register, FilesInv
<1>2. CASE Exists
  <2>1. pickling \in Arrays /\ files[pickling] \in {"absent", "complete"}
    BY <1>2 DEF Exists, FilesInv, Typed, TypeOK
  <2>2. pc' = "return" => files[pickling] = "complete"
    BY <1>2, <2>1 DEF Exists
  <2> QED
    BY <1>2, <2>2 DEF Exists, FilesInv
<1>3. CASE Dump
  <2>1. /\ pickling \in Arrays /\ files \in [Arrays -> {"absent", "partial", "complete"}]
        /\ \A i \in 1..Len(instructions) : instructions[i] \in Arrays
        /\ files' = [files EXCEPT ![pickling] = "complete"] /\ pickling' = pickling
        /\ instructions' = instructions /\ failed' = failed
    BY <1>3 DEF Dump, Typed, TypeOK
  <2> QED
    BY <2>1 DEF FilesInv
<1>4. CASE Return
  <2>1. /\ instructions' = Append(instructions, pickling) /\ files' = files
        /\ instructions \in Seq(Arrays) /\ Len(instructions) \in Nat
        /\ files[pickling] = "complete"
    BY <1>4 DEF Return, FilesInv, Typed, TypeOK
  <2>2. \A i \in 1..Len(instructions') : files[instructions'[i]] = "complete"
    BY <2>1 DEF FilesInv
  <2> QED
    BY <1>4, <2>1, <2>2 DEF Return, FilesInv
<1>5. ASSUME NEW w \in Workers, Load(w) PROVE FilesInv'
  <2>1. /\ instructions \in Seq(Arrays) /\ instructions # <<>>
        /\ instructions' = Tail(instructions) /\ Head(instructions) = instructions[1]
        /\ \A i \in 1..Len(instructions') : instructions'[i] = instructions[i + 1]
        /\ Len(instructions') = Len(instructions) - 1 /\ Len(instructions) \in Nat \ {0}
    BY <1>5 DEF Load, Typed, TypeOK
  <2>2. files[Head(instructions)] = "complete"
    BY <2>1 DEF FilesInv
  <2> QED
    BY <1>5, <2>1, <2>2 DEF Load, FilesInv
<1>6. ASSUME NEW w \in Workers, Collect(w) PROVE FilesInv'
  BY <1>6 DEF Collect, FilesInv
<1>7. CASE CleanTemporaryResources
  BY <1>7 DEF CleanTemporaryResources, FilesInv
<1>8. CASE Track
  <2>1. CASE files' = files
    BY <1>8, <2>1 DEF Track, FilesInv
  <2>2. CASE files' # files
    <3>1. Head(pipe)[1] = "maybe_unlink" /\ pipe # <<>> /\ refs[Head(pipe)[2]] = 1
          /\ files' = [files EXCEPT ![Head(pipe)[2]] = "absent"]
      BY <1>8, <2>2 DEF Track, Typed, TypeOK, Message
    <3>2. cleaned
      BY <3>1, HeadIsCovered DEF Enough
    <3>3. pc = "idle" /\ instructions = <<>>
      BY <3>2 DEF RefsInv, Known
    <3> QED
      BY <1>8, <3>1, <3>3 DEF Track, FilesInv, Typed, TypeOK
  <2> QED
    BY <2>1, <2>2
<1>9. CASE UNCHANGED vars
  BY <1>9 DEF vars, FilesInv
<1> QED
  BY <1>1, <1>2, <1>3, <1>4, <1>5, <1>6, <1>7, <1>8, <1>9 DEF Next, Reduce

LEMMA ReferencesCounted ==
    Spec => []Typed /\ []RefsInv /\ [](~DumpMayFail => FilesInv)
<1> DEFINE Files == ~DumpMayFail => FilesInv
<1>1. Init => Files
  BY DEF Init, FilesInv
<1>2. Typed /\ RefsInv /\ Files /\ [Next]_vars => Files'
  BY FilesInvNext
<1>3. Typed /\ RefsInv /\ Files /\ [Next]_vars => RefsInv'
  BY RefsInvNext
<1>4. Files => (~DumpMayFail => FilesInv)
  OBVIOUS
<1> HIDE DEF Files
<1> QED
  BY <1>1, <1>2, <1>3, <1>4, TypedInit, TypedNext, RefsInvInit, PTL DEF Spec

-----------------------------------------------------------------------------
(***************************************************************************)
(* The tracker never warns of a reference it does not count, not even      *)
(* after a dump that failed or a load that did.                            *)
(***************************************************************************)
THEOREM TrackerNeverWarns == Spec => []TrackerSilent
<1>1. Typed /\ RefsInv => TrackerSilent
  <2> SUFFICES ASSUME Typed, RefsInv, pipe # <<>>, Head(pipe)[1] = "maybe_unlink"
               PROVE  refs[Head(pipe)[2]] > 0
    BY DEF TrackerSilent
  <2>1. Head(pipe)[2] \in Arrays /\ refs[Head(pipe)[2]] >= Enough
    BY HeadIsCovered
  <2>2. refs[Head(pipe)[2]] \in Nat
    BY <2>1 DEF Typed, TypeOK
  <2> QED
    BY <2>1, <2>2 DEF Enough
<1> QED
  BY <1>1, ReferencesCounted, PTL

(***************************************************************************)
(* When dumps do not fail, every worker finds the whole array in the file  *)
(* it is told to load.                                                     *)
(***************************************************************************)
THEOREM WorkersFindTheirFiles == ASSUME ~DumpMayFail PROVE Spec => []LoadsSucceed
<1>1. (~DumpMayFail => FilesInv) => LoadsSucceed
  BY DEF FilesInv, LoadsSucceed
<1> QED
  BY <1>1, ReferencesCounted, PTL

-----------------------------------------------------------------------------
(***************************************************************************)
(* A file that exists, or may be dumped, is one whose references the       *)
(* tracker counts or is about to count, so that it will unlink the file.   *)
(***************************************************************************)
Due(a) == files[a] # "absent" \/ (a \in temporary_memmaped_filenames /\ ~cleaned)
Registering(a) == \E i \in 1..Len(pipe) : pipe[i] = <<"register", a>>
CountedInv == \A a \in Arrays : Due(a) => refs[a] > 0 \/ Registering(a)

\* Messages are read in order, and none is lost.
LEMMA RegisteringGrows ==
    ASSUME NEW s \in Seq(Message), NEW q \in Seq(Message), NEW m, NEW i \in 1..Len(s),
           s[i] = m
    PROVE  \E k \in 1..Len(s \o q) : (s \o q)[k] = m
<1>1. i \in 1..Len(s \o q) /\ (s \o q)[i] = s[i]
  OBVIOUS
<1> QED
  BY <1>1

LEMMA CountedNext == Typed /\ RefsInv /\ CountedInv /\ [Next]_vars => CountedInv'
<1> SUFFICES ASSUME Typed, RefsInv, CountedInv, [Next]_vars, NEW a \in Arrays, Due(a)'
             PROVE  refs'[a] > 0 \/ Registering(a)'
  BY DEF CountedInv
<1>1. pipe \in Seq(Message) /\ refs \in [Arrays -> Nat]
  BY DEF Typed, TypeOK
<1>2. Due(a) => refs[a] > 0 \/ Registering(a)
  BY DEF CountedInv
<1>3. ASSUME Due(a), refs' = refs, NEW q \in Seq(Message), pipe' = pipe \o q
      PROVE  refs'[a] > 0 \/ Registering(a)'
  <2>1. CASE refs[a] > 0
    BY <1>3, <2>1
  <2>2. CASE Registering(a)
    <3>1. PICK i \in 1..Len(pipe) : pipe[i] = <<"register", a>>
      BY <2>2 DEF Registering
    <3> QED
      BY <1>1, <1>3, <3>1, RegisteringGrows DEF Registering
  <2> QED
    BY <1>2, <1>3, <2>1, <2>2
<1>4. ASSUME Due(a), refs' = refs, pipe' = pipe PROVE refs'[a] > 0 \/ Registering(a)'
  BY <1>2, <1>4 DEF Registering
<1>5. ASSUME NEW x \in Arrays, Register(x) PROVE refs'[a] > 0 \/ Registering(a)'
  <2>1. References(x) \in Seq(Message) /\ pipe' = pipe \o References(x) /\ refs' = refs
    BY <1>5, ReferencesType DEF Register
  <2>2. CASE Due(a)
    BY <1>3, <2>1, <2>2
  <2>3. CASE ~Due(a)
    <3>1. a = x /\ a \notin temporary_memmaped_filenames
      BY <1>5, <2>3 DEF Register, Due
    <3> DEFINE q == References(x)
    <3>2. Len(q) \in Nat \ {0} /\ q[Len(q)] = <<"register", a>>
      BY <3>1 DEF References
    <3>3. Len(pipe \o q) \in 1..Len(pipe \o q) /\ (pipe \o q)[Len(pipe \o q)] = q[Len(q)]
      <4> HIDE DEF q
      <4>1. q \in Seq(Message)
        BY <2>1 DEF q
      <4> QED
        BY <1>1, <3>2, <4>1
    <3> QED
      BY <2>1, <3>2, <3>3 DEF Registering
  <2> QED
    BY <2>2, <2>3
<1>6. CASE Exists \/ Dump \/ Return \/ UNCHANGED vars
  <2>1. refs' = refs /\ pipe' = pipe
        /\ temporary_memmaped_filenames' = temporary_memmaped_filenames /\ cleaned' = cleaned
    BY <1>6 DEF Exists, Dump, Return, vars
  <2>2. Due(a)
    <3>1. CASE files'[a] = files[a]
      BY <2>1, <3>1 DEF Due
    <3>2. CASE files'[a] # files[a]
      <4>1. Dump /\ a = pickling
        BY <1>6, <3>2 DEF Exists, Dump, Return, vars, Typed, TypeOK
      <4>2. pickling # NoArray /\ pc # "idle"
        BY <4>1, MemmapAssumption DEF MemmapAssumption, Dump
      <4> QED
        BY <4>1, <4>2 DEF Due, RefsInv, Known
    <3> QED
      BY <3>1, <3>2
  <2> QED
    BY <1>4, <2>1, <2>2
<1>7. ASSUME NEW w \in Workers, Load(w) PROVE refs'[a] > 0 \/ Registering(a)'
  BY <1>4, <1>7 DEF Load, Due
<1>8. ASSUME NEW w \in Workers, Collect(w) PROVE refs'[a] > 0 \/ Registering(a)'
  <2> DEFINE m == <<"maybe_unlink", mapped[w]>>
  <2>1. m \in Message
    BY <1>8 DEF Collect, Typed, TypeOK, Message
  <2>2. pipe' = Append(pipe, m) \/ pipe' = pipe
    BY <1>8 DEF Collect
  <2>3. Due(a) /\ refs' = refs
    BY <1>8 DEF Collect, Due
  <2> HIDE DEF m
  <2>4. <<m>> \in Seq(Message) /\ Append(pipe, m) = pipe \o <<m>>
    BY <1>1, <2>1
  <2> QED
    BY <1>3, <1>4, <2>2, <2>3, <2>4
<1>9. CASE CleanTemporaryResources
  <2>1. SetToSeq(Given(temporary_memmaped_filenames)) \in Seq(Message)
    BY GivenType
  <2>2. Due(a) /\ refs' = refs /\ pipe' = pipe \o SetToSeq(Given(temporary_memmaped_filenames))
    BY <1>9 DEF CleanTemporaryResources, Due, Given
  <2> QED
    BY <1>3, <2>1, <2>2
<1>10. CASE Track
  <2> DEFINE x == Head(pipe)[2]
  <2>1. /\ x \in Arrays /\ pipe # <<>> /\ pipe' = Tail(pipe) /\ Head(pipe) = pipe[1]
        /\ Head(pipe) = <<Head(pipe)[1], x>> /\ Head(pipe)[1] \in {"register", "maybe_unlink"}
    BY <1>1, <1>10 DEF Track, Message
  <2>2. /\ temporary_memmaped_filenames' = temporary_memmaped_filenames
        /\ cleaned' = cleaned
    BY <1>10 DEF Track
  <2>3. Due(a)
    BY <1>10, <2>1, <2>2 DEF Track, Due, Typed, TypeOK
  <2>4. CASE Head(pipe)[1] = "register" /\ a = x
    BY <1>1, <1>10, <2>1, <2>4 DEF Track
  <2>5. CASE Head(pipe)[1] = "maybe_unlink" /\ a = x
    <3>1. refs[a] >= Enough /\ refs[a] \in Nat
      BY <1>1, <2>1, <2>5, HeadIsCovered
    <3>2. refs'[a] = refs[a] - 1
      BY <1>1, <1>10, <2>1, <2>5, <3>1 DEF Track, Enough
    <3>3. refs[a] # 1
      <4>1. refs[a] = 1 => files'[a] = "absent" /\ cleaned
        BY <1>10, <2>1, <2>5, <3>1 DEF Track, Enough, Typed, TypeOK
      <4> QED
        BY <2>2, <4>1 DEF Due
    <3> QED
      BY <3>1, <3>2, <3>3 DEF Enough
  <2>6. CASE a # x
    <3>1. refs'[a] = refs[a]
      BY <1>1, <1>10, <2>1, <2>6 DEF Track
    <3>2. ASSUME NEW i \in 1..Len(pipe), pipe[i] = <<"register", a>> PROVE Registering(a)'
      <4>1. i # 1
        BY <2>1, <2>6, <3>2
      <4>2. i - 1 \in 1..Len(Tail(pipe)) /\ Tail(pipe)[i - 1] = pipe[i]
        BY <1>1, <2>1, <4>1
      <4> QED
        BY <2>1, <3>2, <4>2 DEF Registering
    <3> QED
      BY <1>2, <2>3, <3>1, <3>2 DEF Registering
  <2> QED
    BY <2>1, <2>4, <2>5, <2>6
<1> QED
  BY <1>5, <1>6, <1>7, <1>8, <1>9, <1>10 DEF Next, Reduce

(***************************************************************************)
(* The references the reducer and the workers register are all given back, *)
(* so that no file is left behind, except when a dump fails while workers  *)
(* hold references: then the one of the worker is never given back.        *)
(***************************************************************************)
THEOREM NoFileLeaks ==
    Spec => [](~DumpMayFail \/ ~unlink_on_gc_collect => NoFileLeft)
<1>1. Init => CountedInv
  BY DEF Init, CountedInv, Due
<1>2. ASSUME Typed, RefsInv, CountedInv
      PROVE  Exactly => NoFileLeft
  <2> SUFFICES ASSUME Exactly, cleaned, pipe = <<>>,
                      unlink_on_gc_collect => \A w \in Workers : mapped[w] = NoArray,
                      NEW a \in Arrays
               PROVE  files[a] = "absent"
    BY DEF NoFileLeft
  <2>1. PICK b, c : /\ Sums(b, pipe, a, refs[a], Enough)
                    /\ Counts(c, instructions, a, Cardinality(Holders(a)))
                    /\ Covers(b[Len(pipe)], Owed(c, a) + Kept(a))
    BY <1>2 DEF RefsInv, Balanced
  <2>2. b[Len(pipe)] = refs[a] /\ c[Len(instructions)] = Cardinality(Holders(a))
    <3>1. Len(pipe) = 0 /\ Len(instructions) = 0
      BY <1>2 DEF RefsInv, Known
    <3> QED
      BY <2>1, <3>1 DEF Sums, Counts
  <2>3. unlink_on_gc_collect => Cardinality(Holders(a)) = 0
    <3> SUFFICES ASSUME unlink_on_gc_collect PROVE Cardinality(Holders(a)) = 0
      OBVIOUS
    <3>1. Holders(a) = {}
      BY MemmapAssumption DEF Holders, MemmapAssumption
    <3> QED
      BY <3>1, FS_EmptySet
  <2>4. pickling # a
    BY <1>2, MemmapAssumption DEF RefsInv, Known, Typed, TypeOK, MemmapAssumption
  <2>5. Owed(c, a) = 0 /\ Kept(a) = 0
    BY <2>2, <2>3, <2>4 DEF Owed, Kept, One
  <2>6. refs[a] = 0
    BY <2>1, <2>2, <2>5 DEF Covers
  <2>7. ~Registering(a)
    BY DEF Registering
  <2> QED
    BY <1>2, <2>6, <2>7 DEF CountedInv, Due
<1>3. Typed /\ RefsInv /\ CountedInv => (~DumpMayFail \/ ~unlink_on_gc_collect => NoFileLeft)
  BY <1>2 DEF Exactly
<1> QED
  BY <1>1, <1>3, CountedNext, ReferencesCounted, PTL DEF Spec
=============================================================================
