------------------------ MODULE BatchOutcome_proofs -------------------------
(***************************************************************************)
(* Theorems about BatchOutcome, for every number of threads that read the  *)
(* outcome or register one.                                                *)
(***************************************************************************)
EXTENDS BatchOutcome, TLAPS

OutcomeType ==
    /\ job \in Outcomes \union {"running"}
    /\ callback \in 0..2
    /\ result \in Outcomes \union {"unset", "timeout"}
    /\ registrar \in [Registrars -> {"idle", "tested", "result", "finished"}]
    /\ reader \in [Readers -> Outcomes \union {"idle", "tested", "TimeoutError",
                                               "unset", "timeout"}]

(***************************************************************************)
(* A status that is set has its result set before it.                      *)
(***************************************************************************)
ResultFirst ==
    /\ status # "Pending" => result # "unset"
    /\ callback # 0 => result # "unset"
    /\ \A w \in Registrars : registrar[w] = "result" => result # "unset"
    /\ \A r \in Readers : /\ reader[r] = "tested" => result # "unset"
                          /\ reader[r] # "unset"

LEMMA OutcomeTyped == Spec => []OutcomeType
<1>1. Init => OutcomeType
  BY DEF Init, OutcomeType, Outcomes
<1>2. OutcomeType /\ [Next]_vars => OutcomeType'
  <2> SUFFICES ASSUME OutcomeType, [Next]_vars PROVE OutcomeType'
    OBVIOUS
  <2> USE DEF OutcomeType, Outcomes
  <2>1. CASE TaskEnds
    BY <2>1 DEF TaskEnds
  <2>2. CASE RetrieveResult
    BY <2>2 DEF RetrieveResult
  <2>3. CASE \E w \in Registrars : RegisterTest(w) \/ RegisterResult(w) \/ RegisterStatus(w)
    BY <2>3 DEF RegisterTest, RegisterResult, RegisterStatus
  <2>4. CASE \E r \in Readers : GetStatus(r) \/ GetResult(r)
    BY <2>4 DEF GetStatus, GetResult
  <2>5. CASE UNCHANGED vars
    BY <2>5 DEF vars
  <2> QED
    BY <2>1, <2>2, <2>3, <2>4, <2>5 DEF Next
<1> QED
  BY <1>1, <1>2, PTL DEF Spec

(***************************************************************************)
(* A reader that sees the status set finds a result.                       *)
(***************************************************************************)
THEOREM ResultBeforeStatus == Spec => []ReadersFindResult
<1>1. Init => ResultFirst
  BY DEF Init, ResultFirst
<1>2. OutcomeType /\ ResultFirst /\ [Next]_vars => ResultFirst'
  <2> SUFFICES ASSUME OutcomeType, ResultFirst, [Next]_vars PROVE ResultFirst'
    OBVIOUS
  <2> USE DEF OutcomeType, ResultFirst, Outcomes
  <2>1. CASE TaskEnds
    BY <2>1 DEF TaskEnds
  <2>2. CASE RetrieveResult
    <3>1. CASE callback = 0
      BY <2>2, <3>1 DEF RetrieveResult, Assignments
    <3>2. CASE callback = 1
      BY <2>2, <3>2 DEF RetrieveResult, Assignments
    <3> QED
      BY <2>2, <3>1, <3>2 DEF RetrieveResult
  <2>3. CASE \E w \in Registrars : RegisterTest(w) \/ RegisterResult(w) \/ RegisterStatus(w)
    BY <2>3 DEF RegisterTest, RegisterResult, RegisterStatus
  <2>4. CASE \E r \in Readers : GetStatus(r) \/ GetResult(r)
    BY <2>4 DEF GetStatus, GetResult
  <2>5. CASE UNCHANGED vars
    BY <2>5 DEF vars
  <2> QED
    BY <2>1, <2>2, <2>3, <2>4, <2>5 DEF Next
<1>3. ResultFirst => ReadersFindResult
  BY DEF ResultFirst, ReadersFindResult
<1> QED
  BY <1>1, <1>2, <1>3, OutcomeTyped, PTL DEF Spec
=============================================================================
