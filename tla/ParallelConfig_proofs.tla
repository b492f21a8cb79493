----------------------- MODULE ParallelConfig_proofs ------------------------
(***************************************************************************)
(* Theorems about ParallelConfig, for every number of threads and of open  *)
(* scopes, and for every value of n_jobs.                                  *)
(***************************************************************************)
EXTENDS ParallelConfig, SequenceTheorems, TLAPS

(***************************************************************************)
(* Leaving a scope takes one element out of a sequence of scopes.          *)
(***************************************************************************)
LEMMA WithoutOne ==
    ASSUME NEW S, NEW s \in Seq(S), NEW i \in DOMAIN s
    PROVE  SubSeq(s, 1, i - 1) \o SubSeq(s, i + 1, Len(s)) \in Seq(S)
<1>1. Len(s) \in Nat /\ i \in 1..Len(s)
  OBVIOUS
<1>2. \A j \in 1..Len(s) : s[j] \in S
  OBVIOUS
<1>3. SubSeq(s, 1, i - 1) \in Seq(S)
  BY <1>1, <1>2, SubSeqProperties
<1>4. SubSeq(s, i + 1, Len(s)) \in Seq(S)
  BY <1>1, <1>2, SubSeqProperties
<1> QED
  BY <1>3, <1>4, ConcatProperties

(***************************************************************************)
(* Taking the last element out leaves the others where they are.           *)
(***************************************************************************)
LEMMA WithoutLast ==
    ASSUME NEW S, NEW s \in Seq(S), Len(s) # 0,
           NEW r, r = SubSeq(s, 1, Len(s) - 1) \o SubSeq(s, Len(s) + 1, Len(s))
    PROVE  Len(r) = Len(s) - 1 /\ \A j \in 1..(Len(s) - 1) : r[j] = s[j]
<1>1. Len(s) \in Nat /\ \A j \in 1..Len(s) : s[j] \in S
  OBVIOUS
<1>2. /\ SubSeq(s, 1, Len(s) - 1) \in Seq(S)
      /\ Len(SubSeq(s, 1, Len(s) - 1)) = Len(s) - 1
      /\ \A j \in 1..(Len(s) - 1) : SubSeq(s, 1, Len(s) - 1)[j] = s[j]
  <2> DEFINE n == Len(s) - 1
  <2>1. n \in Nat /\ \A j \in 1..n : s[j] \in S
    BY <1>1
  <2> HIDE DEF n
  <2>2. /\ SubSeq(s, 1, n) \in Seq(S) /\ Len(SubSeq(s, 1, n)) = n
        /\ \A j \in 1..n : SubSeq(s, 1, n)[j] = s[j]
    BY <2>1, SubSeqProperties
  <2> QED
    BY <2>2 DEF n
<1>3. SubSeq(s, Len(s) + 1, Len(s)) = <<>>
  BY <1>1
<1> QED
  BY <1>1, <1>2, <1>3, ConcatProperties

-----------------------------------------------------------------------------
(***************************************************************************)
(* A scope is built from the configuration around it and what it is given. *)
(***************************************************************************)
LEMMA UpdateType ==
    ASSUME NEW old \in Config, NEW given \in Config
    PROVE  Update(old, given) \in Config
BY DEF Update, Config, Keys

LEMMA OpenType ==
    ASSUME TypeOK, NEW t \in Threads, NEW given \in Config, Open(t, given)
    PROVE  /\ config' \in [Threads -> Config] /\ open' \in [Threads -> Seq(Scope)]
           /\ nested' \in [Threads -> BOOLEAN]
<1>1. config[t] \in Config /\ open[t] \in Seq(Scope)
  BY DEF TypeOK
<1>2. Update(config[t], given) \in Config
  BY <1>1, UpdateType
<1>3. [given |-> given, old |-> config[t]] \in Scope
  BY <1>1 DEF Scope
<1>4. Append(open[t], [given |-> given, old |-> config[t]]) \in Seq(Scope)
  BY <1>1, <1>3, AppendProperties
<1> QED
  BY <1>1, <1>2, <1>4 DEF Open, TypeOK

(***************************************************************************)
(* Scopes give backends and numbers of jobs.                               *)
(***************************************************************************)
LEMMA GivenType ==
    ASSUME TypeOK, NEW b \in Names \union Given, Accepts(b),
           NEW n \in Jobs \union {-1, Unset, None}
    PROVE  /\ [backend |-> CheckBackend(b), n_jobs |-> n] \in Config
           /\ RegisterExternal(b) \in [Names -> Classes \union {None}]
BY DEF TypeOK, Accepts, CheckBackend, RegisterExternal, Config, Names, Classes, Given

(***************************************************************************)
(* Every variable keeps its type.                                          *)
(***************************************************************************)
THEOREM TypeCorrect ==
    ASSUME ConfigAssumption
    PROVE  Spec => []TypeOK
<1>1. Init => TypeOK
  BY DEF Init, TypeOK, Config, default_parallel_config, Names, Classes
<1>2. TypeOK /\ [Next]_vars => TypeOK'
  <2> SUFFICES ASSUME TypeOK, [Next]_vars PROVE TypeOK'
    OBVIOUS
  <2>1. ASSUME NEW t \in Threads, NEW b \in Names \union Given,
               NEW n \in Jobs \union {-1, Unset, None}, ParallelConfigInit(t, b, n)
        PROVE  TypeOK'
    BY <2>1, OpenType, GivenType DEF ParallelConfigInit, TypeOK
  <2>2. ASSUME NEW t \in Threads, NEW b \in ScopeBackends, NEW n \in Jobs \union {-1},
               ParallelBackendInit(t, b, n)
        PROVE  TypeOK'
    BY <2>1, <2>2 DEF ParallelBackendInit
  <2>3. ASSUME NEW t \in Threads, NEW class \in BatchBackends, NEW n \in Jobs \union {None},
               BatchedCallsCall(t, class, n)
        PROVE  TypeOK'
    <3>1. [backend |-> class, n_jobs |-> n] \in Config
      BY ConfigAssumption DEF ConfigAssumption, Config
    <3> QED
      BY <2>3, <3>1, OpenType DEF BatchedCallsCall, registry, TypeOK
  <2>4. ASSUME NEW t \in Threads, DaskBatchCall(t) PROVE TypeOK'
    BY <2>1, <2>4 DEF DaskBatchCall, Names, Given
  <2>5. ASSUME NEW t \in Threads, NEW i \in 1..MaxOpen, NEW u \in Threads, Exit(t, i, u)
        PROVE  TypeOK'
    <3>1. open[t] \in Seq(Scope) /\ i \in DOMAIN open[t]
      BY <2>5 DEF Exit, TypeOK
    <3>2. open[t][i].old \in Config
      <4>1. open[t][i] \in Scope
        BY <3>1
      <4> QED
        BY <4>1 DEF Scope
    <3>3. SubSeq(open[t], 1, i - 1) \o SubSeq(open[t], i + 1, Len(open[t])) \in Seq(Scope)
      BY <3>1, WithoutOne
    <3>4. open' \in [Threads -> Seq(Scope)]
      BY <2>5, <3>3 DEF Exit, TypeOK
    <3>5. config' \in [Threads -> Config] /\ nested' \in [Threads -> BOOLEAN]
      BY <2>5, <3>2 DEF Exit, TypeOK
    <3> QED
      BY <2>5, <3>4, <3>5 DEF Exit, registry, TypeOK
  <2>6. ASSUME NEW t \in Threads, NEW make_default \in BOOLEAN,
               Register(t, "custom", "CustomBackend", make_default)
        PROVE  TypeOK'
    BY <2>6 DEF Register, scopeVars, TypeOK, Names, Classes
  <2>7. ASSUME NEW t \in Threads, MakeDefault(t) PROVE TypeOK'
    BY <2>7 DEF MakeDefault, scopeVars, TypeOK
  <2>8. CASE UNCHANGED vars
    BY <2>8 DEF vars, TypeOK
  <2> QED
    BY <2>1, <2>2, <2>3, <2>4, <2>5, <2>6, <2>7, <2>8, ConfigAssumption
       DEF Next, ConfigAssumption, Given
<1> QED
  BY <1>1, <1>2, PTL DEF Spec

-----------------------------------------------------------------------------
(***************************************************************************)
(* What scopes say depends on the scopes alone, and one scope more says    *)
(* what Update makes of it.                                                *)
(***************************************************************************)
LEMMA SaysSame ==
    ASSUME NEW s, NEW r, NEW n \in Nat, NEW cfg,
           \A i \in 1..n : r[i] = s[i], Says(s, n, cfg)
    PROVE  Says(r, n, cfg)
BY DEF Says, Keys

LEMMA SaysUpdate ==
    ASSUME NEW s, NEW n \in Nat, NEW cfg, Says(s, n, cfg)
    PROVE  Says(s, n + 1, Update(cfg, s[n + 1].given))
<1> SUFFICES ASSUME NEW k \in Keys
             PROVE  \/ \E i \in 1..(n + 1) :
                          /\ s[i].given[k] # Unset
                          /\ Update(cfg, s[n + 1].given)[k] = s[i].given[k]
                          /\ \A j \in (i + 1)..(n + 1) : s[j].given[k] = Unset
                    \/ /\ \A i \in 1..(n + 1) : s[i].given[k] = Unset
                       /\ Update(cfg, s[n + 1].given)[k] = default_parallel_config[k]
  BY DEF Says
<1>1. CASE s[n + 1].given[k] # Unset
  BY <1>1 DEF Update
<1>2. CASE s[n + 1].given[k] = Unset
  <2>1. Update(cfg, s[n + 1].given)[k] = cfg[k]
    BY <1>2 DEF Update
  <2>2. CASE \E i \in 1..n : /\ s[i].given[k] # Unset /\ cfg[k] = s[i].given[k]
                             /\ \A j \in (i + 1)..n : s[j].given[k] = Unset
    BY <1>2, <2>1, <2>2
  <2>3. CASE /\ \A i \in 1..n : s[i].given[k] = Unset
             /\ cfg[k] = default_parallel_config[k]
    BY <1>2, <2>1, <2>3
  <2> QED
    BY <2>2, <2>3 DEF Says
<1> QED
  BY <1>1, <1>2

(***************************************************************************)
(* In a thread that nests its scopes, each scope keeps what the scopes     *)
(* around it say, which is what leaving it restores.                       *)
(***************************************************************************)
Restores(scopes, cfg) ==
    /\ Says(scopes, Len(scopes), cfg)
    /\ \A i \in 1..Len(scopes) : Says(scopes, i - 1, scopes[i].old)

NestInv == \A t \in Threads : nested[t] => Restores(open[t], config[t])

LEMMA OpenNested ==
    ASSUME TypeOK, NestInv, NEW t \in Threads, NEW given, given \in Config, Open(t, given)
    PROVE  NestInv'
<1> SUFFICES ASSUME NEW u \in Threads, nested'[u] PROVE Restores(open'[u], config'[u])
  BY DEF NestInv
<1>1. nested[u] /\ Restores(open[u], config[u])
  BY DEF Open, NestInv
<1>2. CASE u # t
  BY <1>1, <1>2 DEF Open, TypeOK
<1>3. CASE u = t
  <2> DEFINE s == open[t]
             new == [given |-> given, old |-> config[t]]
             r == Append(s, new)
  <2>1. s \in Seq(Scope) /\ new \in Scope /\ Len(s) \in Nat
    <3>1. s \in Seq(Scope) /\ config[t] \in Config
      BY DEF TypeOK
    <3> HIDE DEF s
    <3> QED
      BY <3>1 DEF Scope
  <2>2. open'[t] = r /\ config'[t] = Update(config[t], given)
    BY DEF Open, TypeOK
  <2>3. Len(r) = Len(s) + 1 /\ r[Len(s) + 1] = new /\ \A i \in 1..Len(s) : r[i] = s[i]
    BY <2>1, AppendProperties
  <2>4. Restores(s, config[t])
    BY <1>1, <1>3
  <2>5. new.given = given /\ new.old = config[t]
    OBVIOUS
  <2> HIDE DEF s, new, r
  <2>6. Says(r, Len(s), config[t])
    BY <2>1, <2>3, <2>4, SaysSame DEF Restores
  <2>7. Says(r, Len(s) + 1, Update(config[t], given))
    BY <2>1, <2>3, <2>5, <2>6, SaysUpdate
  <2>8. ASSUME NEW i \in 1..(Len(s) + 1) PROVE Says(r, i - 1, r[i].old)
    <3>1. CASE i = Len(s) + 1
      BY <2>1, <2>3, <2>5, <2>6, <3>1
    <3>2. CASE i \in 1..Len(s)
      <4>1. Says(s, i - 1, s[i].old) /\ r[i] = s[i] /\ i - 1 \in Nat
        BY <2>1, <2>3, <2>4, <3>2 DEF Restores
      <4>2. \A j \in 1..(i - 1) : r[j] = s[j]
        BY <2>1, <2>3, <3>2
      <4> QED
        BY <4>1, <4>2, SaysSame
    <3> QED
      BY <2>1, <3>1, <3>2
  <2> QED
    BY <1>3, <2>2, <2>3, <2>7, <2>8 DEF Restores
<1> QED
  BY <1>2, <1>3

LEMMA ExitNested ==
    ASSUME TypeOK, NestInv, NEW t \in Threads, NEW i, NEW v \in Threads, Exit(t, i, v)
    PROVE  NestInv'
<1> SUFFICES ASSUME NEW u \in Threads, nested'[u] PROVE Restores(open'[u], config'[u])
  BY DEF NestInv
<1>1. CASE u # t /\ u # v
  <2>1. nested[u] /\ Restores(open[u], config[u])
    BY <1>1 DEF Exit, NestInv, TypeOK
  <2> QED
    BY <1>1, <2>1 DEF Exit, TypeOK
<1>2. CASE u = t \/ u = v
  <2> DEFINE s == open[t]
             r == SubSeq(s, 1, Len(s) - 1) \o SubSeq(s, Len(s) + 1, Len(s))
  <2>1. s \in Seq(Scope) /\ Len(s) \in Nat
    BY DEF TypeOK
  <2>2. i = Len(s) /\ v = t /\ u = t /\ Len(s) # 0 /\ nested[t]
    BY <1>2, <2>1 DEF Exit, TypeOK
  <2>3. open'[t] = r /\ config'[t] = s[Len(s)].old
    BY <2>2 DEF Exit, TypeOK
  <2>4. Len(r) = Len(s) - 1 /\ \A j \in 1..(Len(s) - 1) : r[j] = s[j]
    BY <2>1, <2>2, WithoutLast
  <2>5. Restores(s, config[t])
    BY <2>2 DEF NestInv
  <2> HIDE DEF s, r
  <2>6. Says(r, Len(s) - 1, s[Len(s)].old)
    <3>1. Len(s) \in 1..Len(s) /\ Len(s) - 1 \in Nat
      BY <2>1, <2>2
    <3>2. Says(s, Len(s) - 1, s[Len(s)].old)
      BY <2>5, <3>1 DEF Restores
    <3> QED
      BY <2>4, <3>1, <3>2, SaysSame
  <2>7. ASSUME NEW j \in 1..(Len(s) - 1) PROVE Says(r, j - 1, r[j].old)
    <3>1. Says(s, j - 1, s[j].old) /\ r[j] = s[j] /\ j - 1 \in Nat
      BY <2>1, <2>4, <2>5 DEF Restores
    <3>2. \A l \in 1..(j - 1) : r[l] = s[l]
      BY <2>1, <2>4
    <3> QED
      BY <3>1, <3>2, SaysSame
  <2> QED
    BY <2>2, <2>3, <2>4, <2>6, <2>7 DEF Restores
<1> QED
  BY <1>1, <1>2

(***************************************************************************)
(* The configuration of a thread is what its open scopes say               *)
(* (parallel_config and what is built on it).                              *)
(***************************************************************************)
THEOREM ScopesNest ==
    ASSUME ConfigAssumption
    PROVE  Spec => []ConfigIsNested
<1>1. Init => NestInv
  BY DEF Init, NestInv, Restores, Says
<1>2. TypeOK /\ NestInv /\ [Next]_vars => NestInv'
  <2> SUFFICES ASSUME TypeOK, NestInv, [Next]_vars PROVE NestInv'
    OBVIOUS
  <2>1. ASSUME NEW t \in Threads, NEW b \in Names \union Given,
               NEW n \in Jobs \union {-1, Unset, None}, ParallelConfigInit(t, b, n)
        PROVE  NestInv'
    BY <2>1, GivenType, OpenNested DEF ParallelConfigInit
  <2>2. ASSUME NEW t \in Threads, NEW b \in ScopeBackends, NEW n \in Jobs \union {-1},
               ParallelBackendInit(t, b, n)
        PROVE  NestInv'
    BY <2>1, <2>2 DEF ParallelBackendInit
  <2>3. ASSUME NEW t \in Threads, NEW class \in BatchBackends, NEW n \in Jobs \union {None},
               BatchedCallsCall(t, class, n)
        PROVE  NestInv'
    <3>1. [backend |-> class, n_jobs |-> n] \in Config
      BY ConfigAssumption DEF ConfigAssumption, Config
    <3> QED
      BY <2>3, <3>1, OpenNested DEF BatchedCallsCall
  <2>4. ASSUME NEW t \in Threads, DaskBatchCall(t) PROVE NestInv'
    BY <2>1, <2>4 DEF DaskBatchCall, Names, Given
  <2>5. ASSUME NEW t \in Threads, NEW i \in 1..MaxOpen, NEW u \in Threads, Exit(t, i, u)
        PROVE  NestInv'
    BY <2>5, ExitNested
  <2>6. ASSUME UNCHANGED scopeVars PROVE NestInv'
    BY <2>6 DEF scopeVars, NestInv
  <2>7. CASE \/ \E t \in Threads :
                  \/ \E make_default \in BOOLEAN :
                        Register(t, "custom", "CustomBackend", make_default)
                  \/ MakeDefault(t)
             \/ UNCHANGED vars
    BY <2>6, <2>7 DEF Register, MakeDefault, vars, scopeVars
  <2> QED
    BY <2>1, <2>2, <2>3, <2>4, <2>5, <2>7, ConfigAssumption
       DEF Next, ConfigAssumption, Given
<1>3. NestInv => ConfigIsNested
  BY DEF NestInv, Restores, ConfigIsNested
<1> QED
  BY <1>1, <1>2, <1>3, TypeCorrect, PTL DEF Spec

-----------------------------------------------------------------------------
(***************************************************************************)
(* The default backend is always registered: a thread that is about to     *)
(* make a name the default has registered it, and no step takes a name     *)
(* out of the registry.                                                    *)
(***************************************************************************)
RegisteringInv == \A t \in Threads :
    registering[t] # None => BACKENDS[registering[t]] # None

THEOREM DefaultIsRegistered ==
    ASSUME ConfigAssumption
    PROVE  Spec => []DefaultRegistered
<1> DEFINE Inv == RegisteringInv /\ DefaultRegistered
<1>1. Init => Inv
  <2> SUFFICES ASSUME Init PROVE Inv
    OBVIOUS
  <2>1. "ThreadingBackend" # None /\ "LokyBackend" # None
    BY ConfigAssumption DEF ConfigAssumption, Classes
  <2>2. PICK mp \in BOOLEAN :
          /\ BACKENDS = [n \in Names |->
                 CASE n = "threading"   -> "ThreadingBackend"
                   [] n = "loky" /\ mp  -> "LokyBackend"
                   [] OTHER             -> None]
          /\ DEFAULT_BACKEND = IF mp THEN "loky" ELSE "threading"
    BY DEF Init
  <2>3. BACKENDS["threading"] = "ThreadingBackend" /\ (mp => BACKENDS["loky"] = "LokyBackend")
    BY <2>2 DEF Names
  <2>4. DefaultRegistered
    BY <2>1, <2>2, <2>3 DEF DefaultRegistered
  <2> QED
    BY <2>4 DEF Init, RegisteringInv
<1>2. TypeOK /\ Inv /\ [Next]_vars => Inv'
  <2> SUFFICES ASSUME TypeOK, Inv, [Next]_vars PROVE Inv'
    OBVIOUS
  <2> USE DEF RegisteringInv, DefaultRegistered
  <2>1. ASSUME NEW name, RegisterExternal(name) = BACKENDS',
               UNCHANGED <<DEFAULT_BACKEND, registering>>
        PROVE  Inv'
    <3>1. "DaskDistributedBackend" # None
      BY ConfigAssumption DEF ConfigAssumption, Classes
    <3> QED
      BY <2>1, <3>1 DEF RegisterExternal, TypeOK, Names
  <2>2. CASE \E t \in Threads :
                \/ \E b \in ScopeBackends, n \in Jobs \union Given : ParallelConfigInit(t, b, n)
                \/ \E b \in ScopeBackends, n \in Jobs \union {-1} : ParallelBackendInit(t, b, n)
                \/ DaskBatchCall(t)
    BY <2>1, <2>2 DEF ParallelConfigInit, ParallelBackendInit, DaskBatchCall
  <2>3. CASE \E t \in Threads :
                \/ \E class \in BatchBackends, n \in Jobs \union {None} :
                      BatchedCallsCall(t, class, n)
                \/ \E i \in 1..MaxOpen, u \in Threads : Exit(t, i, u)
    BY <2>3 DEF BatchedCallsCall, Exit, registry
  <2>4. ASSUME NEW t \in Threads, NEW make_default \in BOOLEAN,
               Register(t, "custom", "CustomBackend", make_default)
        PROVE  Inv'
    <3>1. "CustomBackend" # None
      BY ConfigAssumption DEF ConfigAssumption, Classes
    <3> QED
      BY <2>4, <3>1 DEF Register, TypeOK, Names
  <2>5. ASSUME NEW t \in Threads, MakeDefault(t) PROVE Inv'
    BY <2>5 DEF MakeDefault, TypeOK, Names
  <2>6. CASE UNCHANGED vars
    BY <2>6 DEF vars
  <2> QED
    BY <2>2, <2>3, <2>4, <2>5, <2>6 DEF Next
<1> QED
  BY <1>1, <1>2, TypeCorrect, PTL DEF Spec
=============================================================================
