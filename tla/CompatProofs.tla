---------------------------- MODULE CompatProofs ----------------------------
(***************************************************************************)
(* Proofs about Compat, for any number of threads, registries of any       *)
(* length and any entries.                                                 *)
(***************************************************************************)
EXTENDS Compat, BoundedSets, FiniteSetTheorems, SequenceTheorems, TLAPS

\* A sequence as Init makes them.
LEMMA Registry ==
  ASSUME NEW S, NEW n \in Nat, NEW s \in [1..n -> S]
  PROVE  s \in Seq(S) /\ Len(s) = n
  OBVIOUS

(***************************************************************************)
(* The invariant                                                           *)
(***************************************************************************)

\* A thread on its way to the global spawner is in no runtime, and what it
\* chooses by is a value that the environment had.
StepInv ==
  /\ env \in envs
  /\ \A h \in Threads :
       /\ pc[h] \in {"get", "env", "init"} =>
            inside[h] = {} /\ Len(COMPATS) > 1
       /\ pc[h] = "init" => choose[h] \in envs

\* What is found was picked by such a value, and nothing else is given.
GivenInv ==
  /\ FOUND # NONE => \E n \in envs : FOUND = PickGlobal(n)
  /\ given \subseteq IF Len(COMPATS) > 1 THEN {FOUND}
                     ELSE {IF Globals = {} THEN NotFound ELSE 1}

IInv == TypeOK /\ StepInv /\ GivenInv /\ LocalFirst

LEMMA Kinds ==
  ASSUME TypeOK
  PROVE  /\ Len(COMPATS) \in Nat /\ DOMAIN COMPATS = 1..Len(COMPATS)
         /\ Globals \subseteq 1..Len(COMPATS)
         /\ \A k : Of(k) \subseteq 1..Len(COMPATS)
         /\ Globals \cap Of("local") = {}
         /\ Named(NONE) = {}
<1>1. COMPATS \in Seq(Entry)
  BY DEF TypeOK
<1>2. Len(COMPATS) \in Nat /\ DOMAIN COMPATS = 1..Len(COMPATS)
  BY <1>1, LenProperties
<1>3. \A e \in Entry : e.kind = "named" => e.name # NONE
  BY CompatAssumption
     DEF Entry, TOKIO, SMOL, ASYNC_GLOBAL_EXECUTOR, Local, Global, NamedGlobal
<1>4. \A i \in 1..Len(COMPATS) : COMPATS[i] \in Entry
  BY <1>1, ElementOfSeq
<1>5. QED
  BY <1>2, <1>3, <1>4 DEF Globals, Of, Named

\* What pick_global returns, and why.
LEMMA Picks ==
  ASSUME TypeOK, NEW n
  PROVE  /\ PickGlobal(n) \in Globals \cup {NotFound, MultipleGlobals}
         /\ Named(n) # {} => PickGlobal(n) \in Named(n)
         /\ PickGlobal(n) = NotFound => Globals = {}
         /\ PickGlobal(n) = MultipleGlobals => panicMultiple
         /\ panicMultiple /\ Cardinality(Globals) > 1 =>
              PickGlobal(n) = MultipleGlobals \/ PickGlobal(n) \in Named(n)
<1>1. /\ Len(COMPATS) \in Nat
      /\ Globals \subseteq 1..Len(COMPATS)
      /\ Of("named") \subseteq Globals /\ Named(n) \subseteq Of("named")
  BY Kinds DEF Globals, Named
<1>2. Named(n) # {} => Min(Named(n)) \in Named(n)
  <2>1. Named(n) \subseteq 1..Len(COMPATS)
    BY <1>1, Zenon
  <2>2. 1..Len(COMPATS) \subseteq Nat
    BY <1>1
  <2>3. Named(n) \subseteq Nat
    BY <2>1, <2>2, Zenon
  <2>4. QED
    BY <2>3, MinOf
<1>3. Of("named") # {} => Max(Of("named")) \in Of("named")
  <2>1. Of("named") \subseteq 1..Len(COMPATS)
    BY <1>1
  <2>2. QED
    BY <1>1, <2>1, MaxOf
<1>4. Globals # {} => Max(Globals) \in Globals
  BY <1>1, MaxOf
<1>5. \A i \in Globals : i # NotFound /\ i # MultipleGlobals
  BY <1>1, CompatAssumption
<1>6. CASE Named(n) # {}
  <2>1. PickGlobal(n) = Min(Named(n))
    BY <1>6 DEF PickGlobal
  <2>2. QED
    BY <1>1, <1>2, <1>5, <1>6, <2>1
<1>7. CASE Named(n) = {} /\ panicMultiple /\ Cardinality(Globals) > 1
  <2>1. PickGlobal(n) = MultipleGlobals
    BY <1>7 DEF PickGlobal
  <2>2. QED
    BY <1>7, <2>1, CompatAssumption
<1>8. CASE Named(n) = {} /\ ~(panicMultiple /\ Cardinality(Globals) > 1)
  <2>1. PickGlobal(n) = IF Of("named") # {} THEN Max(Of("named"))
                        ELSE IF Globals # {} THEN Max(Globals) ELSE NotFound
    BY <1>8 DEF PickGlobal
  <2>2. CASE Of("named") # {}
    BY <1>1, <1>3, <1>5, <1>8, <2>1, <2>2
  <2>3. CASE Of("named") = {} /\ Globals # {}
    BY <1>4, <1>5, <1>8, <2>1, <2>3
  <2>4. CASE Of("named") = {} /\ Globals = {}
    BY <1>8, <2>1, <2>4, CompatAssumption
  <2>5. QED
    BY <2>2, <2>3, <2>4
<1>9. QED
  BY <1>6, <1>7, <1>8

\* What it returns is a result, and no Local.
LEMMA PicksGlobal ==
  ASSUME TypeOK, NEW n
  PROVE  PickGlobal(n) \in Results \ (Of("local") \cup {NONE})
<1>1. PickGlobal(n) \in Globals \cup {NotFound, MultipleGlobals}
  BY Picks
<1>2. QED
  BY <1>1, Kinds, CompatAssumption DEF Results

\* The program never changes what it was built from.
LEMMA Fixed ==
  ASSUME UNCHANGED build
  PROVE  /\ COMPATS' = COMPATS /\ panicMultiple' = panicMultiple
         /\ \A k : Of(k)' = Of(k)
         /\ Globals' = Globals /\ Results' = Results
         /\ \A n : PickGlobal(n)' = PickGlobal(n)
<1>1. COMPATS' = COMPATS /\ panicMultiple' = panicMultiple
  BY DEF build
<1>2. \A k : Of(k)' = Of(k)
  BY <1>1 DEF Of
<1>3. Globals' = Globals /\ Results' = Results
  BY <1>1 DEF Globals, Results, Of
<1>4. \A n : Named(n)' = Named(n)
  BY <1>1 DEF Named, Of
<1>5. \A n : PickGlobal(n)' = PickGlobal(n)
  BY <1>1, <1>2, <1>3, <1>4 DEF PickGlobal
<1>6. QED
  BY <1>1, <1>2, <1>3, <1>5

LEMMA InitInv == Init => IInv
<1> SUFFICES ASSUME Init PROVE IInv
  OBVIOUS
<1>1. COMPATS \in Seq(Entry) /\ Len(COMPATS) <= MaxCompats
  <2>1. PICK n \in 0..MaxCompats : COMPATS \in [1..n -> Entry]
    BY DEF Init
  <2>2. n \in Nat /\ n <= MaxCompats
    BY <2>1, CompatAssumption
  <2>3. QED
    BY <2>1, <2>2, Registry
<1>2. TypeOK
  BY <1>1 DEF Init, TypeOK
<1>3. StepInv /\ GivenInv /\ LocalFirst
  BY DEF Init, StepInv, GivenInv, LocalFirst
<1>4. QED
  BY <1>2, <1>3 DEF IInv

\* A thread is given r, which is right for it.
LEMMA ReturnStep ==
  ASSUME IInv, NEW h \in Threads, NEW r,
         Return(h, r), UNCHANGED <<build, env, envs, inside, choose>>,
         r \in Results,
         r \notin Of("local") =>
           r = IF Len(COMPATS) > 1 THEN FOUND'
               ELSE IF Globals = {} THEN NotFound ELSE 1,
         FOUND' = FOUND \/ (FOUND = NONE /\ \E n \in envs : FOUND' = PickGlobal(n)),
         IF inside[h] = {} THEN r \notin Of("local")
         ELSE r \in inside[h] /\ \A i \in inside[h] : r <= i
  PROVE  IInv'
<1> USE DEF IInv, Return
<1>1. /\ UNCHANGED build /\ UNCHANGED <<env, envs, inside, choose>>
      /\ pc \in [Threads -> {"idle", "get", "env", "init", "found"}]
      /\ result \in [Threads -> Results \cup {NONE}]
  BY DEF TypeOK
<1>2. /\ COMPATS' = COMPATS /\ panicMultiple' = panicMultiple
      /\ \A k : Of(k)' = Of(k)
      /\ Globals' = Globals /\ Results' = Results
      /\ \A n : PickGlobal(n)' = PickGlobal(n)
  BY <1>1, Fixed
<1>3. FOUND' \in Results \cup {NONE}
  BY PicksGlobal DEF TypeOK
<1>4. pc'[h] = "found" /\ result'[h] = r
        /\ \A g \in Threads \ {h} : pc'[g] = pc[g] /\ result'[g] = result[g]
  BY <1>1
<1>5. TypeOK'
  BY <1>1, <1>2, <1>3 DEF TypeOK
<1>6. StepInv'
  BY <1>1, <1>2, <1>4 DEF StepInv
<1>7. GivenInv'
  <2>1. FOUND' # NONE => \E n \in envs' : FOUND' = PickGlobal(n)'
    BY <1>1, <1>2 DEF GivenInv
  <2>2. ASSUME NEW x \in given'
        PROVE  x = IF Len(COMPATS) > 1 THEN FOUND'
                   ELSE IF Globals = {} THEN NotFound ELSE 1
    <3>1. CASE x = r /\ r \notin Of("local")
      BY <3>1
    <3>2. CASE x \in given
      <4>1. x # NONE
        BY <3>2, Kinds, CompatAssumption DEF TypeOK, Results
      <4>2. QED
        BY <3>2, <4>1 DEF GivenInv
    <3>3. QED
      BY <2>2, <3>1, <3>2
  <2>3. QED
    BY <1>2, <2>1, <2>2 DEF GivenInv
<1>8. LocalFirst'
  BY <1>1, <1>2, <1>4 DEF LocalFirst
<1>9. QED
  BY <1>5, <1>6, <1>7, <1>8

\* Steps on the way to the global spawner.
LEMMA WayStep ==
  ASSUME IInv, NEW h \in Threads,
         (FindGlobal(h) /\ FOUND = NONE) \/ ReadEnv(h)
  PROVE  IInv'
<1>1. UNCHANGED build
  BY DEF FindGlobal, ReadEnv
<1>2. /\ COMPATS' = COMPATS /\ panicMultiple' = panicMultiple
      /\ \A k : Of(k)' = Of(k)
      /\ Globals' = Globals /\ Results' = Results
      /\ \A n : PickGlobal(n)' = PickGlobal(n)
  BY <1>1, Fixed
<1> USE DEF IInv, FindGlobal, ReadEnv, Goto
<1>3. TypeOK'
  BY <1>2 DEF TypeOK
<1>4. StepInv'
  BY <1>2 DEF StepInv, TypeOK
<1>5. GivenInv'
  BY <1>2 DEF GivenInv
<1>6. LocalFirst'
  BY <1>2 DEF LocalFirst, TypeOK
<1>7. QED
  BY <1>3, <1>4, <1>5, <1>6

LEMMA FindGlobalStep ==
  ASSUME IInv, NEW h \in Threads, FindGlobal(h)
  PROVE  IInv'
<1>1. inside[h] = {} /\ Len(COMPATS) > 1
  BY DEF FindGlobal, IInv, StepInv
<1>2. CASE FOUND = NONE
  BY <1>2, WayStep
<1>3. CASE FOUND # NONE
  <2>1. FOUND \in Results /\ FOUND \notin Of("local")
    BY <1>3, PicksGlobal DEF IInv, GivenInv
  <2>2. Return(h, FOUND) /\ UNCHANGED <<build, env, envs, inside, choose>>
          /\ FOUND' = FOUND
    BY <1>3 DEF FindGlobal
  <2>3. QED
    BY <1>1, <2>1, <2>2, ReturnStep
<1>4. QED
  BY <1>2, <1>3

LEMMA GetOrInitStep ==
  ASSUME IInv, NEW h \in Threads, GetOrInit(h)
  PROVE  IInv'
<1> DEFINE r == Kept(PickGlobal(choose[h]))
<1>1. inside[h] = {} /\ Len(COMPATS) > 1 /\ choose[h] \in envs
  BY DEF GetOrInit, IInv, StepInv
<1>2. /\ Return(h, r) /\ UNCHANGED <<build, env, envs, inside, choose>>
      /\ FOUND' = r
  BY DEF GetOrInit
<1>3. CASE FOUND = NONE
  <2>1. r = PickGlobal(choose[h])
    BY <1>3 DEF Kept
  <2>2. r \in Results /\ r \notin Of("local")
    BY <2>1, PicksGlobal DEF IInv
  <2> HIDE DEF r
  <2>3. \E n \in envs : FOUND' = PickGlobal(n)
    BY <1>1, <1>2, <2>1
  <2>4. QED
    BY <1>1, <1>2, <1>3, <2>2, <2>3, ReturnStep
<1>4. CASE FOUND # NONE
  <2>1. r = FOUND
    BY <1>4 DEF Kept
  <2>2. FOUND \in Results /\ FOUND \notin Of("local")
    BY <1>4, PicksGlobal DEF IInv, GivenInv
  <2> HIDE DEF r
  <2>3. QED
    BY <1>1, <1>2, <2>1, <2>2, ReturnStep
<1>5. QED
  BY <1>3, <1>4

\* The first Local of a thread in a runtime.
LEMMA FirstLocal ==
  ASSUME TypeOK, NEW h \in Threads, inside[h] # {}
  PROVE  /\ FindLocal(h) \in inside[h] /\ FindLocal(h) \in Results
         /\ \A i \in inside[h] : FindLocal(h) <= i
<1>1. inside[h] \subseteq Of("local") /\ Of("local") \subseteq 1..Len(COMPATS)
        /\ Len(COMPATS) \in Nat /\ DOMAIN COMPATS = 1..Len(COMPATS)
  BY Kinds DEF TypeOK
<1>2. inside[h] \subseteq 1..Len(COMPATS)
  BY <1>1, Zenon
<1>3. 1..Len(COMPATS) \subseteq Nat
  BY <1>1
<1>4. inside[h] \subseteq Nat
  BY <1>2, <1>3, Zenon
<1>5. FindLocal(h) = Min(inside[h])
  BY DEF FindLocal
<1>6. Min(inside[h]) \in inside[h] /\ \A i \in inside[h] : Min(inside[h]) <= i
  BY <1>4, MinOf
<1>7. QED
  BY <1>1, <1>2, <1>5, <1>6 DEF Results

\* find_spawn with at most one entry.
LEMMA OnlyOne ==
  ASSUME TypeOK, NEW h \in Threads, Len(COMPATS) <= 1
  PROVE  /\ FindOnly(h) \in Results
         /\ FindOnly(h) \notin Of("local") =>
              FindOnly(h) = IF Globals = {} THEN NotFound ELSE 1
         /\ IF inside[h] = {} THEN FindOnly(h) \notin Of("local")
            ELSE /\ FindOnly(h) \in inside[h]
                 /\ \A i \in inside[h] : FindOnly(h) <= i
<1>1. /\ Len(COMPATS) \in Nat /\ DOMAIN COMPATS = 1..Len(COMPATS)
      /\ Globals \subseteq 1..Len(COMPATS) /\ Of("local") \subseteq 1..Len(COMPATS)
      /\ Globals \cap Of("local") = {} /\ inside[h] \subseteq Of("local")
  BY Kinds DEF TypeOK
<1>2. \A i \in 1..Len(COMPATS) : i = 1
  BY <1>1
<1>3. NotFound \notin Of("local")
  BY <1>1, CompatAssumption
<1>4. CASE Globals # {}
  <2>1. 1 \in Globals /\ 1 \notin Of("local") /\ inside[h] = {}
    BY <1>1, <1>2, <1>4
  <2>2. FindOnly(h) = 1
    BY <1>4 DEF FindOnly
  <2>3. QED
    BY <1>1, <1>4, <2>1, <2>2 DEF Results
<1>5. CASE Globals = {} /\ inside[h] # {}
  <2>1. inside[h] = {1} /\ 1 \in Of("local")
    BY <1>1, <1>2, <1>5
  <2>2. FindOnly(h) = 1
    BY <1>5 DEF FindOnly
  <2>3. QED
    BY <1>1, <1>5, <2>1, <2>2 DEF Results
<1>6. CASE Globals = {} /\ inside[h] = {}
  <2>1. FindOnly(h) = NotFound
    BY <1>6 DEF FindOnly
  <2>2. QED
    BY <1>3, <1>6, <2>1 DEF Results
<1>7. QED
  BY <1>4, <1>5, <1>6

LEMMA FindSpawnStep ==
  ASSUME IInv, NEW h \in Threads, FindSpawn(h)
  PROVE  IInv'
<1> USE DEF IInv
<1>1. UNCHANGED <<build, env, envs, FOUND, inside, choose>> /\ pc[h] = "idle"
  BY DEF FindSpawn
<1>2. CASE Len(COMPATS) <= 1 /\ Return(h, FindOnly(h))
  <2>1. ~(Len(COMPATS) > 1)
    BY <1>2, Kinds
  <2>2. QED
    BY <1>1, <1>2, <2>1, OnlyOne, ReturnStep
<1>3. CASE Len(COMPATS) > 1 /\ FindLocal(h) # NONE /\ Return(h, FindLocal(h))
  <2>1. inside[h] # {}
    BY <1>3 DEF FindLocal
  <2>2. /\ FindLocal(h) \in inside[h] /\ FindLocal(h) \in Results
        /\ \A i \in inside[h] : FindLocal(h) <= i
    BY <2>1, FirstLocal
  <2>3. FindLocal(h) \in Of("local")
    BY <2>2 DEF TypeOK
  <2>4. QED
    BY <1>1, <1>3, <2>1, <2>2, <2>3, ReturnStep
<1>4. CASE Len(COMPATS) > 1 /\ FindLocal(h) = NONE /\ Goto(h, "get")
  <2>1. inside[h] = {}
    <3>1. \A i \in inside[h] : i \in Nat
      BY Kinds DEF TypeOK
    <3>2. QED
      BY <1>4, <3>1, FirstLocal, CompatAssumption
  <2>2. /\ COMPATS' = COMPATS /\ panicMultiple' = panicMultiple
        /\ \A k : Of(k)' = Of(k)
        /\ Globals' = Globals /\ Results' = Results
        /\ \A n : PickGlobal(n)' = PickGlobal(n)
    BY <1>1, Fixed
  <2>3. TypeOK' /\ GivenInv'
    BY <1>1, <1>4, <2>2 DEF TypeOK, GivenInv, Goto
  <2>4. StepInv' /\ LocalFirst'
    BY <1>1, <1>4, <2>1, <2>2 DEF StepInv, LocalFirst, Goto, TypeOK
  <2>5. QED
    BY <2>3, <2>4
<1>5. QED
  BY <1>2, <1>3, <1>4 DEF FindSpawn

\* What the program does in between.
LEMMA ProgramStep ==
  ASSUME IInv,
         \/ \E h \in Threads : Use(h) \/ Switch(h)
         \/ \E n \in Names \cup {NONE} : SetEnv(n)
         \/ UNCHANGED vars
  PROVE  IInv'
<1> USE DEF IInv
<1>1. UNCHANGED <<build, FOUND, given>> /\ envs \subseteq envs'
  BY DEF Use, Switch, SetEnv, vars, build
<1>2. /\ COMPATS' = COMPATS /\ panicMultiple' = panicMultiple
      /\ \A k : Of(k)' = Of(k)
      /\ Globals' = Globals /\ Results' = Results
      /\ \A n : PickGlobal(n)' = PickGlobal(n)
  BY <1>1, Fixed
<1>3. GivenInv'
  BY <1>1, <1>2 DEF GivenInv
<1>4. ASSUME NEW h \in Threads, Use(h)
      PROVE  TypeOK' /\ StepInv' /\ LocalFirst'
  BY <1>2, <1>4 DEF Use, TypeOK, StepInv, LocalFirst
<1>5. ASSUME NEW h \in Threads, Switch(h)
      PROVE  TypeOK' /\ StepInv' /\ LocalFirst'
  BY <1>2, <1>5 DEF Switch, TypeOK, StepInv, LocalFirst
<1>6. ASSUME NEW n \in Names \cup {NONE}, SetEnv(n)
      PROVE  TypeOK' /\ StepInv' /\ LocalFirst'
  BY <1>2, <1>6 DEF SetEnv, TypeOK, StepInv, LocalFirst
<1>7. CASE UNCHANGED vars
  BY <1>2, <1>3, <1>7 DEF vars, TypeOK, StepInv, LocalFirst
<1>8. QED
  BY <1>3, <1>4, <1>5, <1>6, <1>7

(***************************************************************************)
(* Theorems                                                                *)
(***************************************************************************)

\* The invariant holds however the threads and the environment interleave.
THEOREM Invariance == Spec => []IInv
<1>1. Init => IInv
  BY InitInv
<1>2. IInv /\ [Next]_vars => IInv'
  <2>1. ASSUME IInv, NEW h \in Threads, ReadEnv(h) PROVE IInv'
    BY <2>1, WayStep
  <2>2. QED
    BY <2>1, FindSpawnStep, FindGlobalStep, GetOrInitStep, ProgramStep
       DEF Next
<1>3. QED
  BY <1>1, <1>2, PTL DEF Spec

\* Every variable keeps its type: what is returned is in the registry.
THEOREM TypeCorrect == Spec => []TypeOK
  BY Invariance, PTL DEF IInv

\* All threads are given one global spawner.
THEOREM OneForAllHolds == Spec => []OneForAll
<1>1. IInv => OneForAll
  BY DEF IInv, GivenInv, OneForAll
<1>2. QED
  BY <1>1, Invariance, PTL

\* A thread in a runtime spawns there.
THEOREM LocalFirstHolds == Spec => []LocalFirst
  BY Invariance, PTL DEF IInv

\* The one global spawner is given for a reason.
THEOREM OneForAReasonHolds == Spec => []OneForAReason
<1>1. ASSUME IInv, NEW r \in given
      PROVE  /\ \A n \in Names : envs = {n} /\ Named(n) # {} => r \in Named(n)
             /\ r = NotFound => Globals = {}
             /\ r = MultipleGlobals => panicMultiple
             /\ panicMultiple /\ Cardinality(Globals) > 1 =>
                  \/ r = MultipleGlobals
                  \/ \E n \in envs \ {NONE} : r \in Named(n)
  <2> USE <1>1 DEF IInv
  <2>1. CASE Len(COMPATS) > 1
    <3>1. r = FOUND /\ r # NONE
      BY <2>1, Kinds, CompatAssumption DEF GivenInv, TypeOK, Results
    <3>2. PICK n \in envs : r = PickGlobal(n)
      BY <3>1 DEF GivenInv
    <3>3. \A m \in Names : envs = {m} => n = m
      BY <3>2
    <3>4. r \in Named(n) => n # NONE
      BY Kinds
    <3>5. QED
      BY <3>2, <3>3, <3>4, Picks
  <2>2. CASE ~(Len(COMPATS) > 1)
    <3>1. r = IF Globals = {} THEN NotFound ELSE 1
      BY <2>2 DEF GivenInv
    <3>2. Globals \subseteq {1}
      BY <2>2, Kinds
    <3>3. Cardinality(Globals) <= 1
      <4>1. IsFiniteSet({1}) /\ Cardinality({1}) = 1
        BY FS_Singleton
      <4>2. Cardinality(Globals) <= Cardinality({1})
        BY <3>2, <4>1, FS_Subset
      <4>3. Cardinality(Globals) \in Nat
        BY <3>2, <4>1, FS_Subset, FS_CardinalityType
      <4>4. QED
        BY <4>1, <4>2, <4>3
    <3>4. \A n : Named(n) \subseteq Globals
      BY DEF Named, Globals
    <3>5. ~(Cardinality(Globals) > 1)
      <4>1. Cardinality(Globals) \in Nat
        BY <3>2, FS_Singleton, FS_Subset, FS_CardinalityType
      <4>2. QED
        BY <3>3, <4>1
    <3>6. CASE Globals = {}
      <4>1. r = NotFound /\ \A n : Named(n) = {}
        BY <3>1, <3>4, <3>6
      <4>2. QED
        BY <3>5, <3>6, <4>1, CompatAssumption
    <3>7. CASE Globals # {}
      <4>1. r = 1 /\ r # NotFound /\ r # MultipleGlobals
        BY <3>1, <3>7, CompatAssumption
      <4>2. \A n : Named(n) # {} => r \in Named(n)
        BY <3>2, <3>4, <4>1
      <4>3. QED
        BY <3>5, <4>1, <4>2
    <3>8. QED
      BY <3>6, <3>7
  <2>3. QED
    BY <2>1, <2>2
<1>2. IInv => OneForAReason
  BY <1>1 DEF OneForAReason
<1>3. QED
  BY <1>2, Invariance, PTL
=============================================================================
