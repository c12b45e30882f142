---------------------------- MODULE TaskIdProofs ----------------------------
(***************************************************************************)
(* Proofs about TaskId, for any number of tasks and threads, polls nested  *)
(* to any depth, and a counter of any width.                               *)
(***************************************************************************)
EXTENDS TaskId, SequenceTheorems, TLAPS

\* Each poll keeps the id of the one around it, and each polled task its own.
ChainInv ==
  \A h \in Threads : \A i \in 1..Len(polls[h]) :
    /\ task[polls[h][i].task] # "none"
    /\ polls[h][i].previous =
         IF i = 1 THEN 0 ELSE id[polls[h][i - 1].task]

\* As long as the counter has not come to 0, no task has that id.
ZeroInv ==
  ~wrapped => ID # 0 /\ \A t \in Tasks : task[t] # "none" => id[t] # 0

\* A task's id lags behind the counter by the spawns since, and no two tasks
\* were spawned at once.
LagInv ==
  \A t \in Tasks : task[t] # "none" /\ since[t] < Modulus =>
    /\ id[t] + since[t] + 1 \in {ID, ID + Modulus}
    /\ \A u \in Tasks : task[u] # "none" /\ since[u] = since[t] => u = t

IInv == TypeOK /\ RunningIsInnermost /\ ChainInv /\ ZeroInv /\ LagInv

\* What is left of a thread's polls when the innermost ends.
LEMMA FrontLast ==
  ASSUME NEW S, NEW s \in Seq(S), s # <<>>
  PROVE  /\ Len(s) \in Nat /\ Len(s) >= 1
         /\ Last(s) = s[Len(s)] /\ Last(s) \in S
         /\ Front(s) \in Seq(S) /\ Len(Front(s)) = Len(s) - 1
         /\ \A i \in 1..(Len(s) - 1) : Front(s)[i] = s[i]
<1>1. Len(s) \in Nat /\ Len(s) >= 1
  BY EmptySeq
<1>2. \A i \in 1..Len(s) : s[i] \in S
  BY ElementOfSeq
<1>3. \A i \in 1..(Len(s) - 1) : s[i] \in S
  BY <1>1, <1>2
<1>4. /\ SubSeq(s, 1, Len(s) - 1) \in Seq(S)
      /\ Len(SubSeq(s, 1, Len(s) - 1)) =
           IF 1 <= Len(s) - 1 THEN (Len(s) - 1) - 1 + 1 ELSE 0
      /\ \A i \in 1..((Len(s) - 1) - 1 + 1) :
           SubSeq(s, 1, Len(s) - 1)[i] = s[1 + i - 1]
  BY <1>1, <1>3, SubSeqProperties
<1>5. 1..((Len(s) - 1) - 1 + 1) = 1..(Len(s) - 1)
  BY <1>1
<1>6. \A i \in 1..(Len(s) - 1) : SubSeq(s, 1, Len(s) - 1)[i] = s[i]
  <2> TAKE i \in 1..(Len(s) - 1)
  <2>1. SubSeq(s, 1, Len(s) - 1)[i] = s[1 + i - 1]
    BY <1>4, <1>5
  <2>2. 1 + i - 1 = i
    BY <1>1
  <2>3. QED
    BY <2>1, <2>2
<1>7. Len(SubSeq(s, 1, Len(s) - 1)) = Len(s) - 1
  <2>1. CASE Len(s) = 1
    BY <1>4, <2>1
  <2>2. CASE Len(s) # 1
    <3>1. 1 <= Len(s) - 1 /\ (Len(s) - 1) - 1 + 1 = Len(s) - 1
      <4>1. \A n \in Nat : n >= 1 /\ n # 1 =>
              1 <= n - 1 /\ (n - 1) - 1 + 1 = n - 1
        OBVIOUS
      <4>2. QED
        BY <1>1, <2>2, <4>1
    <3>2. QED
      BY <1>4, <3>1
  <2>3. QED
    BY <2>1, <2>2
<1>8. Len(s) \in 1..Len(s)
  BY <1>1
<1>9. QED
  BY <1>1, <1>2, <1>4, <1>6, <1>7, <1>8 DEF Front, Last

\* What Poll makes of them.
LEMMA AppendOne ==
  ASSUME NEW S, NEW s \in Seq(S), NEW e \in S
  PROVE  /\ Append(s, e) \in Seq(S) /\ Len(s) \in Nat
         /\ Len(Append(s, e)) = Len(s) + 1
         /\ Append(s, e)[Len(s) + 1] = e
         /\ \A i \in 1..Len(s) : Append(s, e)[i] = s[i]
  OBVIOUS

\* A task in the polls is one.
LEMMA Polled ==
  ASSUME TypeOK, NEW h \in Threads, NEW i \in 1..Len(polls[h])
  PROVE  polls[h][i].task \in Tasks /\ polls[h][i].previous \in RawId
<1>1. polls[h] \in Seq(IdScope)
  BY DEF TypeOK
<1>2. polls[h][i] \in IdScope
  BY <1>1, ElementOfSeq
<1>3. QED
  BY <1>2 DEF IdScope

\* An id's lag behind the counter grows by one with it.
LEMMA Lag ==
  ASSUME NEW n \in RawId, NEW k \in RawId, NEW d \in Nat,
         d + 1 < Modulus, k + d + 1 = n \/ k + d + 1 = n + Modulus
  PROVE  \/ k + (d + 1) + 1 = NextId(n)
         \/ k + (d + 1) + 1 = NextId(n) + Modulus
  BY TaskIdAssumption DEF RawId, NextId

LEMMA InitInv == Init => IInv
<1> SUFFICES ASSUME Init PROVE IInv
  OBVIOUS
<1>1. TypeOK
  <2>1. 0 \in RawId /\ 1 \in RawId /\ 0 \in 0..Modulus
    BY TaskIdAssumption DEF RawId
  <2>2. <<>> \in Seq(IdScope)
    BY EmptySeq
  <2>3. QED
    BY <2>1, <2>2 DEF Init, First, TypeOK
<1>2. RunningIsInnermost /\ ChainInv /\ ZeroInv /\ LagInv
  BY TaskIdAssumption
     DEF Init, First, RunningIsInnermost, ChainInv, ZeroInv, LagInv
<1>3. QED
  BY <1>1, <1>2 DEF IInv

\* A spawn gives the id to a task that is not being polled.
LEMMA SpawnStep ==
  ASSUME IInv, NEW t \in Tasks, Spawn(t)
  PROVE  IInv'
<1> USE TaskIdAssumption DEF IInv, TypeOK, RawId
<1>1. TypeOK'
  BY DEF Spawn, NextId
<1>2. \A h \in Threads : \A i \in 1..Len(polls[h]) :
        /\ polls[h][i].task \in Tasks /\ polls[h][i].task # t
        /\ id'[polls[h][i].task] = id[polls[h][i].task]
        /\ task'[polls[h][i].task] = task[polls[h][i].task]
  <2> TAKE h \in Threads
  <2> TAKE i \in 1..Len(polls[h])
  <2>1. polls[h][i].task \in Tasks
    BY Polled
  <2>2. QED
    BY <2>1 DEF Spawn, ChainInv
<1>3. \A h \in Threads : polls[h] # <<>> => Len(polls[h]) \in 1..Len(polls[h])
  BY EmptySeq
<1>4. RunningIsInnermost'
  BY <1>2, <1>3 DEF Spawn, RunningIsInnermost
<1>5. ChainInv'
  <2> SUFFICES ASSUME NEW h \in Threads, NEW i \in 1..Len(polls[h])
               PROVE  /\ task'[polls[h][i].task] # "none"
                      /\ polls[h][i].previous =
                           IF i = 1 THEN 0 ELSE id'[polls[h][i - 1].task]
    BY DEF ChainInv, Spawn
  <2>1. Len(polls[h]) \in Nat
    BY LenProperties
  <2>2. i # 1 => i - 1 \in 1..Len(polls[h])
    BY <2>1
  <2>3. QED
    BY <1>2, <2>2 DEF ChainInv
<1>6. ZeroInv'
  BY DEF Spawn, ZeroInv
<1>7. LagInv'
  <2> SUFFICES ASSUME NEW v \in Tasks, task'[v] # "none", since'[v] < Modulus
               PROVE  /\ id'[v] + since'[v] + 1 \in {ID', ID' + Modulus}
                      /\ \A u \in Tasks :
                           task'[u] # "none" /\ since'[u] = since'[v] => u = v
    BY DEF LagInv
  <2>1. CASE v = t
    BY <2>1 DEF Spawn, NextId
  <2>2. CASE v # t
    <3>1. /\ task[v] # "none" /\ since[v] \in Nat /\ since[v] + 1 < Modulus
          /\ since'[v] = since[v] + 1 /\ id'[v] = id[v]
      BY <2>2 DEF Spawn
    <3>2. id[v] + since[v] + 1 \in {ID, ID + Modulus}
      BY <3>1 DEF LagInv
    <3>3. id'[v] + since'[v] + 1 \in {ID', ID' + Modulus}
      <4>1. ID' = NextId(ID) /\ ID \in RawId /\ id[v] \in RawId
        BY DEF Spawn
      <4>2. \/ id[v] + (since[v] + 1) + 1 = NextId(ID)
            \/ id[v] + (since[v] + 1) + 1 = NextId(ID) + Modulus
        BY <3>1, <3>2, <4>1, Lag
      <4>3. QED
        BY <3>1, <4>1, <4>2
    <3>4. \A u \in Tasks :
            task'[u] # "none" /\ since'[u] = since'[v] => u = v
      BY <2>2, <3>1 DEF Spawn, LagInv
    <3>5. QED
      BY <3>3, <3>4
  <2>3. QED
    BY <2>1, <2>2
<1>8. QED
  BY <1>1, <1>4, <1>5, <1>6, <1>7 DEF IInv

LEMMA PollStep ==
  ASSUME IInv, NEW h \in Threads, NEW t \in Tasks, Poll(h, t)
  PROVE  IInv'
<1> DEFINE s == polls[h]
           e == [task |-> t, previous |-> RUNNING_ID[h]]
<1> USE TaskIdAssumption DEF IInv, TypeOK
<1>1. s \in Seq(IdScope) /\ e \in IdScope
  BY DEF IdScope
<1>2. /\ Append(s, e) \in Seq(IdScope) /\ Len(s) \in Nat
      /\ Len(Append(s, e)) = Len(s) + 1
      /\ Append(s, e)[Len(s) + 1] = e
      /\ \A i \in 1..Len(s) : Append(s, e)[i] = s[i]
  BY <1>1, AppendOne
<1>3. /\ polls' = [polls EXCEPT ![h] = Append(s, e)]
      /\ polls'[h] = Append(s, e)
      /\ \A g \in Threads \ {h} : polls'[g] = polls[g]
      /\ RUNNING_ID' = [RUNNING_ID EXCEPT ![h] = id[t]]
      /\ UNCHANGED <<ID, task, id, wrapped, since>> /\ task[t] = "alive"
  BY DEF Poll
<1> HIDE DEF s, e
<1>4. TypeOK'
  BY <1>2, <1>3 DEF IdScope
<1>5. RunningIsInnermost'
  <2>1. polls'[h] # <<>>
    BY <1>2, <1>3
  <2>2. RUNNING_ID'[h] = id[t] /\ e.task = t
    BY <1>3 DEF e
  <2>3. polls'[h][Len(polls'[h])].task = t
    BY <1>2, <1>3, <2>2
  <2>4. \A g \in Threads \ {h} : RUNNING_ID'[g] = RUNNING_ID[g]
    BY <1>3
  <2>5. QED
    BY <1>3, <2>1, <2>2, <2>3, <2>4 DEF RunningIsInnermost
<1>6. ChainInv'
  <2> SUFFICES ASSUME NEW g \in Threads, NEW i \in 1..Len(polls'[g])
               PROVE  /\ task[polls'[g][i].task] # "none"
                      /\ polls'[g][i].previous =
                           IF i = 1 THEN 0 ELSE id[polls'[g][i - 1].task]
    BY <1>3 DEF ChainInv
  <2>1. CASE g # h
    BY <1>3, <2>1 DEF ChainInv
  <2>2. CASE g = h /\ i = Len(s) + 1
    <3>1. polls'[g][i].task = t /\ polls'[g][i].previous = RUNNING_ID[h]
      BY <1>2, <1>3, <2>2 DEF e
    <3>2. i = 1 => s = <<>>
      BY <1>1, <1>2, <2>2, EmptySeq
    <3>3. i # 1 => s # <<>> /\ polls'[g][i - 1] = s[Len(s)]
      BY <1>2, <1>3, <2>2, EmptySeq
    <3>4. RUNNING_ID[h] = IF s = <<>> THEN 0 ELSE id[s[Len(s)].task]
      BY DEF RunningIsInnermost, s
    <3>5. QED
      BY <1>3, <3>1, <3>2, <3>3, <3>4
  <2>3. CASE g = h /\ i \in 1..Len(s)
    <3>1. polls'[g][i] = s[i] /\ (i # 1 => polls'[g][i - 1] = s[i - 1])
      BY <1>2, <1>3, <2>3
    <3>2. QED
      BY <2>3, <3>1 DEF ChainInv, s
  <2>4. QED
    BY <1>2, <1>3, <2>1, <2>2, <2>3
<1>7. ZeroInv' /\ LagInv'
  BY <1>3 DEF ZeroInv, LagInv
<1>8. QED
  BY <1>4, <1>5, <1>6, <1>7 DEF IInv

LEMMA PollEndsStep ==
  ASSUME IInv, NEW h \in Threads, PollEnds(h)
  PROVE  IInv'
<1> DEFINE s == polls[h]
<1> USE TaskIdAssumption DEF IInv, TypeOK
<1>1. s \in Seq(IdScope) /\ s # <<>>
  BY DEF IdScope, PollEnds
<1>2. /\ Len(s) \in Nat /\ Len(s) >= 1
      /\ Last(s) = s[Len(s)] /\ Last(s) \in IdScope
      /\ Front(s) \in Seq(IdScope) /\ Len(Front(s)) = Len(s) - 1
      /\ \A i \in 1..(Len(s) - 1) : Front(s)[i] = s[i]
  BY <1>1, FrontLast
<1>3. /\ polls' = [polls EXCEPT ![h] = Front(s)]
      /\ polls'[h] = Front(s)
      /\ \A g \in Threads \ {h} : polls'[g] = polls[g]
      /\ RUNNING_ID' = [RUNNING_ID EXCEPT ![h] = Last(s).previous]
      /\ UNCHANGED <<ID, id, wrapped, since>>
      /\ task' \in {task, [task EXCEPT ![Last(s).task] = "over"]}
  BY DEF PollEnds, Restored
<1> HIDE DEF s
<1>4. Last(s).previous \in RawId /\ Last(s).task \in Tasks
  BY <1>2 DEF IdScope
<1>5. task[Last(s).task] # "none"
  BY <1>2 DEF ChainInv, s
<1>6. /\ task' \in [Tasks -> {"none", "alive", "over"}]
      /\ \A t \in Tasks : task'[t] = "none" <=> task[t] = "none"
  BY <1>3, <1>4, <1>5
<1>7. TypeOK'
  BY <1>2, <1>3, <1>4, <1>6 DEF IdScope
<1>8. RunningIsInnermost'
  <2>1. RUNNING_ID'[h] = s[Len(s)].previous
    BY <1>2, <1>3
  <2>2. s[Len(s)].previous =
          IF Len(s) = 1 THEN 0 ELSE id[s[Len(s) - 1].task]
    BY <1>2 DEF ChainInv, s
  <2>3. Front(s) = <<>> <=> Len(s) = 1
    <3>1. Front(s) = <<>> => Len(Front(s)) = 0
      BY EmptySeq
    <3>2. Front(s) # <<>> => Len(Front(s)) # 0
      BY <1>2, EmptySeq
    <3>3. QED
      BY <1>2, <3>1, <3>2
  <2>4. Len(s) # 1 => Front(s)[Len(Front(s))] = s[Len(s) - 1]
    BY <1>2
  <2>5. RUNNING_ID'[h] =
          IF polls'[h] = <<>> THEN 0 ELSE id'[polls'[h][Len(polls'[h])].task]
    BY <1>3, <2>1, <2>2, <2>3, <2>4
  <2>6. \A g \in Threads \ {h} : RUNNING_ID'[g] = RUNNING_ID[g]
    BY <1>3
  <2>7. QED
    BY <1>3, <2>5, <2>6 DEF RunningIsInnermost
<1>9. ChainInv'
  <2> SUFFICES ASSUME NEW g \in Threads, NEW i \in 1..Len(polls'[g])
               PROVE  /\ task'[polls'[g][i].task] # "none"
                      /\ polls'[g][i].previous =
                           IF i = 1 THEN 0 ELSE id[polls'[g][i - 1].task]
    BY <1>3 DEF ChainInv
  <2>1. /\ i \in 1..Len(polls[g]) /\ polls'[g][i] = polls[g][i]
        /\ i # 1 => polls'[g][i - 1] = polls[g][i - 1]
    <3>1. CASE g # h
      BY <1>3, <3>1
    <3>2. CASE g = h
      <4>1. polls'[g] = Front(s) /\ polls[g] = s
        BY <1>3, <3>2 DEF s
      <4>2. i \in 1..(Len(s) - 1)
        BY <1>2, <4>1
      <4>3. /\ i \in 1..Len(s)
            /\ i # 1 => i - 1 \in 1..(Len(s) - 1)
        BY <1>2, <4>2
      <4>4. QED
        BY <1>2, <4>1, <4>2, <4>3
    <3>3. QED
      BY <3>1, <3>2
  <2>2. polls[g][i].task \in Tasks
    BY <2>1, Polled
  <2>3. QED
    BY <1>6, <2>1, <2>2 DEF ChainInv
<1>10. ZeroInv' /\ LagInv'
  BY <1>3, <1>6 DEF ZeroInv, LagInv
<1>11. QED
  BY <1>7, <1>8, <1>9, <1>10 DEF IInv

\* Only a task that no thread polls is forgotten.
LEMMA DropStep ==
  ASSUME IInv, NEW t \in Tasks, Drop(t)
  PROVE  IInv'
<1> USE DEF IInv, TypeOK
<1>1. TypeOK' /\ RunningIsInnermost'
  BY DEF Drop, RunningIsInnermost
<1>2. ChainInv'
  <2>1. \A h \in Threads : \A i \in 1..Len(polls[h]) : polls[h][i].task # t
    BY LenProperties DEF Drop, IsPolled
  <2>2. \A u \in Tasks : u # t => task'[u] = task[u]
    BY DEF Drop
  <2>3. \A h \in Threads : \A i \in 1..Len(polls[h]) :
          polls[h][i].task \in Tasks
    BY Polled
  <2>4. QED
    BY <2>1, <2>2, <2>3 DEF ChainInv, Drop
<1>3. ZeroInv' /\ LagInv'
  BY DEF Drop, ZeroInv, LagInv
<1>4. QED
  BY <1>1, <1>2, <1>3 DEF IInv

(***************************************************************************)
(* Theorems                                                                *)
(***************************************************************************)

\* The invariant holds whatever is spawned, polled and dropped.
THEOREM Invariance == Spec => []IInv
<1>1. Init => IInv
  BY InitInv
<1>2. IInv /\ [Next]_vars => IInv'
  <2>1. ASSUME IInv, UNCHANGED vars PROVE IInv'
    BY <2>1 DEF IInv, TypeOK, RunningIsInnermost, ChainInv, ZeroInv, LagInv,
                vars
  <2>2. QED
    BY <2>1, SpawnStep, PollStep, PollEndsStep, DropStep DEF Next
<1>3. QED
  BY <1>1, <1>2, PTL DEF Spec

\* Every variable keeps its type: ids stay within the counter's width.
THEOREM TypeCorrect == Spec => []TypeOK
  BY Invariance, PTL DEF IInv

\* id() names the innermost task polled on the thread.
THEOREM RunningIsInnermostHolds == Spec => []RunningIsInnermost
  BY Invariance, PTL DEF IInv

\* Until the counter wraps, a task that asks for its id is given one.
THEOREM NoneIsOutsideHolds == Spec => []NoneIsOutside
<1>1. IInv => NoneIsOutside
  <2> SUFFICES ASSUME IInv, ~wrapped, NEW h \in Threads
               PROVE  try_id(h) = NONE <=> polls[h] = <<>>
    BY DEF NoneIsOutside
  <2> USE DEF IInv, TypeOK
  <2>1. CASE polls[h] = <<>>
    BY <2>1 DEF RunningIsInnermost, try_id
  <2>2. CASE polls[h] # <<>>
    <3>1. Len(polls[h]) \in 1..Len(polls[h])
      BY <2>2, EmptySeq
    <3>2. polls[h][Len(polls[h])].task \in Tasks
      BY <3>1, Polled
    <3>3. RUNNING_ID[h] # 0 /\ RUNNING_ID[h] \in Nat
      BY <2>2, <3>1, <3>2, TaskIdAssumption
         DEF RunningIsInnermost, ChainInv, ZeroInv, RawId
    <3>4. QED
      BY <2>2, <3>3, TaskIdAssumption DEF try_id
  <2>3. QED
    BY <2>1, <2>2
<1>2. QED
  BY <1>1, Invariance, PTL

\* Two tasks share an id only if the counter went around since the older one.
THEOREM UniqueUntilWrapHolds == Spec => []UniqueUntilWrap
<1>1. IInv => UniqueUntilWrap
  <2> SUFFICES ASSUME IInv, NEW t \in Tasks, NEW u \in Tasks,
                      task[t] # "none", since[t] < Modulus,
                      task[u] # "none", since[u] < Modulus, id[t] = id[u]
               PROVE  t = u
    BY DEF UniqueUntilWrap
  <2>1. /\ id[t] + since[t] + 1 \in {ID, ID + Modulus}
        /\ id[t] + since[u] + 1 \in {ID, ID + Modulus}
    BY DEF IInv, LagInv
  <2>2. ID \in Nat /\ id[t] \in Nat /\ since[t] \in Nat /\ since[u] \in Nat
    BY TaskIdAssumption DEF IInv, TypeOK, RawId
  <2>3. since[t] = since[u]
    BY <2>1, <2>2, TaskIdAssumption
  <2>4. QED
    BY <2>3 DEF IInv, LagInv
<1>2. QED
  BY <1>1, Invariance, PTL
=============================================================================
