-------------------------- MODULE SpawnScopeProofs --------------------------
(***************************************************************************)
(* Proofs about SpawnScope where scopes are dropped youngest first, for    *)
(* any spawners and any depth: what `exchange` takes from the borrow       *)
(* checker holds all the same.                                             *)
(***************************************************************************)
EXTENDS SpawnScope, BoundedSets, SequenceTheorems, TLAPS

\* Scopes and Innermost, of any sequence of frames.
ScopesOf(s, n) == {i \in 1..n : s[i].kind = "scope"}

InnermostOf(s, n, none) ==
  IF ScopesOf(s, n) = {} THEN none ELSE s[Max(ScopesOf(s, n))].at

\* Each scope keeps the spawner of the one around it, and each call has that
\* of the one it is in.
Chained(s) ==
  \A i \in 1..Len(s) :
    /\ s[i].kind = "scope" => s[i].previous = InnermostOf(s, i - 1, NONE)
    /\ s[i].kind = "call"  => s[i].at = InnermostOf(s, i, "compat")

Current(s) == InnermostOf(s, Len(s), NONE)

IInv == TypeOK /\ Chained(frames) /\ SPAWNER = Current(frames) /\ DropsQuietly

LEMMA Frames ==
  ASSUME NEW f \in Frame
  PROVE  \/ f.kind = "scope" /\ f.at \in Addresses /\ f.previous \in Spawner
         \/ f.kind = "call" /\ f.at \in Addresses \cup {"compat"}
  BY DEF Frame, Scope, Call

\* What TypeOK says of the frames' number.
LEMMA Depth ==
  ASSUME TypeOK
  PROVE  /\ frames \in Seq(Frame) /\ DOMAIN frames = 1..Len(frames)
         /\ Len(frames) \in Nat /\ Len(frames) \in 0..Len(frames)
         /\ \A n : n = Len(frames) - 1 => n <= MaxFrames
         /\ \A n : n = Len(frames) + 1 /\ Len(frames) < MaxFrames => n <= MaxFrames
<1>1. frames \in Seq(Frame) /\ Len(frames) <= MaxFrames /\ MaxFrames \in Nat
  BY SpawnScopeAssumption DEF TypeOK
<1>2. Len(frames) \in Nat /\ DOMAIN frames = 1..Len(frames)
  BY <1>1, LenProperties
<1> DEFINE k == Len(frames)
<1>3. k \in Nat /\ k <= MaxFrames /\ MaxFrames \in Nat
  BY <1>1, <1>2
<1> HIDE DEF k
<1>4. /\ k \in 0..k /\ k - 1 <= MaxFrames
      /\ k < MaxFrames => k + 1 <= MaxFrames
  BY <1>3
<1>5. QED
  BY <1>1, <1>2, <1>4 DEF k

LEMMA NewFrames ==
  /\ \A a \in Addresses, p \in Spawner : Scope(a, p) \in Frame
  /\ \A a \in Addresses \cup {"compat"} : Call(a) \in Frame
  BY DEF Frame

\* The innermost scope is told by the last frame, or else by those before it.
LEMMA InnermostSteps ==
  ASSUME NEW s, NEW n \in Nat, NEW none
  PROVE  /\ InnermostOf(s, 0, none) = none
         /\ s[n + 1].kind = "scope" =>
              InnermostOf(s, n + 1, none) = s[n + 1].at
         /\ s[n + 1].kind # "scope" =>
              InnermostOf(s, n + 1, none) = InnermostOf(s, n, none)
<1>1. InnermostOf(s, 0, none) = none
  BY DEF InnermostOf, ScopesOf
<1>2. CASE s[n + 1].kind = "scope"
  <2>1. n + 1 \in ScopesOf(s, n + 1) /\ ScopesOf(s, n + 1) \subseteq 1..(n + 1)
    BY <1>2 DEF ScopesOf
  <2> DEFINE m == Max(ScopesOf(s, n + 1))
  <2>2. m \in ScopesOf(s, n + 1) /\ \A i \in ScopesOf(s, n + 1) : i <= m
    BY <2>1, MaxOf
  <2>3. m \in 1..(n + 1) /\ n + 1 <= m
    BY <2>1, <2>2
  <2> HIDE DEF m
  <2>4. m = n + 1
    BY <2>3
  <2>5. InnermostOf(s, n + 1, none) = s[n + 1].at
    BY <2>1, <2>4 DEF InnermostOf, m
  <2>6. QED
    BY <1>1, <1>2, <2>5
<1>3. CASE s[n + 1].kind # "scope"
  <2>1. ScopesOf(s, n + 1) = ScopesOf(s, n)
    BY <1>3 DEF ScopesOf
  <2>2. InnermostOf(s, n + 1, none) = InnermostOf(s, n, none)
    BY <2>1 DEF InnermostOf
  <2>3. QED
    BY <1>1, <1>3, <2>2
<1>4. QED
  BY <1>2, <1>3

\* It depends on no frame after them.
LEMMA InnermostPrefix ==
  ASSUME NEW s, NEW t, NEW n \in Nat, \A i \in 1..n : s[i] = t[i]
  PROVE  /\ ScopesOf(s, n) = ScopesOf(t, n)
         /\ \A none : InnermostOf(s, n, none) = InnermostOf(t, n, none)
<1>1. ScopesOf(s, n) = ScopesOf(t, n) /\ ScopesOf(s, n) \subseteq 1..n
  BY DEF ScopesOf
<1>2. ASSUME NEW none
      PROVE  InnermostOf(s, n, none) = InnermostOf(t, n, none)
  <2>1. CASE ScopesOf(s, n) = {}
    BY <1>1, <2>1 DEF InnermostOf
  <2>2. CASE ScopesOf(s, n) # {}
    <3> DEFINE m == Max(ScopesOf(s, n))
    <3>1. m \in 1..n
      BY <1>1, <2>2, MaxOf
    <3> HIDE DEF m
    <3>2. s[m].at = t[m].at
      BY <3>1
    <3>3. QED
      BY <1>1, <2>2, <3>2 DEF InnermostOf, m
  <2>3. QED
    BY <2>1, <2>2
<1>3. QED
  BY <1>1, <1>2

\* The innermost spawner is one, if there is a scope; a spawn gets it.
LEMMA InnermostAlive ==
  ASSUME TypeOK, NEW n \in 0..Len(frames)
  PROVE  \/ /\ ScopesOf(frames, n) = {}
            /\ \A none : InnermostOf(frames, n, none) = none
         \/ \E i \in ScopesOf(frames, n) :
              /\ frames[i].at \in Addresses
              /\ \A none : InnermostOf(frames, n, none) = frames[i].at
<1>1. frames \in Seq(Frame) /\ Len(frames) \in Nat
  BY LenProperties DEF TypeOK
<1>2. CASE ScopesOf(frames, n) = {}
  BY <1>2 DEF InnermostOf
<1>3. CASE ScopesOf(frames, n) # {}
  <2> DEFINE m == Max(ScopesOf(frames, n))
  <2>1. ScopesOf(frames, n) \subseteq 1..n /\ n \in Nat
    BY <1>1 DEF ScopesOf
  <2>2. m \in ScopesOf(frames, n)
    BY <1>3, <2>1, MaxOf
  <2>3. \A none : InnermostOf(frames, n, none) = frames[m].at
    BY <1>3 DEF InnermostOf
  <2> HIDE DEF m
  <2>4. m \in 1..Len(frames) /\ frames[m].kind = "scope"
    BY <1>1, <2>1, <2>2 DEF ScopesOf
  <2>5. frames[m] \in Frame
    BY <1>1, <2>4, ElementOfSeq
  <2>6. frames[m].at \in Addresses
    BY <2>4, <2>5, Frames
  <2>7. QED
    BY <2>2, <2>3, <2>6
<1>4. QED
  BY <1>2, <1>3

\* A frame is added that fits.
LEMMA Push ==
  ASSUME NEW s \in Seq(Frame), NEW f \in Frame, Chained(s),
         \/ f.kind = "scope" /\ f.previous = Current(s)
         \/ f.kind = "call" /\ f.at = InnermostOf(s, Len(s), "compat")
  PROVE  /\ Append(s, f) \in Seq(Frame) /\ Len(Append(s, f)) = Len(s) + 1
         /\ Chained(Append(s, f))
         /\ Current(Append(s, f)) =
              IF f.kind = "scope" THEN f.at ELSE Current(s)
<1> DEFINE n == Len(s)
           t == Append(s, f)
<1>1. /\ n \in Nat /\ t \in Seq(Frame) /\ Len(t) = n + 1
      /\ t[n + 1] = f /\ \A i \in 1..n : t[i] = s[i]
  OBVIOUS
<1> HIDE DEF n, t
<1>2. ASSUME NEW k \in 0..n
      PROVE  \A none : InnermostOf(t, k, none) = InnermostOf(s, k, none)
  <2>1. k \in Nat /\ \A i \in 1..k : t[i] = s[i]
    BY <1>1
  <2>2. QED
    BY <2>1, InnermostPrefix
<1>3. ASSUME NEW none
      PROVE  InnermostOf(t, n + 1, none) =
               IF f.kind = "scope" THEN f.at ELSE InnermostOf(s, n, none)
  <2>1. n \in 0..n
    BY <1>1
  <2>2. InnermostOf(t, n, none) = InnermostOf(s, n, none)
    BY <1>2, <2>1
  <2>3. QED
    BY <1>1, <2>2, InnermostSteps
<1>4. Current(t) = IF f.kind = "scope" THEN f.at ELSE Current(s)
  BY <1>1, <1>3 DEF Current, n
<1>5. ASSUME NEW i \in 1..(n + 1)
      PROVE  /\ t[i].kind = "scope" => t[i].previous = InnermostOf(t, i - 1, NONE)
             /\ t[i].kind = "call"  => t[i].at = InnermostOf(t, i, "compat")
  <2>1. CASE i = n + 1
    <3>1. i - 1 = n /\ n \in 0..n
      BY <1>1, <2>1
    <3>2. InnermostOf(t, i - 1, NONE) = Current(s)
      BY <1>2, <3>1 DEF Current, n
    <3>3. QED
      BY <1>1, <1>3, <2>1, <3>2 DEF n
  <2>2. CASE i # n + 1
    <3>1. i \in 1..n /\ i \in 0..n /\ i - 1 \in 0..n
      BY <1>1, <2>2
    <3>2. /\ InnermostOf(t, i - 1, NONE) = InnermostOf(s, i - 1, NONE)
          /\ InnermostOf(t, i, "compat") = InnermostOf(s, i, "compat")
      BY <1>2, <3>1
    <3>3. QED
      BY <1>1, <3>1, <3>2 DEF Chained, n
  <2>3. QED
    BY <2>1, <2>2
<1>6. Chained(t)
  BY <1>1, <1>5 DEF Chained
<1>7. QED
  BY <1>1, <1>4, <1>6 DEF n, t

\* The last frame goes, and with it what it brought.
LEMMA Pop ==
  ASSUME NEW s \in Seq(Frame), s # <<>>, Chained(s)
  PROVE  /\ Len(s) \in Nat /\ Len(s) \in 1..Len(s) /\ Last(s) \in Frame
         /\ Front(s) \in Seq(Frame) /\ Len(Front(s)) = Len(s) - 1
         /\ RemoveAt(s, Len(s)) = Front(s)
         /\ Chained(Front(s))
         /\ Last(s).kind = "scope" =>
              Current(s) = Last(s).at /\ Current(Front(s)) = Last(s).previous
         /\ Last(s).kind # "scope" => Current(Front(s)) = Current(s)
<1> DEFINE n == Len(s) - 1
           t == SubSeq(s, 1, n)
<1>1. n \in Nat /\ Len(s) = n + 1 /\ n + 1 \in 1..(n + 1)
  BY EmptySeq
<1>2. \A i \in 1..(n + 1) : s[i] \in Frame
  BY <1>1, ElementOfSeq
<1> HIDE DEF n
<1>3. t \in Seq(Frame) /\ Len(t) = n /\ \A i \in 1..n : t[i] = s[i]
  <2>1. \A i \in 1..n : s[i] \in Frame
    BY <1>1, <1>2
  <2>2. /\ t \in Seq(Frame) /\ Len(t) = IF 1 <= n THEN n - 1 + 1 ELSE 0
        /\ \A i \in 1..(n - 1 + 1) : t[i] = s[1 + i - 1]
    BY <1>1, <2>1, SubSeqProperties
  <2> HIDE DEF t
  <2>3. n - 1 + 1 = n /\ (1 <= n \/ n = 0) /\ \A i \in 1..n : 1 + i - 1 = i
    BY <1>1
  <2>4. QED
    BY <2>2, <2>3
<1>4. Front(s) = t /\ Last(s) = s[n + 1]
  BY <1>1 DEF Front, Last, n
<1>5. RemoveAt(s, Len(s)) = t
  <2>1. SubSeq(s, Len(s) + 1, Len(s)) = <<>>
    BY <1>1, SubSeqEmpty
  <2>2. t \o <<>> = t
    BY <1>3, ConcatEmptySeq
  <2>3. QED
    BY <2>1, <2>2 DEF RemoveAt, n
<1> HIDE DEF t
<1>6. ASSUME NEW k \in 0..n
      PROVE  \A none : InnermostOf(t, k, none) = InnermostOf(s, k, none)
  <2>1. k \in Nat /\ \A i \in 1..k : t[i] = s[i]
    BY <1>1, <1>3
  <2>2. QED
    BY <2>1, InnermostPrefix
<1>7. Current(t) = InnermostOf(s, n, NONE)
  BY <1>1, <1>3, <1>6 DEF Current
<1>8. /\ s[n + 1].kind = "scope" =>
           /\ Current(s) = s[n + 1].at
           /\ Current(t) = s[n + 1].previous
      /\ s[n + 1].kind # "scope" => Current(t) = Current(s)
  <2>1. n + 1 - 1 = n
    BY <1>1
  <2>2. s[n + 1].kind = "scope" => s[n + 1].previous = InnermostOf(s, n, NONE)
    BY <1>1, <2>1 DEF Chained
  <2>3. /\ s[n + 1].kind = "scope" => Current(s) = s[n + 1].at
        /\ s[n + 1].kind # "scope" => Current(s) = InnermostOf(s, n, NONE)
    <3>1. Current(s) = InnermostOf(s, n + 1, NONE)
      BY <1>1 DEF Current
    <3>2. QED
      BY <1>1, <3>1, InnermostSteps
  <2>4. QED
    BY <1>7, <2>2, <2>3
<1>9. ASSUME NEW i \in 1..n
      PROVE  /\ t[i].kind = "scope" => t[i].previous = InnermostOf(t, i - 1, NONE)
             /\ t[i].kind = "call"  => t[i].at = InnermostOf(t, i, "compat")
  <2>1. i \in 1..Len(s) /\ i \in 0..n /\ i - 1 \in 0..n
    BY <1>1
  <2>2. /\ InnermostOf(t, i - 1, NONE) = InnermostOf(s, i - 1, NONE)
        /\ InnermostOf(t, i, "compat") = InnermostOf(s, i, "compat")
    BY <1>6, <2>1
  <2>3. QED
    BY <1>3, <2>1, <2>2 DEF Chained
<1>10. Chained(t)
  BY <1>3, <1>9 DEF Chained
<1>11. QED
  BY <1>1, <1>2, <1>3, <1>4, <1>5, <1>8, <1>10

(***************************************************************************)
(* The invariant, where scopes are nested                                  *)
(***************************************************************************)
LEMMA InitInv == Init => IInv
<1> SUFFICES ASSUME Init PROVE IInv
  OBVIOUS
<1>1. frames = <<>> /\ frames \in Seq(Frame) /\ Len(frames) = 0
  BY EmptySeq DEF Init
<1>2. TypeOK
  <2>1. SPAWNER \in Spawner /\ panicking \in BOOLEAN
    BY DEF Init, Spawner
  <2>2. faults \in SUBSET {"no spawner", "borrowed", "assert", "abort"}
    BY DEF Init
  <2>3. Len(frames) <= MaxFrames
    <3>1. MaxFrames \in Nat
      BY SpawnScopeAssumption
    <3>2. 0 <= MaxFrames
      BY <3>1
    <3>3. QED
      BY <1>1, <3>2
  <2>4. QED
    BY <1>1, <2>1, <2>2, <2>3 DEF TypeOK
<1>3. Chained(frames)
  BY <1>1 DEF Chained
<1>4. SPAWNER = Current(frames)
  BY <1>1, InnermostSteps DEF Init, Current
<1>5. DropsQuietly
  BY DEF Init, DropsQuietly
<1>6. QED
  BY <1>2, <1>3, <1>4, <1>5 DEF IInv

LEMMA EnterStep ==
  ASSUME IInv, NEW a \in Addresses, Enter(a)
  PROVE  IInv'
<1> USE DEF IInv, TypeOK
<1>1. Entered(a) \in Frame /\ Entered(a).kind = "scope"
        /\ Entered(a).at = a /\ Entered(a).previous = SPAWNER
  BY NewFrames DEF Entered, Scope
<1>2. /\ frames' = Append(frames, Entered(a)) /\ SPAWNER' = a
      /\ UNCHANGED <<panicking, faults>> /\ Len(frames) < MaxFrames
  BY DEF Enter
<1> HIDE DEF TypeOK
<1>3. /\ frames' \in Seq(Frame) /\ Len(frames') = Len(frames) + 1
      /\ Chained(frames') /\ Current(frames') = a
  BY <1>1, <1>2, Push DEF TypeOK
<1>4. TypeOK'
  <2>1. Len(frames') <= MaxFrames
    BY <1>2, <1>3, Depth
  <2>2. QED
    BY <1>2, <1>3, <2>1 DEF TypeOK, Spawner
<1>5. QED
  BY <1>2, <1>3, <1>4 DEF DropsQuietly

LEMMA SpawnStep ==
  ASSUME IInv, Spawn
  PROVE  IInv'
<1> USE DEF IInv
<1>1. Chosen = InnermostOf(frames, Len(frames), "compat")
        /\ Chosen \in Addresses \cup {"compat"}
  <2>1. Len(frames) \in 0..Len(frames)
    BY Depth
  <2>2. QED
    BY <2>1, InnermostAlive, SpawnScopeAssumption DEF Chosen, Current
<1>2. Call(Chosen) \in Frame /\ Call(Chosen).kind = "call"
        /\ Call(Chosen).at = Chosen
  BY <1>1, NewFrames DEF Call
<1>3. /\ frames' = Append(frames, Call(Chosen)) /\ Len(frames) < MaxFrames
      /\ UNCHANGED <<SPAWNER, panicking, faults>>
  BY DEF Spawn
<1>4. /\ frames' \in Seq(Frame) /\ Len(frames') = Len(frames) + 1
      /\ Chained(frames') /\ Current(frames') = Current(frames)
  BY <1>1, <1>2, <1>3, Push DEF TypeOK
<1>5. TypeOK'
  <2>1. Len(frames') <= MaxFrames
    BY <1>3, <1>4, Depth
  <2>2. QED
    BY <1>3, <1>4, <2>1 DEF TypeOK
<1>6. QED
  BY <1>3, <1>4, <1>5 DEF DropsQuietly

LEMMA Restored ==
  ASSUME NEW s, Restore(s), SPAWNER = s.at
  PROVE  SPAWNER' = s.previous /\ UNCHANGED <<panicking, faults>>
  BY DEF Restore

\* What drop asserts holds.
LEMMA DropScopeStep ==
  ASSUME Nested, IInv, NEW i \in DOMAIN frames, DropScope(i)
  PROVE  IInv'
<1> USE DEF IInv
<1>1. frames \in Seq(Frame) /\ i \in 1..Len(frames) /\ frames # <<>>
  <2>1. frames \in Seq(Frame) /\ i \in 1..Len(frames)
    BY Depth
  <2>2. frames # <<>>
    BY <2>1, EmptySeq
  <2>3. QED
    BY <2>1, <2>2
<1>9. i = Len(frames)
  BY DEF DropScope
<1>2. /\ Len(frames) \in Nat /\ Last(frames) \in Frame
      /\ Front(frames) \in Seq(Frame) /\ Len(Front(frames)) = Len(frames) - 1
      /\ RemoveAt(frames, Len(frames)) = Front(frames)
      /\ Chained(Front(frames))
      /\ Last(frames).kind = "scope" =>
           /\ Current(frames) = Last(frames).at
           /\ Current(Front(frames)) = Last(frames).previous
  BY <1>1, Pop
<1>3. Last(frames) = frames[i] /\ Last(frames).kind = "scope"
  BY <1>9 DEF DropScope, Last
<1>4. frames' = Front(frames) /\ SPAWNER = Last(frames).at
        /\ Restore(Last(frames))
  BY <1>9, <1>2, <1>3 DEF DropScope
<1>5. SPAWNER' = Last(frames).previous /\ UNCHANGED <<panicking, faults>>
  BY <1>4, Restored
<1>6. Last(frames).previous \in Spawner
  BY <1>2, <1>3, Frames
<1>7. TypeOK'
  <2>1. Len(frames') <= MaxFrames
    BY <1>2, <1>4, Depth
  <2>2. QED
    BY <1>2, <1>4, <1>5, <1>6, <2>1 DEF TypeOK
<1>8. QED
  BY <1>2, <1>3, <1>4, <1>5, <1>7 DEF DropsQuietly

LEMMA SpawnEndsStep ==
  ASSUME IInv, SpawnEnds
  PROVE  IInv'
<1> USE DEF IInv
<1>1. frames \in Seq(Frame) /\ frames # <<>> /\ Last(frames).kind = "call"
  BY DEF TypeOK, SpawnEnds, Youngest
<1>2. /\ Len(frames) \in Nat
      /\ Front(frames) \in Seq(Frame) /\ Len(Front(frames)) = Len(frames) - 1
      /\ Chained(Front(frames)) /\ Current(Front(frames)) = Current(frames)
  BY <1>1, Pop
<1>3. frames' = Front(frames) /\ UNCHANGED <<SPAWNER, panicking, faults>>
  BY DEF SpawnEnds
<1>4. TypeOK'
  <2>1. Len(frames') <= MaxFrames
    BY <1>2, <1>3, Depth
  <2>2. QED
    BY <1>2, <1>3, <2>1 DEF TypeOK
<1>5. QED
  BY <1>2, <1>3, <1>4 DEF DropsQuietly

\* Panics, and catching them, leave SPAWNER and the frames alone.
LEMMA PanicStep ==
  ASSUME IInv, EnterBorrowed \/ SpawnNowhere \/ UserPanics \/ Catch
               \/ UNCHANGED vars
  PROVE  IInv'
<1>1. UNCHANGED <<SPAWNER, frames>>
  BY DEF EnterBorrowed, SpawnNowhere, UserPanics, Catch, vars
<1>2. panicking' \in BOOLEAN
        /\ faults' \in SUBSET {"no spawner", "borrowed", "assert", "abort"}
  BY DEF EnterBorrowed, SpawnNowhere, UserPanics, Catch, vars, Panic, IInv,
         TypeOK
<1>3. DropsQuietly'
  BY DEF EnterBorrowed, SpawnNowhere, UserPanics, Catch, vars, Panic, Calm,
         IInv, DropsQuietly
<1>4. QED
  BY <1>1, <1>2, <1>3 DEF IInv, TypeOK

(***************************************************************************)
(* Theorems                                                                *)
(***************************************************************************)

\* The invariant holds whatever spawns, panics and is caught.
THEOREM Invariance == ASSUME Nested PROVE Spec => []IInv
<1>1. Init => IInv
  BY InitInv
<1>2. IInv /\ [Next]_vars => IInv'
  BY EnterStep, SpawnStep, DropScopeStep, SpawnEndsStep, PanicStep DEF Next
<1>3. QED
  BY <1>1, <1>2, PTL DEF Spec

\* Every variable keeps its type.
THEOREM TypeCorrect == ASSUME Nested PROVE Spec => []TypeOK
<1>1. Spec => []IInv
  BY Invariance
<1>2. QED
  BY <1>1, PTL DEF IInv

\* The end of a scope never panics.
THEOREM DropsQuietlyHolds == ASSUME Nested PROVE Spec => []DropsQuietly
<1>1. Spec => []IInv
  BY Invariance
<1>2. QED
  BY <1>1, PTL DEF IInv

\* A spawn goes to the innermost scope's spawner.
THEOREM InnermostSpawnsHolds == ASSUME Nested PROVE Spec => []InnermostSpawns
<1>1. Spec => []IInv
  BY Invariance
<1>2. IInv => InnermostSpawns
  <2>1. \A n, none : Innermost(n, none) = InnermostOf(frames, n, none)
    BY DEF Innermost, InnermostOf, Scopes, ScopesOf
  <2>2. TypeOK => DOMAIN frames = 1..Len(frames)
    BY LenProperties DEF TypeOK
  <2>3. QED
    BY <2>1, <2>2 DEF IInv, Chained, Current, InnermostSpawns
<1>3. QED
  BY <1>1, <1>2, PTL

\* The borrow behind SPAWNER has not ended.
THEOREM EnteredIsAliveHolds == ASSUME Nested PROVE Spec => []EnteredIsAlive
<1>1. Spec => []IInv
  BY Invariance
<1>2. IInv => EnteredIsAlive
  <2> SUFFICES ASSUME IInv, SPAWNER # NONE
               PROVE  \E i \in Scopes(Len(frames)) : frames[i].at = SPAWNER
    BY DEF EnteredIsAlive
  <2>1. Len(frames) \in 0..Len(frames)
    BY Depth DEF IInv
  <2>2. Scopes(Len(frames)) = ScopesOf(frames, Len(frames))
    BY DEF Scopes, ScopesOf
  <2>3. QED
    BY <2>1, <2>2, InnermostAlive DEF IInv, Current
<1>3. QED
  BY <1>1, <1>2, PTL
=============================================================================
