----------------------------- MODULE SpawnScope -----------------------------
(***************************************************************************)
(* Where a thread's new tasks go, spawn.rs: the thread-local SPAWNER,      *)
(* `enter`, `SpawnScope::drop` and `spawn_with_name`.  The thread's scopes *)
(* and its calls of Spawn::spawn in progress form `frames`, oldest first.  *)
(* SPAWNER is a RefCell: spawn_with_name borrows it until Spawn::spawn     *)
(* returns, enter and drop borrow it mutably.  User code runs between any  *)
(* two steps and may panic; unwinding removes the youngest frame first.    *)
(*                                                                         *)
(* A spawner is known by what ptr::eq on two &dyn Spawn compares, address  *)
(* and vtable, which another one may have too (two spawners of a type      *)
(* without fields).                                                        *)
(***************************************************************************)
EXTENDS Integers, Sequences, SequencesExt

CONSTANTS Addresses,    \* of spawners, vtable included
          NONE,         \* no spawner
          Nested,       \* scopes are dropped youngest first
          MaxFrames     \* bound of the model: depth of scopes and calls

ASSUME SpawnScopeAssumption ==
  /\ NONE \notin Addresses /\ "compat" \notin Addresses
  /\ Nested \in BOOLEAN /\ MaxFrames \in Nat

VARIABLES
  SPAWNER,      \* the thread-local
  frames,       \* SpawnScopes alive and Spawn::spawns running
  panicking,    \* the thread unwinds
  faults        \* panics that this module's code has raised, or "abort"

vars == <<SPAWNER, frames, panicking, faults>>

Spawner == Addresses \cup {NONE}

\* A scope remembers what it replaced, a call to whom its task was given.
Scope(a, p) == [kind |-> "scope", at |-> a, previous |-> p]
Call(a)     == [kind |-> "call", at |-> a]

Frame == {Scope(a, p) : a \in Addresses, p \in Spawner}
           \cup {Call(a) : a \in Addresses \cup {"compat"}}

TypeOK ==
  /\ SPAWNER \in Spawner
  /\ frames \in Seq(Frame) /\ Len(frames) <= MaxFrames
  /\ panicking \in BOOLEAN
  /\ faults \in SUBSET {"no spawner", "borrowed", "assert", "abort"}

Init == SPAWNER = NONE /\ frames = <<>> /\ panicking = FALSE /\ faults = {}

Borrowed == \E i \in DOMAIN frames : frames[i].kind = "call"

Running == "abort" \notin faults
Calm    == Running /\ ~panicking

Youngest(kind) == frames # <<>> /\ Last(frames).kind = kind

\* A second panic while the first one unwinds aborts the process.
Panic(f) ==
  /\ panicking' = TRUE
  /\ faults' = faults \cup (IF panicking THEN {f, "abort"} ELSE {f})

(***************************************************************************)
(* enter and SpawnScope::drop                                              *)
(***************************************************************************)
EnteredForgetting(a) == Scope(a, NONE)  \* Faulty: nothing to restore.

\* The new scope keeps what `exchange` returns.
Entered(a) == Scope(a, SPAWNER)

Enter(a) ==
  /\ Calm /\ ~Borrowed /\ Len(frames) < MaxFrames
  /\ SPAWNER' = a
  /\ frames' = Append(frames, Entered(a))
  /\ UNCHANGED <<panicking, faults>>

\* Inside Spawn::spawn, enter cannot borrow SPAWNER mutably.
EnterBorrowed ==
  /\ Calm /\ Borrowed
  /\ Panic("borrowed")
  /\ UNCHANGED <<SPAWNER, frames>>

\* Faulty: the end of a scope clears SPAWNER, or leaves it alone.
RestoreNothing(s) == SPAWNER' = NONE /\ UNCHANGED <<panicking, faults>>
RestoreLater(s)   == UNCHANGED <<SPAWNER, panicking, faults>>

\* SpawnScope::drop: SPAWNER is set before what it held is looked at.
Restore(s) ==
  /\ SPAWNER' = s.previous
  /\ IF SPAWNER = s.at THEN UNCHANGED <<panicking, faults>>
                       ELSE Panic(IF SPAWNER = NONE THEN "no spawner" ELSE "assert")

\* A scope ends: the youngest, or, where futures that share the thread hold
\* scopes across their polls, any.  No call is in progress between polls, nor
\* does a scope begin in one.
DropScope(i) ==
  /\ Running /\ i \in DOMAIN frames /\ frames[i].kind = "scope"
  /\ IF Nested \/ panicking THEN i = Len(frames) ELSE ~Borrowed
  /\ frames' = RemoveAt(frames, i)
  /\ Restore(frames[i])

(***************************************************************************)
(* spawn_with_name                                                         *)
(***************************************************************************)

ChosenAnyway == SPAWNER     \* Faulty: no spawner goes unnoticed.

\* The task goes to the current spawner; failing that, find_spawn may know
\* one.
Chosen == IF SPAWNER = NONE THEN "compat" ELSE SPAWNER

Spawn ==
  /\ Calm /\ Len(frames) < MaxFrames
  /\ frames' = Append(frames, Call(Chosen))
  /\ UNCHANGED <<SPAWNER, panicking, faults>>

\* `.expect("no spawner")`; find_spawn's own panic unwinds in the same way.
SpawnNowhere ==
  /\ Calm /\ SPAWNER = NONE
  /\ Panic("no spawner")
  /\ UNCHANGED <<SPAWNER, frames>>

\* Spawn::spawn returns or unwinds; either way the borrow ends.
SpawnEnds ==
  /\ Running /\ Youngest("call")
  /\ frames' = Front(frames)
  /\ UNCHANGED <<SPAWNER, panicking, faults>>

(***************************************************************************)
(* User code panics, and catches a panic                                   *)
(***************************************************************************)
UserPanics ==
  /\ Calm
  /\ panicking' = TRUE
  /\ UNCHANGED <<SPAWNER, frames, faults>>

Catch ==
  /\ Running /\ panicking
  /\ panicking' = FALSE
  /\ UNCHANGED <<SPAWNER, frames, faults>>

Next ==
  \/ \E a \in Addresses : Enter(a)
  \/ EnterBorrowed
  \/ \E i \in DOMAIN frames : DropScope(i)
  \/ Spawn \/ SpawnNowhere \/ SpawnEnds
  \/ UserPanics \/ Catch

Spec == Init /\ [][Next]_vars

(***************************************************************************)
(* Properties                                                              *)
(***************************************************************************)
Scopes(n) == {i \in 1..n : frames[i].kind = "scope"}

\* The spawner of the youngest scope among the first n frames, or none.
Innermost(n, none) ==
  IF Scopes(n) = {} THEN none ELSE frames[Max(Scopes(n))].at

\* Whatever was spawned, unwound and caught before: SPAWNER is the spawner of
\* the innermost scope, and so was it for each spawn still running.
InnermostSpawns ==
  /\ SPAWNER = Innermost(Len(frames), NONE)
  /\ \A i \in DOMAIN frames :
       frames[i].kind = "call" => frames[i].at = Innermost(i, "compat")

\* SPAWNER never outlives the borrow behind it: some scope alive was entered
\* with it.  The lifetime transmuted away in `exchange` rests on this.
EnteredIsAlive ==
  SPAWNER # NONE => \E i \in Scopes(Len(frames)) : frames[i].at = SPAWNER

\* The end of a scope never panics, even one that a panic brings about: what
\* drop asserts holds, and the process never aborts.
DropsQuietly == faults \cap {"assert", "abort"} = {}
=============================================================================
