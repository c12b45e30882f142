------------------------------- MODULE Compat -------------------------------
(***************************************************************************)
(* Where a task goes that is spawned outside of every scope: `find_spawn`  *)
(* of compat.rs, called by several threads, over the registry that was     *)
(* linked into the program, with the adapters of spawns-compat.  A spawn   *)
(* function is known by the index of its entry in COMPATS.                 *)
(*                                                                         *)
(* FOUND is read, the environment variable is read, and FOUND is set in    *)
(* three steps; other threads, and changes of the variable, come between.  *)
(***************************************************************************)
EXTENDS Naturals, Sequences, FiniteSets, FiniteSetsExt

CONSTANTS Threads,
          Custom,       \* entries besides those of spawns-compat
          MaxCompats,   \* bound of the model: registered entries
          NONE,         \* no name, no function; a cell not set yet
          NotFound, MultipleGlobals     \* Failure

Local          == [kind |-> "local",  name |-> NONE]
Global         == [kind |-> "global", name |-> NONE]
NamedGlobal(n) == [kind |-> "named",  name |-> n]

TOKIO                 == Local
SMOL                  == NamedGlobal("smol")
ASYNC_GLOBAL_EXECUTOR == NamedGlobal("async-global-executor")

Entry == {TOKIO, SMOL, ASYNC_GLOBAL_EXECUTOR} \cup Custom
Names == {e.name : e \in Entry} \ {NONE}

ASSUME CompatAssumption ==
  /\ \A e \in Custom :
       \/ e \in {Local, Global}
       \/ e = NamedGlobal(e.name) /\ e.name # NONE
  /\ MaxCompats \in Nat /\ NONE \notin {"smol", "async-global-executor"}
  /\ NONE \notin Nat /\ NotFound \notin Nat /\ MultipleGlobals \notin Nat
  /\ NotFound # MultipleGlobals /\ NONE \notin {NotFound, MultipleGlobals}

VARIABLES
  COMPATS,          \* the registry
  panicMultiple,    \* feature panic-multiple-global-spawners
  env,              \* SPAWNS_GLOBAL_SPAWNER
  FOUND,            \* find_global's OnceLock
  inside,           \* the Locals whose runtime each thread is in
  pc, choose, result,   \* of each thread's find_spawn
  envs,             \* history: values env has had
  given             \* history: results that are no Local

vars == <<COMPATS, panicMultiple, env, FOUND, inside, pc, choose, result,
          envs, given>>
build == <<COMPATS, panicMultiple>>

Of(kind) == {i \in DOMAIN COMPATS : COMPATS[i].kind = kind}
Globals  == Of("global") \cup Of("named")
Named(n) == {i \in Of("named") : COMPATS[i].name = n}

Results == DOMAIN COMPATS \cup {NotFound, MultipleGlobals}

TypeOK ==
  /\ COMPATS \in Seq(Entry) /\ Len(COMPATS) <= MaxCompats
  /\ panicMultiple \in BOOLEAN
  /\ env \in Names \cup {NONE} /\ envs \in SUBSET (Names \cup {NONE})
  /\ FOUND \in Results \cup {NONE} /\ given \in SUBSET Results
  /\ inside \in [Threads -> SUBSET Of("local")]
  /\ pc \in [Threads -> {"idle", "get", "env", "init", "found"}]
  /\ choose \in [Threads -> Names \cup {NONE}]
  /\ result \in [Threads -> Results \cup {NONE}]

Init ==
  /\ COMPATS \in UNION {[1..n -> Entry] : n \in 0..MaxCompats}
  /\ panicMultiple \in BOOLEAN
  /\ env \in Names \cup {NONE} /\ envs = {env}
  /\ FOUND = NONE /\ given = {}
  /\ inside = [h \in Threads |-> {}]
  /\ pc = [h \in Threads |-> "idle"]
  /\ choose = [h \in Threads |-> NONE] /\ result = [h \in Threads |-> NONE]

Goto(h, l) == pc' = [pc EXCEPT ![h] = l] /\ UNCHANGED <<result, given>>

Return(h, r) ==
  /\ pc' = [pc EXCEPT ![h] = "found"]
  /\ result' = [result EXCEPT ![h] = r]
  /\ given' = given \cup ({r} \ Of("local"))

(***************************************************************************)
(* find_spawn and find_local                                               *)
(***************************************************************************)
FindLocalAny(h) ==        \* Faulty: runtimes are not asked.
  IF Of("local") = {} THEN NONE ELSE Min(Of("local"))

\* The first Local that knows a function, here and now.
FindLocal(h) == IF inside[h] = {} THEN NONE ELSE Min(inside[h])

FindOnlyAt0(h) == 1       \* Faulty: an empty registry is overlooked.

\* No entry, or one, whatever the environment says.
FindOnly(h) == IF Globals \cup inside[h] = {} THEN NotFound ELSE 1

FindSpawn(h) ==
  /\ pc[h] = "idle"
  /\ \/ Len(COMPATS) <= 1 /\ Return(h, FindOnly(h))
     \/ Len(COMPATS) > 1 /\ FindLocal(h) # NONE /\ Return(h, FindLocal(h))
     \/ Len(COMPATS) > 1 /\ FindLocal(h) = NONE /\ Goto(h, "get")
  /\ UNCHANGED <<build, env, envs, FOUND, inside, choose>>

(***************************************************************************)
(* find_global and pick_global                                             *)
(***************************************************************************)
FindGlobal(h) ==
  /\ pc[h] = "get"
  /\ IF FOUND # NONE THEN Return(h, FOUND) ELSE Goto(h, "env")
  /\ UNCHANGED <<build, env, envs, FOUND, inside, choose>>

ReadEnv(h) ==
  /\ pc[h] = "env"
  /\ choose' = [choose EXCEPT ![h] = env]
  /\ Goto(h, "init")
  /\ UNCHANGED <<build, env, envs, FOUND, inside>>

PickGlobalCounting(n) ==          \* Faulty: counts before it looks.
  IF panicMultiple /\ Cardinality(Globals) > 1 THEN MultipleGlobals
  ELSE IF Globals # {} THEN Max(Globals) ELSE NotFound

\* The first entry of that name, or else the last that has one, or else the
\* last that has none.
PickGlobal(n) ==
  CASE Named(n) # {} -> Min(Named(n))
    [] Named(n) = {} /\ panicMultiple /\ Cardinality(Globals) > 1 ->
         MultipleGlobals
    [] OTHER -> IF Of("named") # {} THEN Max(Of("named"))
                ELSE IF Globals # {} THEN Max(Globals) ELSE NotFound

KeptOwn(r) == r           \* Faulty: a thread returns what it has picked.

\* What get_or_init returns to a thread that has picked r.
Kept(r) == IF FOUND = NONE THEN r ELSE FOUND

GetOrInit(h) ==
  /\ pc[h] = "init"
  /\ FOUND' = Kept(PickGlobal(choose[h]))
  /\ Return(h, Kept(PickGlobal(choose[h])))
  /\ UNCHANGED <<build, env, envs, inside, choose>>

(***************************************************************************)
(* The program around it                                                   *)
(***************************************************************************)

\* The task is spawned, or the thread panics, and goes on.
Use(h) ==
  /\ pc[h] = "found"
  /\ pc' = [pc EXCEPT ![h] = "idle"]
  /\ result' = [result EXCEPT ![h] = NONE]
  /\ choose' = [choose EXCEPT ![h] = NONE]
  /\ UNCHANGED <<build, env, envs, FOUND, inside, given>>

\* A thread enters and leaves runtimes.
Switch(h) ==
  /\ pc[h] = "idle"
  /\ inside' \in {[inside EXCEPT ![h] = L] : L \in SUBSET Of("local")}
  /\ UNCHANGED <<build, env, envs, FOUND, pc, choose, result, given>>

SetEnv(n) ==
  /\ env' = n /\ envs' = envs \cup {n}
  /\ UNCHANGED <<build, FOUND, inside, pc, choose, result, given>>

Next ==
  \/ \E h \in Threads :
       \/ FindSpawn(h) \/ FindGlobal(h) \/ ReadEnv(h) \/ GetOrInit(h)
       \/ Use(h) \/ Switch(h)
  \/ \E n \in Names \cup {NONE} : SetEnv(n)

Spec == Init /\ [][Next]_vars

(***************************************************************************)
(* Properties                                                              *)
(***************************************************************************)

\* "Chooses one and stick to it": all threads that find no runtime of their
\* own are given the same, a failure included, however they race and whatever
\* becomes of the environment.
OneForAll == \A r, s \in given : r = s

\* That one is what the environment names, if it never changed; it is a
\* failure only for want of any, or, with the feature, of a name that says
\* which; and a candidate nobody named is not used where there are several.
OneForAReason ==
  \A r \in given :
    /\ \A n \in Names : envs = {n} /\ Named(n) # {} => r \in Named(n)
    /\ r = NotFound => Globals = {}
    /\ r = MultipleGlobals => panicMultiple
    /\ panicMultiple /\ Cardinality(Globals) > 1 =>
         r = MultipleGlobals \/ \E n \in envs \ {NONE} : r \in Named(n)

\* "In absent of thread local spawners": a thread in a runtime that has an
\* entry spawns there, the first such, and only a thread in it does, no matter
\* what was found before, on which thread and in which runtime.
LocalFirst ==
  \A h \in Threads : pc[h] = "found" =>
    IF inside[h] = {} THEN result[h] \notin Of("local")
    ELSE /\ result[h] \in inside[h]
         /\ \A i \in inside[h] : result[h] <= i
=============================================================================
