------------------------------- MODULE TaskId -------------------------------
(***************************************************************************)
(* Task ids: RawId::next draws them from a counter that wraps, and         *)
(* IdFuture::poll puts its task's id into the thread-local RUNNING_ID for  *)
(* as long as the poll lasts, to be read by `id` and `try_id`.             *)
(*                                                                         *)
(* A poll may poll other tasks on the same thread (a Spawn that runs a     *)
(* task at once, a block_on), and a task may be polled by one thread after *)
(* another.  Return and panic end a poll alike: IdScope::drop runs.        *)
(***************************************************************************)
EXTENDS Naturals, Sequences, SequencesExt

CONSTANTS Tasks,
          Threads,
          Modulus,      \* 2^64: how many values the counter has
          NONE          \* what try_id returns outside of tasks

ASSUME TaskIdAssumption ==
  /\ Modulus \in Nat /\ Modulus >= 2
  /\ NONE \notin Nat

RawId   == 0..(Modulus - 1)
IdScope == [task : Tasks, previous : RawId]

VARIABLES
  ID,           \* the counter
  RUNNING_ID,   \* of each thread
  task,         \* "none"; "alive"; or "over", with a handle to ask for the id
  id,           \* of each task
  polls,        \* the polls in progress on each thread, outermost first
  wrapped,      \* history: the counter has come to 0
  since         \* history: spawns since that of the task, at most Modulus

vars == <<ID, RUNNING_ID, task, id, polls, wrapped, since>>

TypeOK ==
  /\ ID \in RawId /\ RUNNING_ID \in [Threads -> RawId]
  /\ task \in [Tasks -> {"none", "alive", "over"}] /\ id \in [Tasks -> RawId]
  /\ polls \in [Threads -> Seq(IdScope)]
  /\ wrapped \in BOOLEAN /\ since \in [Tasks -> 0..Modulus]

FirstZero == 0            \* Faulty: the sentinel is handed out.

First == 1

Init ==
  /\ ID = First
  /\ RUNNING_ID = [h \in Threads |-> 0]
  /\ task = [t \in Tasks |-> "none"] /\ id = [t \in Tasks |-> 0]
  /\ polls = [h \in Threads |-> <<>>]
  /\ wrapped = FALSE /\ since = [t \in Tasks |-> 0]

(***************************************************************************)
(* Spawning: IdFuture::new                                                 *)
(***************************************************************************)
NextIdUnbounded(n)  == n + 1      \* Faulty: no width.
NextIdSaturating(n) == IF n = Modulus - 1 THEN n ELSE n + 1     \* Faulty.

\* fetch_add wraps.
NextId(n) == IF n = Modulus - 1 THEN 0 ELSE n + 1

Spawn(t) ==
  /\ task[t] = "none"
  /\ task' = [task EXCEPT ![t] = "alive"]
  /\ id' = [id EXCEPT ![t] = ID]
  /\ ID' = NextId(ID)
  /\ wrapped' = (wrapped \/ ID' = 0)
  /\ since' = [u \in Tasks |->
                 IF u = t THEN 0
                 ELSE IF since[u] = Modulus THEN Modulus ELSE since[u] + 1]
  /\ UNCHANGED <<RUNNING_ID, polls>>

(***************************************************************************)
(* Polling: IdFuture::poll, and what ends it                               *)
(***************************************************************************)
IsPolled(t) == \E h \in Threads : \E i \in DOMAIN polls[h] : polls[h][i].task = t

\* RawId::run swaps the thread's id.
Poll(h, t) ==
  /\ task[t] = "alive" /\ ~IsPolled(t)
  /\ polls' = [polls EXCEPT ![h] =
                 Append(@, [task |-> t, previous |-> RUNNING_ID[h]])]
  /\ RUNNING_ID' = [RUNNING_ID EXCEPT ![h] = id[t]]
  /\ UNCHANGED <<ID, task, id, wrapped, since>>

RestoredNone(poll) == 0   \* Faulty: the outer task is forgotten.

\* IdScope::drop.
Restored(poll) == poll.previous

\* The task may be through with that.
PollEnds(h) ==
  /\ polls[h] # <<>>
  /\ LET poll == Last(polls[h]) IN
       /\ polls' = [polls EXCEPT ![h] = Front(@)]
       /\ RUNNING_ID' = [RUNNING_ID EXCEPT ![h] = Restored(poll)]
       /\ task' \in {task, [task EXCEPT ![poll.task] = "over"]}
  /\ UNCHANGED <<ID, id, wrapped, since>>

\* The task is dropped by its executor, or its handle by the last to ask.
Drop(t) ==
  /\ ~IsPolled(t)
  /\ \/ task[t] = "alive" /\ task' = [task EXCEPT ![t] = "over"]
     \/ task[t] = "over"  /\ task' = [task EXCEPT ![t] = "none"]
  /\ UNCHANGED <<ID, RUNNING_ID, id, polls, wrapped, since>>

Next ==
  \/ \E t \in Tasks : Spawn(t) \/ Drop(t)
  \/ \E h \in Threads : PollEnds(h) \/ \E t \in Tasks : Poll(h, t)

Spec == Init /\ [][Next]_vars

(***************************************************************************)
(* Properties                                                              *)
(***************************************************************************)
try_id(h) == IF RUNNING_ID[h] = 0 THEN NONE ELSE RUNNING_ID[h]

\* RUNNING_ID is the id of the innermost task that the thread polls, whatever
\* was polled in between, and 0 outside.
RunningIsInnermost ==
  \A h \in Threads :
    RUNNING_ID[h] =
      IF polls[h] = <<>> THEN 0 ELSE id[polls[h][Len(polls[h])].task]

\* "None if no reside in managed async task", and only then: until the counter
\* comes to 0, no task is told that it is none.
NoneIsOutside ==
  wrapped \/ \A h \in Threads : try_id(h) = NONE <=> polls[h] = <<>>

\* "Unique among running tasks", and among those with a handle: two can share
\* an id only if the counter has gone all around while the older one existed.
UniqueUntilWrap ==
  \A t, u \in {v \in Tasks : task[v] # "none" /\ since[v] < Modulus} :
    id[t] = id[u] => t = u
=============================================================================
