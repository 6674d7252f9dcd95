---------------------------- MODULE LevelPermits ----------------------------
(***************************************************************************)
(* The permits of one workflow level.  Workflow._execute_level gathers one *)
(* process_node task per active node; each task holds its weight in        *)
(* permits of one asyncio.Semaphore(max_parallel) while its node executes. *)
(* WeightedSemaphore takes the permits one at a time, so a task of weight  *)
(* 2 may sleep in the middle, holding one.                                 *)
(*                                                                         *)
(* The event loop is cooperative: an action is the code between two        *)
(* suspension points.  gather() puts the tasks on the FIFO ready queue in  *)
(* order, so all of them take their first step before any woken waiter     *)
(* runs again.                                                             *)
(***************************************************************************)
EXTENDS Integers, Sequences, FiniteSets

CONSTANTS
  NumTasks,     \* number of active nodes of the level
  Heavy,        \* the tasks whose node is an LLMOperatorConfig
  MaxParallel   \* Workflow.max_parallel

Tasks == 1 .. NumTasks

ASSUME LevelAssumption ==
  /\ NumTasks \in Nat
  /\ Heavy \subseteq Tasks
  /\ MaxParallel \in Nat \ {0}

(* estimate_complexity: an LLM node weighs 2, any other node 1. *)
Weight(t) == IF t \in Heavy THEN 2 ELSE 1

VARIABLES
  sem,   \* the Semaphore: _value, the tasks whose futures stand in _waiters,
         \* and how many of these futures, from the front, are done
  got,   \* permits a task's acquire loop has obtained
  pc     \* new, waiting (in acquire), running (in execute_node), left

vars == <<sem, got, pc>>

TypeOK ==
  /\ sem \in [value : Nat, waiters : Seq(Tasks), done : Nat]
  /\ got \in [Tasks -> 0 .. 2]
  /\ pc \in [Tasks -> {"new", "waiting", "running", "left"}]

Init ==
  /\ sem = [value |-> MaxParallel, waiters |-> <<>>, done |-> 0]
  /\ got = [t \in Tasks |-> 0]
  /\ pc = [t \in Tasks |-> "new"]

-----------------------------------------------------------------------------
(* asyncio.Semaphore *)

(* locked(): no permit is free, or some future is still queued. *)
Locked(s) == s.value = 0 \/ s.waiters # <<>>

(* acquire() that must wait: a new future at the end of _waiters. *)
Enqueue(s, t) == Append(s.waiters, t)

(* _wake_up_next(): hand a permit to the first waiter not done yet. *)
WakeNext(s) ==
  IF s.done = Len(s.waiters)
  THEN s
  ELSE [value |-> s.value - 1, waiters |-> s.waiters, done |-> s.done + 1]

ReleaseOne(s) == WakeNext([s EXCEPT !.value = @ + 1])

(* The tail of acquire() in a woken task: leave the queue, then pass on    *)
(* the permits that arrived while its future was being delivered.          *)
AfterWake(s) ==
  LET dequeued ==
        [value |-> s.value, waiters |-> Tail(s.waiters), done |-> s.done - 1]
  IN  IF dequeued.value > 0 THEN WakeNext(dequeued) ELSE dequeued

-----------------------------------------------------------------------------
(* WeightedSemaphore *)

(* Mutants: a count that is off by one, either way, and one release        *)
(* whatever the weight.                                                    *)
ReleaseAllTooFew(t) == IF Weight(t) = 2 THEN ReleaseOne(sem) ELSE sem
ReleaseAllOnce(t) == ReleaseOne(sem)
ReleaseAllTwice(t) == ReleaseOne(ReleaseOne(sem))

(* __aexit__: one release per permit, with no suspension in between. *)
ReleaseAll(t) ==
  IF Weight(t) = 2 THEN ReleaseOne(ReleaseOne(sem)) ELSE ReleaseOne(sem)

(* __aenter__ from its (have + 1)-th acquire on, the semaphore being s:    *)
(* take what is free without suspending, then either enter the body or     *)
(* queue for the next permit keeping the ones already held.                *)
AcquireFrom(t, have, s) ==
  LET missing == Weight(t) - have
      now == IF Locked(s) THEN 0 ELSE IF s.value < missing THEN s.value ELSE missing
  IN  /\ got' = [got EXCEPT ![t] = have + now]
      /\ \/ /\ now = missing
            /\ sem' = [s EXCEPT !.value = @ - now]
            /\ pc' = [pc EXCEPT ![t] = "running"]
         \/ /\ now < missing
            /\ sem' = [value   |-> s.value - now,
                       waiters |-> Enqueue(s, t),
                       done    |-> s.done]
            /\ pc' = [pc EXCEPT ![t] = "waiting"]

-----------------------------------------------------------------------------
(* process_node *)

AllStarted == \A t \in Tasks : pc[t] # "new"

(* The first step of a task, in gather order. *)
Start(t) ==
  /\ pc[t] = "new"
  /\ \A u \in Tasks : u < t => pc[u] # "new"
  /\ AcquireFrom(t, 0, sem)

(* A task whose future was completed runs again, in the order of wake-ups. *)
Resume(t) ==
  /\ AllStarted
  /\ sem.done > 0
  /\ t = Head(sem.waiters)
  /\ AcquireFrom(t, got[t] + 1, AfterWake(sem))

(* execute_node returns or raises; either way __aexit__ gives the permits  *)
(* back.  A task that never suspended leaves before the next one starts.   *)
Leave(t) ==
  /\ pc[t] = "running"
  /\ AllStarted \/ \A u \in Tasks : u > t => pc[u] = "new"
  /\ sem' = ReleaseAll(t)
  /\ got' = [got EXCEPT ![t] = 0]
  /\ pc' = [pc EXCEPT ![t] = "left"]

(* gather() returns when every task is over. *)
Gathered ==
  /\ \A t \in Tasks : pc[t] = "left"
  /\ UNCHANGED vars

Next == Gathered \/ \E t \in Tasks : Start(t) \/ Resume(t) \/ Leave(t)

(* The event loop runs every ready callback, and node executors return. *)
Fairness == WF_vars(\E t \in Tasks : Start(t) \/ Resume(t) \/ Leave(t))

Spec == Init /\ [][Next]_vars

FairSpec == Spec /\ Fairness

-----------------------------------------------------------------------------
(* Properties *)

Running == {t \in Tasks : pc[t] = "running"}
Left == {t \in Tasks : pc[t] = "left"}

(* The permits tasks hold, when f counts them. *)
HeldIn(f) == {p \in Tasks \X {1, 2} : p[2] <= f[p[1]]}

Admission == INSTANCE WeightedAdmission WITH inside <- Running, finished <- Left

(* No permit is lost or minted: what is free, what is on its way to a      *)
(* woken task and what the tasks hold add up to max_parallel, although the *)
(* permits of one task are taken and returned in several calls.            *)
PermitsConserved ==
  sem.value + sem.done + Cardinality(HeldIn(got)) = MaxParallel

(* The sleeping tasks stand in the queue of the semaphore, each once. *)
QueueWellFormed ==
  /\ \A t \in Tasks :
       pc[t] = "waiting" <=> \E i \in DOMAIN sem.waiters : sem.waiters[i] = t
  /\ \A i, j \in DOMAIN sem.waiters : sem.waiters[i] = sem.waiters[j] => i = j
  /\ sem.done <= Len(sem.waiters)

(* What a task holds in each phase of process_node. *)
HoldsWhatItNeeds ==
  \A t \in Tasks : /\ pc[t] = "running" => got[t] = Weight(t)
                   /\ pc[t] = "waiting" => got[t] < Weight(t)
                   /\ pc[t] \in {"new", "left"} => got[t] = 0

(* A permit is never left lying while a task sleeps for it: if one is free *)
(* and someone queues, a woken task is still to come and passes it on.     *)
NoLostWakeup == sem.value > 0 /\ sem.waiters # <<>> => sem.done > 0

(* The inductive invariant of the proofs. *)
PermitInv ==
  /\ TypeOK
  /\ PermitsConserved
  /\ QueueWellFormed
  /\ HoldsWhatItNeeds
  /\ NoLostWakeup

(* max_parallel is respected: the nodes being executed together weigh no   *)
(* more than the permits of the level.                                     *)
RunningWithinLimit == Admission!Load(Running) <= MaxParallel

(* The level can always go on: while some task is not over, one has its    *)
(* first step to take, executes its node, or has been woken.  True only if *)
(* fewer than max_parallel LLM nodes share the level, since each of them   *)
(* can sleep holding one permit (NoPermitStall below says so).             *)
CanProceed ==
  (\E t \in Tasks : pc[t] # "left") =>
     \/ \E t \in Tasks : pc[t] \in {"new", "running"}
     \/ sem.done > 0

NoPermitStall == Cardinality(Heavy) < MaxParallel => CanProceed

(* Each task enters and leaves once, within the capacity. *)
ImplementsAdmission == Admission!Spec

(* Every level ends, so gather() returns and execute() goes on: what the   *)
(* comment "The context manager above always returns" of process_node      *)
(* (workflow.py:340) takes for granted.                                    *)
LevelTerminates == <>(\A t \in Tasks : pc[t] = "left")
=============================================================================
