----------------------------- MODULE ThreadPool -----------------------------
(***************************************************************************)
(* The task pool (glacier/base/threadpool.h): workers take tasks from a    *)
(* queue under mtx_ and run them without it; commit appends a task and     *)
(* notifies one worker; the destructor sets stoped_, notifies all and      *)
(* joins.                                                                  *)
(*                                                                         *)
(* A critical section of mtx_ is one action, with one exception: between   *)
(* the predicate of condition_.wait, found false, and the moment at which  *)
(* the worker is registered as waiting it holds mtx_ ("blocking"), which   *)
(* keeps committers out but not the destructor, who never takes mtx_.      *)
(***************************************************************************)
EXTENDS Naturals, Sequences, Functions

CONSTANTS Workers,   \* the threads of the pool
          Clients,   \* the other threads that commit tasks
          Tasks,     \* bound: each is committed once at most
          None

ASSUME ThreadsAssumption == Workers \cap Clients = {} /\ Workers # {}
ASSUME NoneAssumption == None \notin Tasks

VARIABLES
  stoped,    \* stoped_
  tasks,     \* tasks_
  worker,    \* where each worker is in its loop
  job,       \* the task each worker runs
  call,      \* where each thread is in commit
  arg,       \* the task it is committing
  packaged,  \* the tasks committed as packaged_task
  pushed,    \* history: the tasks in the order in which they were queued
  started,   \* history: the tasks in the order in which they were taken
  owner      \* where the owner is in the destructor

vars == <<stoped, tasks, worker, job, call, arg, packaged, pushed, started, owner>>

Callers == Workers \cup Clients

Init ==
  /\ stoped = FALSE /\ tasks = <<>> /\ packaged = {}
  /\ pushed = <<>> /\ started = <<>>
  /\ worker = [w \in Workers |-> "test"] /\ job = [w \in Workers |-> None]
  /\ call = [a \in Callers |-> "idle"] /\ arg = [a \in Callers |-> None]
  /\ owner = "none"

(* An exception that leaves a thread's function ends the program. *)
Alive == "terminated" \notin Range(worker)

At(w, where) == Alive /\ worker[w] = where
InCall(a, where) == Alive /\ call[a] = where
Owner(where) == Alive /\ owner = where

MutexFree == "blocking" \notin Range(worker)

(* What condition_.notify_one() may make of the workers *)
Notified ==
  LET waiting == {w \in Workers : worker[w] = "waiting"} IN
  IF waiting = {} THEN {worker}
  ELSE {[worker EXCEPT ![w] = "lock"] : w \in waiting}

-----------------------------------------------------------------------------
(* commit, called by a client while the owner keeps the pool, or by the    *)
(* task that a worker runs                                                 *)

CanCall(a) ==
  /\ InCall(a, "idle")
  /\ IF a \in Workers THEN worker[a] = "run" ELSE owner = "none"

Fresh == Tasks \ (Range(pushed) \cup Range(arg))

(* The template: stoped_ is read before the mutex is taken. *)
Commit(a, f) ==
  /\ CanCall(a) /\ f \in Fresh /\ ~stoped
  /\ call' = [call EXCEPT ![a] = "push"]
  /\ arg' = [arg EXCEPT ![a] = f]
  /\ packaged' = packaged \cup {f}
  /\ UNCHANGED <<stoped, tasks, worker, job, pushed, started, owner>>

(* On a pool that is being destroyed it throws: the packaged task that     *)
(* called it keeps the exception for its future, any other task dies of it.*)
CommitThrows(w) ==
  /\ CanCall(w) /\ Fresh # {} /\ stoped
  /\ worker' = [worker EXCEPT ![w] =
                  IF job[w] \in packaged THEN "test" ELSE "terminated"]
  /\ job' = [job EXCEPT ![w] = None]
  /\ UNCHANGED <<stoped, tasks, call, arg, packaged, pushed, started, owner>>

Push(a) ==
  /\ InCall(a, "push") /\ MutexFree
  /\ tasks' = Append(tasks, arg[a])
  /\ pushed' = Append(pushed, arg[a])
  /\ call' = [call EXCEPT ![a] = "notify"]
  /\ UNCHANGED <<stoped, worker, job, arg, packaged, started, owner>>

(* Mutant of NotifyOne: the notification is left out. *)
NotifyNone(a) ==
  /\ InCall(a, "notify")
  /\ call' = [call EXCEPT ![a] = "idle"]
  /\ arg' = [arg EXCEPT ![a] = None]
  /\ UNCHANGED <<stoped, tasks, worker, job, packaged, pushed, started, owner>>

(* After the critical section. *)
NotifyOne(a) ==
  /\ InCall(a, "notify")
  /\ worker' \in Notified
  /\ call' = [call EXCEPT ![a] = "idle"]
  /\ arg' = [arg EXCEPT ![a] = None]
  /\ UNCHANGED <<stoped, tasks, job, packaged, pushed, started, owner>>

(* The overload for a std::function, with threads_ not empty: stoped_ is   *)
(* not read, and the notification is inside the critical section.          *)
CommitTask(a, f) ==
  /\ CanCall(a) /\ f \in Fresh /\ MutexFree
  /\ tasks' = Append(tasks, f)
  /\ pushed' = Append(pushed, f)
  /\ worker' \in Notified
  /\ UNCHANGED <<stoped, job, call, arg, packaged, started, owner>>

-----------------------------------------------------------------------------
(* The loop of a worker                                                    *)

(* while (!stoped_) *)
Test(w) ==
  /\ At(w, "test")
  /\ worker' = [worker EXCEPT ![w] = IF stoped THEN "exit" ELSE "lock"]
  /\ UNCHANGED <<stoped, tasks, job, call, arg, packaged, pushed, started, owner>>

(* Mutant of Take: the front task is not popped. *)
TakeNoPop(w) ==
  /\ At(w, "lock") /\ MutexFree /\ tasks # <<>>
  /\ job' = [job EXCEPT ![w] = Head(tasks)]
  /\ started' = Append(started, Head(tasks))
  /\ worker' = [worker EXCEPT ![w] = "run"]
  /\ UNCHANGED <<stoped, tasks, call, arg, packaged, pushed, owner>>

(* The predicate of wait holds because of a task, taken even if the pool   *)
(* has stopped in the meantime.                                            *)
Take(w) ==
  /\ At(w, "lock") /\ MutexFree /\ tasks # <<>>
  /\ job' = [job EXCEPT ![w] = Head(tasks)]
  /\ tasks' = Tail(tasks)
  /\ started' = Append(started, Head(tasks))
  /\ worker' = [worker EXCEPT ![w] = "run"]
  /\ UNCHANGED <<stoped, call, arg, packaged, pushed, owner>>

(* It holds because the pool has stopped. *)
Leave(w) ==
  /\ At(w, "lock") /\ MutexFree /\ tasks = <<>> /\ stoped
  /\ worker' = [worker EXCEPT ![w] = "exit"]
  /\ UNCHANGED <<stoped, tasks, job, call, arg, packaged, pushed, started, owner>>

(* It is false: the worker goes on holding mtx_ ... *)
WaitFor(w) ==
  /\ At(w, "lock") /\ MutexFree /\ tasks = <<>> /\ ~stoped
  /\ worker' = [worker EXCEPT ![w] = "blocking"]
  /\ UNCHANGED <<stoped, tasks, job, call, arg, packaged, pushed, started, owner>>

(* ... until it waits, releasing the mutex in the same instant. *)
Block(w) ==
  /\ At(w, "blocking")
  /\ worker' = [worker EXCEPT ![w] = "waiting"]
  /\ UNCHANGED <<stoped, tasks, job, call, arg, packaged, pushed, started, owner>>

Spurious(w) ==
  /\ At(w, "waiting")
  /\ worker' = [worker EXCEPT ![w] = "lock"]
  /\ UNCHANGED <<stoped, tasks, job, call, arg, packaged, pushed, started, owner>>

(* task() has returned. *)
Finish(w) ==
  /\ At(w, "run") /\ call[w] = "idle"
  /\ worker' = [worker EXCEPT ![w] = "test"]
  /\ job' = [job EXCEPT ![w] = None]
  /\ UNCHANGED <<stoped, tasks, call, arg, packaged, pushed, started, owner>>

-----------------------------------------------------------------------------
(* The destructor, called when no client is in commit any more             *)

Stop ==
  /\ Owner("none") /\ \A a \in Clients : call[a] = "idle"
  /\ stoped' = TRUE
  /\ owner' = "notify"
  /\ UNCHANGED <<tasks, worker, job, call, arg, packaged, pushed, started>>

(* Mutant of NotifyAll: one worker is woken instead of all. *)
NotifyOnlyOne ==
  /\ Owner("notify")
  /\ worker' \in Notified
  /\ owner' = "join"
  /\ UNCHANGED <<stoped, tasks, job, call, arg, packaged, pushed, started>>

NotifyAll ==
  /\ Owner("notify")
  /\ worker' = [w \in Workers |->
                  IF worker[w] = "waiting" THEN "lock" ELSE worker[w]]
  /\ owner' = "join"
  /\ UNCHANGED <<stoped, tasks, job, call, arg, packaged, pushed, started>>

Join ==
  /\ Owner("join") /\ \A w \in Workers : worker[w] = "exit"
  /\ owner' = "joined"
  /\ UNCHANGED <<stoped, tasks, worker, job, call, arg, packaged, pushed, started>>

-----------------------------------------------------------------------------

WorkerStep(w) ==
  Test(w) \/ Take(w) \/ Leave(w) \/ WaitFor(w) \/ Block(w) \/ Finish(w)

CallStep(a) == Push(a) \/ NotifyOne(a)

Next ==
  \/ \E a \in Callers, f \in Tasks : Commit(a, f) \/ CommitTask(a, f)
  \/ \E a \in Callers : CallStep(a)
  \/ \E w \in Workers : WorkerStep(w) \/ CommitThrows(w) \/ Spurious(w)
  \/ Stop \/ NotifyAll \/ Join

Spec == Init /\ [][Next]_vars

(* Every thread inside commit, the worker loop or the destructor is        *)
(* scheduled, a lock that is free again and again is obtained, and tasks   *)
(* return; a wait need not end by itself.                                  *)
FairSpec ==
  /\ Spec
  /\ \A w \in Workers : SF_vars(WorkerStep(w))
  /\ \A a \in Callers : SF_vars(CallStep(a))
  /\ WF_vars(NotifyAll) /\ WF_vars(Join)

-----------------------------------------------------------------------------
(* Properties.                                                             *)

(* A task is taken once at most, in the order of the queue, whoever takes  *)
(* it, and is in the queue until then (threadpool.h:38-42, 75, 89).        *)
TakenInOrder == pushed = started \o tasks

(* No notification is wasted while a task waits: either a commit has still *)
(* to notify, or some worker is awake and will look at the queue before it *)
(* waits (threadpool.h:34-42, 74-77, 88-90).                               *)
WorkNoticed ==
  tasks # <<>> =>
    \/ \E a \in Callers : call[a] = "notify"
    \/ \E w \in Workers : worker[w] # "waiting"

(* A queued task is taken unless the pool is stopped, even while all the   *)
(* workers are busy with others (threadpool.h:28-46).                      *)
EveryTaskRuns ==
  \A f \in Tasks : f \in Range(tasks) ~> f \notin Range(tasks) \/ stoped

(* Once stoped_ is set, the notification of the destructor is enough for a *)
(* worker that already waits, and a worker that has not tested stoped_ yet *)
(* needs none: join returns, unless the program is terminated              *)
(* (threadpool.h:29, 34-40, 53-58).                                        *)
JoinReturns ==
  owner = "notify" /\ MutexFree ~> owner = "joined" \/ ~Alive

=============================================================================
