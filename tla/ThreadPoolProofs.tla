-------------------------- MODULE ThreadPoolProofs --------------------------
(***************************************************************************)
(* Proofs about ThreadPool, for any workers, clients and tasks.            *)
(***************************************************************************)
EXTENDS ThreadPool, TLAPS

WorkerPC == {"test", "lock", "blocking", "waiting", "run", "exit", "terminated"}

(* The types of what the two properties depend on. *)
Shape ==
  /\ tasks \in Seq(Tasks) /\ pushed \in Seq(Tasks) /\ started \in Seq(Tasks)
  /\ worker \in [Workers -> WorkerPC]
  /\ call \in [Callers -> {"idle", "push", "notify"}]
  /\ arg \in [Callers -> Tasks \cup {None}]
  /\ \A a \in Callers : call[a] = "push" => arg[a] \in Tasks

(* While a worker is about to wait it holds mtx_, and the queue stays as   *)
(* empty as it found it: what makes WorkNoticed inductive.                 *)
EmptyWhenBlocking == ~MutexFree => tasks = <<>>

IInv == Shape /\ EmptyWhenBlocking /\ TakenInOrder /\ WorkNoticed

LEMMA NotifiedShape ==
  ASSUME Shape, worker' \in Notified
  PROVE  /\ worker' \in [Workers -> WorkerPC]
         /\ \E w \in Workers : worker'[w] # "waiting"
         /\ MutexFree => MutexFree'
         /\ ~MutexFree => ~MutexFree'
<1> DEFINE waiting == {w \in Workers : worker[w] = "waiting"}
<1>1. CASE waiting = {}
  <2>1. worker' = worker  BY <1>1 DEF Notified
  <2> QED  BY <1>1, <2>1, ThreadsAssumption DEF Shape, MutexFree
<1>2. CASE waiting # {}
  <2>1. PICK w \in Workers : worker[w] = "waiting" /\ worker' = [worker EXCEPT ![w] = "lock"]
    BY <1>2 DEF Notified
  <2>2. worker' \in [Workers -> WorkerPC]  BY <2>1 DEF Shape, WorkerPC
  <2>3. worker'[w] = "lock"  BY <2>1 DEF Shape
  <2>4. ~MutexFree => ~MutexFree'
    BY <2>1, <2>2 DEF MutexFree, Range, Shape
  <2>5. MutexFree => MutexFree'
    BY <2>1, <2>2 DEF MutexFree, Range, Shape
  <2> QED  BY <2>2, <2>3, <2>4, <2>5
<1> QED  BY <1>1, <1>2

LEMMA AppendOrder ==
  ASSUME NEW s \in Seq(Tasks), NEW t \in Seq(Tasks), NEW f \in Tasks
  PROVE  Append(s \o t, f) = s \o Append(t, f)
OBVIOUS

LEMMA TakeOrder ==
  ASSUME NEW s \in Seq(Tasks), NEW t \in Seq(Tasks), t # <<>>
  PROVE  /\ Append(s, Head(t)) \o Tail(t) = s \o t
         /\ Head(t) \in Tasks /\ Tail(t) \in Seq(Tasks)
         /\ Append(s, Head(t)) \in Seq(Tasks)
OBVIOUS

LEMMA InitialInv == Init => IInv
BY DEF Init, IInv, Shape, WorkerPC, EmptyWhenBlocking, TakenInOrder, WorkNoticed, Callers

-----------------------------------------------------------------------------
(* The callers of commit.                                                  *)

LEMMA CommitInv ==
  ASSUME IInv, NEW a \in Callers, NEW f \in Tasks, Commit(a, f)
  PROVE  IInv'
<1>1. UNCHANGED <<tasks, pushed, started, worker>>  BY DEF Commit
<1>2. /\ call \in [Callers -> {"idle", "push", "notify"}]
      /\ call' = [call EXCEPT ![a] = "push"] /\ call[a] = "idle"
      /\ arg' = [arg EXCEPT ![a] = f]
  BY DEF Commit, CanCall, InCall, IInv, Shape
<1>3. Shape'  BY <1>1, <1>2 DEF IInv, Shape
<1>4. WorkNoticed'
  BY <1>1, <1>2 DEF IInv, WorkNoticed
<1> QED  BY <1>1, <1>3, <1>4 DEF IInv, EmptyWhenBlocking, MutexFree, TakenInOrder

LEMMA PushInv ==
  ASSUME IInv, NEW a \in Callers, Push(a)
  PROVE  IInv'
<1>1. /\ call[a] = "push" /\ MutexFree /\ arg[a] \in Tasks
      /\ tasks' = Append(tasks, arg[a]) /\ pushed' = Append(pushed, arg[a])
      /\ call' = [call EXCEPT ![a] = "notify"]
      /\ UNCHANGED <<worker, arg, started>>
  BY DEF Push, InCall, IInv, Shape
<1>2. Shape'  BY <1>1 DEF IInv, Shape
<1>3. EmptyWhenBlocking'  BY <1>1 DEF EmptyWhenBlocking, MutexFree
<1>4. TakenInOrder'  BY <1>1, AppendOrder DEF IInv, Shape, TakenInOrder
<1>5. WorkNoticed'  BY <1>1 DEF IInv, Shape, WorkNoticed
<1> QED  BY <1>2, <1>3, <1>4, <1>5 DEF IInv

LEMMA NotifyInv ==
  ASSUME IInv, NEW a \in Callers, NotifyOne(a)
  PROVE  IInv'
<1>1. /\ UNCHANGED <<tasks, pushed, started>>
      /\ call' = [call EXCEPT ![a] = "idle"] /\ arg' = [arg EXCEPT ![a] = None]
      /\ worker' \in Notified
  BY DEF NotifyOne
<1>2. /\ worker' \in [Workers -> WorkerPC]
      /\ \E w \in Workers : worker'[w] # "waiting"
      /\ MutexFree => MutexFree'
  BY <1>1, NotifiedShape DEF IInv
<1>3. Shape'  BY <1>1, <1>2 DEF IInv, Shape
<1> QED  BY <1>1, <1>2, <1>3 DEF IInv, EmptyWhenBlocking, TakenInOrder, WorkNoticed

LEMMA CommitTaskInv ==
  ASSUME IInv, NEW a \in Callers, NEW f \in Tasks, CommitTask(a, f)
  PROVE  IInv'
<1>1. /\ UNCHANGED <<started, call, arg>> /\ MutexFree
      /\ tasks' = Append(tasks, f) /\ pushed' = Append(pushed, f)
      /\ worker' \in Notified
  BY DEF CommitTask
<1>2. /\ worker' \in [Workers -> WorkerPC]
      /\ \E w \in Workers : worker'[w] # "waiting"
      /\ MutexFree'
  BY <1>1, NotifiedShape DEF IInv
<1>3. Shape'  BY <1>1, <1>2 DEF IInv, Shape
<1>4. TakenInOrder'  BY <1>1, AppendOrder DEF IInv, Shape, TakenInOrder
<1> QED  BY <1>2, <1>3, <1>4 DEF IInv, EmptyWhenBlocking, WorkNoticed

-----------------------------------------------------------------------------
(* The workers.                                                            *)

LEMMA TakeInv ==
  ASSUME IInv, NEW w \in Workers, Take(w)
  PROVE  IInv'
<1>1. /\ tasks # <<>> /\ MutexFree
      /\ started' = Append(started, Head(tasks)) /\ tasks' = Tail(tasks)
      /\ worker' = [worker EXCEPT ![w] = "run"]
      /\ UNCHANGED <<call, arg, pushed>>
  BY DEF Take
<1>2. /\ started' \o tasks' = started \o tasks
      /\ tasks' \in Seq(Tasks) /\ started' \in Seq(Tasks)
  BY <1>1, TakeOrder DEF IInv, Shape
<1>3. worker' \in [Workers -> WorkerPC] /\ worker'[w] = "run"
  BY <1>1 DEF IInv, Shape, WorkerPC
<1>4. Shape'  BY <1>1, <1>2, <1>3 DEF IInv, Shape
<1>5. MutexFree'  BY <1>1, <1>3 DEF IInv, Shape, MutexFree, Range
<1>6. WorkNoticed'  BY <1>3 DEF WorkNoticed
<1> QED  BY <1>1, <1>2, <1>4, <1>5, <1>6 DEF IInv, EmptyWhenBlocking, TakenInOrder

(* A worker that takes nothing waits only in Block, while the queue is     *)
(* empty.                                                                  *)
LEMMA WorkerMovesInv ==
  ASSUME IInv, NEW w \in Workers,
         UNCHANGED <<tasks, call, arg, pushed, started>>,
         NEW where \in WorkerPC, worker' = [worker EXCEPT ![w] = where],
         where \in {"blocking", "waiting"} => tasks = <<>>
  PROVE  IInv'
<1>1. worker' \in [Workers -> WorkerPC] /\ worker'[w] = where
  BY DEF IInv, Shape
<1>2. Shape'  BY <1>1 DEF IInv, Shape
<1>3. EmptyWhenBlocking'
  <2> SUFFICES ASSUME ~MutexFree' PROVE tasks = <<>>  BY DEF EmptyWhenBlocking
  <2>1. CASE where = "blocking"  BY <2>1
  <2>2. CASE where # "blocking"
    <3>1. ~MutexFree
      BY <1>1, <2>2 DEF IInv, Shape, MutexFree, Range
    <3> QED  BY <3>1 DEF IInv, EmptyWhenBlocking
  <2> QED  BY <2>1, <2>2
<1>4. WorkNoticed'
  <2>1. CASE where = "waiting"  BY <2>1 DEF WorkNoticed
  <2>2. CASE where # "waiting"  BY <1>1, <2>2 DEF WorkNoticed
  <2> QED  BY <2>1, <2>2
<1> QED  BY <1>2, <1>3, <1>4 DEF IInv, TakenInOrder

LEMMA WorkerInv ==
  ASSUME IInv, NEW w \in Workers, WorkerStep(w) \/ CommitThrows(w) \/ Spurious(w)
  PROVE  IInv'
<1>1. CASE Take(w)  BY <1>1, TakeInv
<1>2. CASE Test(w)
  <2> DEFINE where == IF stoped THEN "exit" ELSE "lock"
  <2>1. /\ worker' = [worker EXCEPT ![w] = where] /\ where \in WorkerPC
        /\ where \notin {"blocking", "waiting"}
        /\ UNCHANGED <<tasks, call, arg, pushed, started>>
    BY <1>2 DEF Test, WorkerPC
  <2> HIDE DEF where
  <2> QED  BY <2>1, WorkerMovesInv
<1>3. CASE Leave(w)
  <2>1. "exit" \in WorkerPC /\ worker' = [worker EXCEPT ![w] = "exit"]
    BY <1>3 DEF Leave, WorkerPC
  <2> QED  BY <1>3, <2>1, WorkerMovesInv DEF Leave
<1>4. CASE WaitFor(w)
  <2>1. "blocking" \in WorkerPC /\ worker' = [worker EXCEPT ![w] = "blocking"]
    BY <1>4 DEF WaitFor, WorkerPC
  <2> QED  BY <1>4, <2>1, WorkerMovesInv DEF WaitFor
<1>5. CASE Block(w)
  <2>1. "waiting" \in WorkerPC /\ worker' = [worker EXCEPT ![w] = "waiting"]
    BY <1>5 DEF Block, WorkerPC
  <2>2. tasks = <<>>
    BY <1>5 DEF Block, At, IInv, Shape, EmptyWhenBlocking, MutexFree, Range
  <2> QED  BY <1>5, <2>1, <2>2, WorkerMovesInv DEF Block
<1>6. CASE Finish(w)
  <2>1. "test" \in WorkerPC /\ worker' = [worker EXCEPT ![w] = "test"]
    BY <1>6 DEF Finish, WorkerPC
  <2> QED  BY <1>6, <2>1, WorkerMovesInv DEF Finish
<1>7. CASE Spurious(w)
  <2>1. "lock" \in WorkerPC /\ worker' = [worker EXCEPT ![w] = "lock"]
    BY <1>7 DEF Spurious, WorkerPC
  <2> QED  BY <1>7, <2>1, WorkerMovesInv DEF Spurious
<1>8. CASE CommitThrows(w)
  <2> DEFINE where == IF job[w] \in packaged THEN "test" ELSE "terminated"
  <2>1. /\ worker' = [worker EXCEPT ![w] = where] /\ where \in WorkerPC
        /\ where \notin {"blocking", "waiting"}
        /\ UNCHANGED <<tasks, call, arg, pushed, started>>
    BY <1>8 DEF CommitThrows, WorkerPC
  <2> HIDE DEF where
  <2> QED  BY <2>1, WorkerMovesInv
<1> QED  BY <1>1, <1>2, <1>3, <1>4, <1>5, <1>6, <1>7, <1>8 DEF WorkerStep

-----------------------------------------------------------------------------
(* The destructor.                                                         *)

LEMMA NotifyAllInv ==
  ASSUME IInv, NotifyAll
  PROVE  IInv'
<1>1. /\ UNCHANGED <<tasks, pushed, started, call, arg>>
      /\ worker' = [w \in Workers |-> IF worker[w] = "waiting" THEN "lock" ELSE worker[w]]
  BY DEF NotifyAll
<1>2. worker' \in [Workers -> WorkerPC]  BY <1>1 DEF IInv, Shape, WorkerPC
<1>3. \E w \in Workers : worker'[w] # "waiting"  BY <1>1, ThreadsAssumption
<1>4. MutexFree => MutexFree'  BY <1>1, <1>2 DEF IInv, Shape, MutexFree, Range
<1>5. Shape'  BY <1>1, <1>2 DEF IInv, Shape
<1> QED  BY <1>1, <1>3, <1>4, <1>5 DEF IInv, EmptyWhenBlocking, TakenInOrder, WorkNoticed

LEMMA UnchangedInv ==
  ASSUME IInv, UNCHANGED <<tasks, worker, call, arg, pushed, started>>
  PROVE  IInv'
BY DEF IInv, Shape, EmptyWhenBlocking, MutexFree, TakenInOrder, WorkNoticed

LEMMA NextInv ==
  ASSUME IInv, [Next]_vars
  PROVE  IInv'
<1>1. CASE \E a \in Callers, f \in Tasks : Commit(a, f) \/ CommitTask(a, f)
  BY <1>1, CommitInv, CommitTaskInv
<1>2. CASE \E a \in Callers : CallStep(a)
  BY <1>2, PushInv, NotifyInv DEF CallStep
<1>3. CASE \E w \in Workers : WorkerStep(w) \/ CommitThrows(w) \/ Spurious(w)
  BY <1>3, WorkerInv
<1>4. CASE NotifyAll  BY <1>4, NotifyAllInv
<1>5. CASE Stop \/ Join \/ UNCHANGED vars
  <2>1. UNCHANGED <<tasks, worker, call, arg, pushed, started>>
    BY <1>5 DEF Stop, Join, vars
  <2> QED  BY <2>1, UnchangedInv
<1> QED  BY <1>1, <1>2, <1>3, <1>4, <1>5 DEF Next

LEMMA Invariance == Spec => []IInv
<1>1. Init => IInv  BY InitialInv
<1>2. IInv /\ [Next]_vars => IInv'  BY NextInv
<1> QED  BY <1>1, <1>2, PTL DEF Spec

(* Every task that was queued has been taken or is in the queue, once and  *)
(* in the order of the calls, for any number of workers that take them     *)
(* (threadpool.h:38-42, 75, 89).                                           *)
THEOREM TasksTakenInOrder == Spec => []TakenInOrder
<1>1. IInv => TakenInOrder  BY DEF IInv
<1> QED  BY <1>1, Invariance, PTL

(* A queue with a task in it has a commit that will notify or a worker     *)
(* that does not wait (threadpool.h:34-42, 74-77, 88-90).                  *)
THEOREM WorkAlwaysNoticed == Spec => []WorkNoticed
<1>1. IInv => WorkNoticed  BY DEF IInv
<1> QED  BY <1>1, Invariance, PTL
=============================================================================
