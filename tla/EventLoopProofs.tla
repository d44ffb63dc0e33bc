---------------------------- MODULE EventLoopProofs ----------------------------
(***************************************************************************)
(* Proofs about EventLoop, for every set of threads and functors and every *)
(* width of the eventfd counter: type correctness, no lost wakeup, no lost *)
(* quit, exactly-once in-order execution, and the step simulation of       *)
(* TaskQueue; and about the thread around it (EventLoopThread): the        *)
(* address that startLoop returns is a live loop's, and inside the thread  *)
(* the loop keeps its promises; and about TimerManager, for any            *)
(* connections, timeouts and period: one timer for each connection, none   *)
(* of which closes early or is left overdue.                               *)
(***************************************************************************)
EXTENDS EventLoopThread, TimerManager, SequenceTheorems, TLAPS

(* callingPendingFunctors_ is what doPendingFunctors says of the thread.   *)
CallingMatches == calling <=> lpc \in {"swap", "run", "task"}

(* Channels are active, and functors taken, only while they are handled.   *)
ActiveWhenHandled == active # {} => lpc \in {"handle", "callback"}
BatchWhenRun == batch # <<>> => lpc \in {"run", "task"}

(* A counter that is not zero is on the ready list, unless its channel has *)
(* been reported and not yet handled: what makes a saturated eventfd, on   *)
(* which wakeup() raises no edge, harmless.                                *)
EdgeKept == evfd > 0 => ready \/ "wakeup" \in active

(* What the two wakeup properties need to be inductive, and themselves. *)
SignalInv ==
  /\ CallingMatches /\ ActiveWhenHandled /\ EdgeKept
  /\ NoLostWakeup /\ NoLostQuit

OrderInv == BatchWhenRun /\ ExactlyOnceInOrder

-----------------------------------------------------------------------------

(* The type invariant is inductive by itself. *)
LEMMA TypeInitial == Init => TypeOK
  <1> SUFFICES ASSUME Init PROVE TypeOK
    OBVIOUS
  <1>1. evfd \in 0..EventfdMax
    BY EventfdMaxAssumption DEF Init, EventfdMaxAssumption
  <1>2. <<>> \in Seq(Tasks)
    OBVIOUS
  <1>3. quit \in BOOLEAN /\ calling \in BOOLEAN /\ ready \in BOOLEAN /\ io \in BOOLEAN
    BY Zenon DEF Init
  <1> QED
    BY <1>1, <1>2, <1>3 DEF Init, TypeOK, LoopPC, ThreadPC

(* wakeup() keeps the counter within its width. *)
LEMMA WakeupType ==
  ASSUME evfd \in 0..EventfdMax, ready \in BOOLEAN, Wakeup
  PROVE  evfd' \in 0..EventfdMax /\ ready' \in BOOLEAN
  <1>1. evfd' \in 0..EventfdMax
    BY EventfdMaxAssumption DEF EventfdMaxAssumption, Wakeup, sync
  <1>2. ready' \in BOOLEAN
    BY Zenon DEF Wakeup, sync
  <1> QED
    BY <1>1, <1>2

LEMMA TypeStep == TypeOK /\ [Next]_vars => TypeOK'
  <1> SUFFICES ASSUME TypeOK, [Next]_vars PROVE TypeOK'
    OBVIOUS
  <1> USE EventfdMaxAssumption DEF EventfdMaxAssumption, TypeOK, LoopPC, ThreadPC, sync, hist
  <1>1. ASSUME NEW t \in Threads, NEW f \in Tasks, Enqueue(t, f) PROVE TypeOK'
    BY <1>1 DEF Enqueue, Push
  <1>2. ASSUME NEW t \in Threads, Quit(t) PROVE TypeOK'
    BY <1>2 DEF Quit
  <1>3. ASSUME NEW t \in Threads, FinishCall(t) PROVE TypeOK'
    BY <1>3, WakeupType DEF FinishCall
  <1>4. CASE StartLoop  BY <1>4 DEF StartLoop
  <1>5. CASE LoopHead  BY <1>5 DEF LoopHead
  <1>6. CASE Poll  BY <1>6 DEF Poll
  <1>7. CASE HandleRead  BY <1>7 DEF HandleRead
  <1>8. CASE HandleIo  BY <1>8 DEF HandleIo
  <1>9. CASE CallbackDone  BY <1>9 DEF CallbackDone
  <1>10. CASE HandleDone  BY <1>10 DEF HandleDone
  <1>11. CASE Swap  BY <1>11 DEF Swap
  <1>12. CASE RunTask  BY <1>12, HeadTailProperties DEF RunTask
  <1>13. CASE TaskDone  BY <1>13 DEF TaskDone
  <1>14. CASE RunDone  BY <1>14 DEF RunDone
  <1>15. CASE HandleExpired  BY <1>15 DEF HandleExpired
  <1>16. CASE LoopQuit  BY <1>16 DEF LoopQuit
  <1>17. ASSUME NEW f \in Tasks, LoopEnqueue(f) PROVE TypeOK'
    <2>1. evfd' \in 0..EventfdMax /\ ready' \in BOOLEAN
      BY <1>17, WakeupType DEF LoopEnqueue
    <2> QED
      BY <1>17, <2>1 DEF LoopEnqueue, Push
  <1>18. CASE IoEvent  BY <1>18 DEF IoEvent
  <1>19. CASE UNCHANGED vars  BY <1>19 DEF vars
  <1> QED
    BY <1>1, <1>2, <1>3, <1>4, <1>5, <1>6, <1>7, <1>8, <1>9, <1>10, <1>11,
       <1>12, <1>13, <1>14, <1>15, <1>16, <1>17, <1>18, <1>19
    DEF Next, LoopNext, LoopStep, ThreadNext

(* Every variable keeps to its type (all of EventLoop). *)
THEOREM TypeCorrect == Spec => []TypeOK
  BY TypeInitial, TypeStep, PTL DEF Spec

-----------------------------------------------------------------------------
(* Wakeups.                                                                *)

LEMMA SignalInitial == Init => SignalInv
  <1> SUFFICES ASSUME Init PROVE SignalInv
    OBVIOUS
  <1>1. ~(lpc \in {"swap", "run", "task"})
    BY DEF Init
  <1>2. CallingMatches
    BY <1>1, Zenon DEF Init, CallingMatches
  <1> QED
    BY <1>2 DEF Init, SignalInv, ActiveWhenHandled, EdgeKept, NoLostWakeup,
                NoLostQuit

(* After wakeup() the eventfd is signalled: either it raised an edge, or   *)
(* the counter was full and, by EdgeKept, still on the ready list.         *)
LEMMA WakeupSignals ==
  ASSUME TypeOK, EdgeKept, Wakeup, active' = active
  PROVE  EdgeKept' /\ evfd' > 0 /\ ("wakeup" \notin active => ready')
  <1>1. CASE evfd < EventfdMax
    BY <1>1 DEF Wakeup, EdgeKept, TypeOK
  <1>2. CASE ~(evfd < EventfdMax)
    BY <1>2, EventfdMaxAssumption
    DEF EventfdMaxAssumption, Wakeup, EdgeKept, TypeOK, sync
  <1> QED
    BY <1>1, <1>2

LEMMA SignalStep == TypeOK /\ SignalInv /\ [Next]_vars => SignalInv'
  <1> SUFFICES ASSUME TypeOK, SignalInv, [Next]_vars PROVE SignalInv'
    OBVIOUS
  <1> USE DEF SignalInv, CallingMatches, ActiveWhenHandled, EdgeKept,
              NoLostWakeup, NoLostQuit, Signalled, sync, hist
  <1>1. ASSUME NEW t \in Threads, NEW f \in Tasks, Enqueue(t, f)
        PROVE SignalInv'
    BY <1>1 DEF Enqueue, Push, TypeOK
  <1>2. ASSUME NEW t \in Threads, Quit(t) PROVE SignalInv'
    BY <1>2 DEF Quit, TypeOK
  <1>3. ASSUME NEW t \in Threads, FinishCall(t) PROVE SignalInv'
    <2>1. EdgeKept' /\ evfd' > 0 /\ ("wakeup" \notin active => ready')
      BY <1>3, WakeupSignals DEF FinishCall
    <2> QED
      BY <1>3, <2>1 DEF FinishCall
  <1>4. CASE StartLoop  BY <1>4 DEF StartLoop
  <1>5. CASE LoopHead  BY <1>5 DEF LoopHead
  <1>6. CASE Poll  BY <1>6 DEF Poll
  <1>7. CASE HandleRead  BY <1>7 DEF HandleRead
  <1>8. CASE HandleIo  BY <1>8 DEF HandleIo
  <1>9. CASE CallbackDone  BY <1>9 DEF CallbackDone
  <1>10. CASE HandleDone  BY <1>10 DEF HandleDone
  <1>11. CASE Swap  BY <1>11 DEF Swap
  <1>12. CASE RunTask  BY <1>12 DEF RunTask
  <1>13. CASE TaskDone  BY <1>13 DEF TaskDone
  <1>14. CASE RunDone
    <2>1. ~(lpc' \in {"swap", "run", "task"})
      BY <1>14 DEF RunDone
    <2>2. CallingMatches'
      BY <1>14, <2>1, Zenon DEF RunDone
    <2> QED
      BY <1>14, <2>2 DEF RunDone
  <1>15. CASE HandleExpired  BY <1>15 DEF HandleExpired
  <1>16. CASE LoopQuit  BY <1>16 DEF LoopQuit
  <1>17. ASSUME NEW f \in Tasks, LoopEnqueue(f) PROVE SignalInv'
    <2>1. CASE lpc = "callback"
      BY <1>17, <2>1 DEF LoopEnqueue, Push
    <2>2. CASE lpc = "task"
      <3>1. Wakeup /\ active' = active
        BY <1>17, <2>2 DEF LoopEnqueue
      <3>2. EdgeKept' /\ evfd' > 0 /\ ("wakeup" \notin active => ready')
        BY <3>1, WakeupSignals
      <3> QED
        BY <1>17, <2>2, <3>2 DEF LoopEnqueue
    <2> QED
      BY <1>17, <2>1, <2>2 DEF LoopEnqueue
  <1>18. CASE IoEvent  BY <1>18 DEF IoEvent
  <1>19. CASE UNCHANGED vars  BY <1>19 DEF vars
  <1> QED
    BY <1>1, <1>2, <1>3, <1>4, <1>5, <1>6, <1>7, <1>8, <1>9, <1>10, <1>11,
       <1>12, <1>13, <1>14, <1>15, <1>16, <1>17, <1>18, <1>19
    DEF Next, LoopNext, LoopStep, ThreadNext

(* No functor waits for an unrelated event (eventloop.cc:79-117). *)
THEOREM WakeupsNotLost == Spec => []NoLostWakeup
  <1>1. SignalInv => NoLostWakeup
    BY DEF SignalInv
  <1> QED
    BY <1>1, TypeCorrect, SignalInitial, SignalStep, PTL DEF Spec

(* A quit() that the loop has not overwritten gets it out of epoll_wait    *)
(* (eventloop.cc:66-69).                                                   *)
THEOREM QuitsNotLost == Spec => []NoLostQuit
  <1>1. SignalInv => NoLostQuit
    BY DEF SignalInv
  <1> QED
    BY <1>1, TypeCorrect, SignalInitial, SignalStep, PTL DEF Spec

-----------------------------------------------------------------------------
(* Order.                                                                  *)

LEMMA OrderInitial == Init => OrderInv
  BY DEF Init, OrderInv, BatchWhenRun, ExactlyOnceInOrder

LEMMA PushKeepsOrder ==
  ASSUME TypeOK, ExactlyOnceInOrder, NEW f \in Tasks, Push(f), batch' = batch
  PROVE  ExactlyOnceInOrder'
  <1>1. pending' = pending \o <<f>> /\ queued' = queued \o <<f>> /\ ran' = ran
    BY AppendIsConcat DEF TypeOK, Push
  <1>2. ((ran \o batch) \o pending) \o <<f>> = (ran \o batch) \o (pending \o <<f>>)
    <2>1. ran \o batch \in Seq(Tasks) /\ <<f>> \in Seq(Tasks)
      BY ConcatProperties DEF TypeOK
    <2> QED
      BY SMTT(30), <2>1, ConcatAssociative DEF TypeOK
  <1> QED
    BY <1>1, <1>2 DEF ExactlyOnceInOrder

LEMMA OrderStep == TypeOK /\ OrderInv /\ [Next]_vars => OrderInv'
  <1> SUFFICES ASSUME TypeOK, OrderInv, [Next]_vars PROVE OrderInv'
    OBVIOUS
  <1> USE DEF OrderInv, BatchWhenRun, hist
  <1>1. ASSUME NEW t \in Threads, NEW f \in Tasks, Enqueue(t, f) PROVE OrderInv'
    BY <1>1, PushKeepsOrder DEF Enqueue
  <1>2. ASSUME NEW f \in Tasks, LoopEnqueue(f) PROVE OrderInv'
    BY <1>2, PushKeepsOrder DEF LoopEnqueue
  <1>3. CASE Swap
    <2>1. batch = <<>> /\ batch' = pending /\ pending' = <<>>
      BY <1>3 DEF Swap
    <2>2. ran \o <<>> = ran /\ (ran \o pending) \o <<>> = ran \o pending
      BY ConcatProperties, ConcatEmptySeq DEF TypeOK
    <2> QED
      BY <1>3, <2>1, <2>2 DEF Swap, ExactlyOnceInOrder
  <1>4. CASE RunTask
    <2>1. /\ batch = <<Head(batch)>> \o Tail(batch)
          /\ Head(batch) \in Tasks /\ Tail(batch) \in Seq(Tasks)
      BY <1>4, HeadTailProperties DEF RunTask, TypeOK
    <2>2. ran' = ran \o <<Head(batch)>>
      BY <1>4, <2>1, AppendIsConcat DEF RunTask, TypeOK
    <2>3. ran \o (<<Head(batch)>> \o Tail(batch)) = (ran \o <<Head(batch)>>) \o Tail(batch)
      BY SMTT(30), <2>1, ConcatAssociative DEF TypeOK
    <2> QED
      BY <1>4, <2>1, <2>2, <2>3 DEF RunTask, ExactlyOnceInOrder
  <1>5. CASE RunDone
    BY <1>5 DEF RunDone, ExactlyOnceInOrder
  <1>6. ASSUME UNCHANGED <<pending, batch, hist>>,
               lpc \notin {"run", "task"} \/ lpc' \in {"run", "task"}
        PROVE  OrderInv'
    BY <1>6 DEF ExactlyOnceInOrder
  <1>7. ASSUME NEW t \in Threads, Quit(t) \/ FinishCall(t) PROVE OrderInv'
    BY <1>6, <1>7 DEF Quit, FinishCall
  <1>8. CASE LoopQuit \/ IoEvent \/ StartLoop
    BY <1>6, <1>8 DEF LoopQuit, IoEvent, StartLoop
  <1>9. CASE \/ LoopHead \/ Poll \/ HandleRead \/ HandleIo \/ CallbackDone
             \/ HandleDone \/ TaskDone \/ HandleExpired
    BY <1>6, <1>9 DEF LoopHead, Poll, HandleRead, HandleIo, CallbackDone,
                      HandleDone, TaskDone, HandleExpired
  <1>10. CASE UNCHANGED vars
    BY <1>6, <1>10 DEF vars
  <1> QED
    BY <1>1, <1>2, <1>3, <1>4, <1>5, <1>7, <1>8, <1>9, <1>10
    DEF Next, LoopNext, LoopStep, ThreadNext

(* Functors are neither lost, duplicated nor reordered                     *)
(* (eventloop.cc:79-117).                                                  *)
THEOREM ExactlyOnce == Spec => []ExactlyOnceInOrder
  <1>1. OrderInv => ExactlyOnceInOrder
    BY DEF OrderInv
  <1> QED
    BY <1>1, TypeCorrect, OrderInitial, OrderStep, PTL DEF Spec

-----------------------------------------------------------------------------
(* Refinement.                                                             *)

(* A step of the loop is a submission, an execution or a stutter. *)
LEMMA AbstractStep ==
  TypeOK /\ ExactlyOnceInOrder /\ [Next]_vars => [Abstract!Next]_(Abstract!vars)
  <1> SUFFICES ASSUME TypeOK, ExactlyOnceInOrder, [Next]_vars
               PROVE  [Abstract!Next]_(Abstract!vars)
    OBVIOUS
  <1> USE DEF Abstract!vars
  <1>1. ASSUME NEW f \in Tasks, Push(f) PROVE Abstract!Next
    BY <1>1 DEF Push, Abstract!Next, Abstract!Submit
  <1>2. CASE RunTask
    <2>1. Len(ran) < Len(queued) /\ queued[Len(ran) + 1] = Head(batch)
      <3>1. batch # <<>> /\ Len(batch) > 0 /\ Head(batch) = batch[1]
        BY <1>2 DEF RunTask, TypeOK
      <3>2. ran \o batch \in Seq(Tasks) /\ Len(ran \o batch) = Len(ran) + Len(batch)
        BY ConcatProperties DEF TypeOK
      <3>3. /\ Len(queued) = Len(ran) + Len(batch) + Len(pending)
            /\ queued[Len(ran) + 1] = (ran \o batch)[Len(ran) + 1]
        BY <3>1, <3>2, ConcatProperties DEF TypeOK, ExactlyOnceInOrder
      <3>4. (ran \o batch)[Len(ran) + 1] = batch[1]
        BY <3>1, ConcatProperties DEF TypeOK
      <3> QED
        BY <3>1, <3>3, <3>4 DEF TypeOK
    <2> QED
      BY <1>2, <2>1 DEF RunTask, Abstract!Next, Abstract!Execute
  <1>3. CASE UNCHANGED hist
    BY <1>3 DEF hist
  <1>4. ASSUME NEW t \in Threads, ThreadNext(t)
        PROVE  UNCHANGED hist \/ \E f \in Tasks : Push(f)
    BY <1>4 DEF ThreadNext, Quit, FinishCall, Enqueue
  <1>5. CASE LoopNext \/ IoEvent
    BY <1>1, <1>2, <1>3, <1>5
    DEF LoopNext, LoopStep, IoEvent, StartLoop, LoopHead, Poll, HandleRead,
        HandleIo, CallbackDone, HandleDone, Swap, TaskDone, RunDone,
        HandleExpired, LoopQuit, LoopEnqueue
  <1>6. CASE UNCHANGED vars
    BY <1>3, <1>6 DEF vars, hist
  <1> QED
    BY <1>1, <1>3, <1>4, <1>5, <1>6 DEF Next

(* The loop implements the abstract task queue (eventloop.cc:48-117). *)
THEOREM RefinesTaskQueue == Spec => ImplementsTaskQueue
  <1>1. Init => Abstract!Init
    BY DEF Init, Abstract!Init
  <1> QED
    BY <1>1, TypeCorrect, ExactlyOnce, AbstractStep, PTL
    DEF Spec, ImplementsTaskQueue, Abstract!Spec

-----------------------------------------------------------------------------
(* The thread around the loop (EventLoopThread).                           *)

(* The order in which the thread's function publishes and clears loop_,    *)
(* and in which the owner comes to have it.                                *)
PublishedWhileLooping ==
  /\ thread \in {"none", "create", "loop", "cleared", "gone"}
  /\ published <=> thread = "loop"
  /\ thread = "none" <=> owner = "none"
  /\ owner \notin {"none", "check", "blocked"} => thread \notin {"none", "create"}
  /\ owner = "terminated" => thread # "loop"

(* The thread leaves loop() only when somebody has quit it, and quit_ is   *)
(* not cleared again: only loop()'s first statements do that.              *)
ExitMeansQuit ==
  /\ lpc = "exit" => quit
  /\ thread \in {"cleared", "gone"} => lpc = "exit"

LifeInv == PublishedWhileLooping /\ ExitMeansQuit

LEMMA LifeInitial == LifeInit => LifeInv
BY DEF LifeInit, Init, LifeInv, PublishedWhileLooping, ExitMeansQuit

(* What any step of the loop's thread does to quit_: it leaves the loop    *)
(* only on a quit_ that is set, and clears it only on entering.            *)
LEMMA LoopStepQuits ==
  ASSUME lpc = "exit" => quit, LoopNext \/ IoEvent
  PROVE  lpc' = "exit" => quit'
<1>1. CASE StartLoop  BY <1>1 DEF StartLoop
<1>2. CASE LoopHead  BY <1>2 DEF LoopHead
<1>3. CASE LoopStep /\ ~LoopHead
  BY <1>3 DEF LoopStep, Poll, HandleRead, HandleIo,
     CallbackDone, HandleDone, Swap, RunTask,
     TaskDone, RunDone, HandleExpired
<1>4. CASE LoopQuit  BY <1>4 DEF LoopQuit
<1>5. CASE \E f \in Tasks : LoopEnqueue(f)  BY <1>5 DEF LoopEnqueue
<1>6. CASE IoEvent  BY <1>6 DEF IoEvent
<1> QED  BY <1>1, <1>2, <1>3, <1>4, <1>5, <1>6 DEF LoopNext, LoopStep

(* A call from another thread can only set quit_.                          *)
LEMMA CallQuits ==
  ASSUME NEW t, Quit(t) \/ FinishCall(t)
                \/ \E f \in Tasks : Enqueue(t, f)
  PROVE  lpc' = lpc /\ (quit' \/ quit' = quit)
BY DEF Quit, FinishCall, Enqueue

LEMMA LifeStep == LifeInv /\ [LifeNext]_lifeVars => LifeInv'
<1> SUFFICES ASSUME LifeInv, [LifeNext]_lifeVars  PROVE LifeInv'
  OBVIOUS
<1> USE DEF LifeInv, PublishedWhileLooping, ExitMeansQuit
<1>1. CASE StartThread  BY <1>1 DEF StartThread, vars
<1>2. CASE CheckPublished  BY <1>2 DEF CheckPublished, vars
<1>3. CASE DestroyQuit  BY <1>3, CallQuits DEF DestroyQuit
<1>4. CASE DestroyWake  BY <1>4, CallQuits DEF DestroyWake
<1>5. CASE TouchGone  BY <1>5 DEF TouchGone
<1>6. CASE Join  BY <1>6 DEF Join, vars
<1>7. CASE Destroy  BY <1>7 DEF Destroy, vars
<1>8. CASE Publish  BY <1>8 DEF Publish, vars
<1>9. CASE Looping  BY <1>9, LoopStepQuits DEF Looping
<1>10. CASE Clear  BY <1>10 DEF Clear, vars
<1>11. CASE Return  BY <1>11 DEF Return, vars
<1>12. ASSUME NEW t \in Threads, Use(t)  PROVE LifeInv'
  BY <1>12, CallQuits DEF Use
<1>13. ASSUME NEW t \in Threads, FinishUse(t)  PROVE LifeInv'
  BY <1>13, CallQuits DEF FinishUse
<1>14. CASE UNCHANGED lifeVars  BY <1>14 DEF lifeVars, vars
<1> QED
  BY <1>1, <1>2, <1>3, <1>4, <1>5, <1>6, <1>7, <1>8, <1>9, <1>10, <1>11,
     <1>12, <1>13, <1>14 DEF LifeNext, OwnerStep

(* AliveUntilQuit: startLoop returns the address of a loop that exists,    *)
(* and it stays one, with a thread to join, until somebody calls quit()    *)
(* (eventloop_thread.cc:7-11, 21, 31-33).                                  *)
THEOREM LoopAliveUntilQuit == LifeSpec => []AliveUntilQuit
<1>1. LifeInv => AliveUntilQuit
  BY DEF LifeInv, PublishedWhileLooping, ExitMeansQuit, AliveUntilQuit
<1> QED  BY <1>1, LifeInitial, LifeStep, PTL DEF LifeSpec

-----------------------------------------------------------------------------
(* The reactor inside its thread.                                          *)

ReactorInv == LifeInv /\ TypeOK /\ OrderInv /\ (thread # "gone" => SignalInv)

(* What the composition does to a loop that exists is what EventLoop says  *)
(* may be done to it.                                                      *)
LEMMA LifeStepOfLoop ==
  [LifeNext]_lifeVars => [Next]_vars \/ (TouchGone /\ thread = "gone")
<1> SUFFICES ASSUME [LifeNext]_lifeVars, ~TouchGone  PROVE [Next]_vars
  BY DEF TouchGone
<1>1. \/ LoopNext \/ IoEvent \/ UNCHANGED vars
      \/ \E t \in Threads : Quit(t) \/ FinishCall(t) \/ \E f \in Tasks : Enqueue(t, f)
  BY OwnerAssumption
  DEF OwnerAssumption, LifeNext, lifeVars, OwnerStep, StartThread, CheckPublished,
      DestroyQuit, DestroyWake, Join, Destroy, Publish, Looping, Clear, Return, Use,
      FinishUse
<1> QED  BY <1>1 DEF Next, ThreadNext

(* Inside its thread the reactor keeps its promises, too: functors are run *)
(* once and in order, and wakeups and quits are not lost while the loop    *)
(* exists (eventloop_thread.cc:24-33, eventloop.cc:48-117).                *)
THEOREM ReactorInThread ==
  LifeSpec => [](ExactlyOnceInOrder /\ (thread # "gone" => NoLostWakeup /\ NoLostQuit))
<1>1. LifeInit => ReactorInv
  BY LifeInitial, TypeInitial, OrderInitial, SignalInitial DEF LifeInit, ReactorInv
<1>2. ReactorInv /\ [LifeNext]_lifeVars => ReactorInv'
  <2> SUFFICES ASSUME ReactorInv, [LifeNext]_lifeVars  PROVE ReactorInv'
    OBVIOUS
  <2>1. LifeInv'
    BY LifeStep DEF ReactorInv
  <2>2. thread = "gone" => thread' = "gone"
    BY DEF ReactorInv, LifeInv, PublishedWhileLooping, LifeNext, lifeVars, OwnerStep,
       StartThread, CheckPublished, DestroyQuit, DestroyWake, TouchGone, Join, Destroy,
       Publish, Looping, Clear, Return, Use, FinishUse
  <2>3. CASE [Next]_vars
    BY <2>1, <2>2, <2>3, TypeStep, OrderStep, SignalStep DEF ReactorInv
  <2>4. CASE TouchGone /\ thread = "gone"
    <3>1. TypeOK'
      BY <2>4 DEF ReactorInv, TouchGone, TypeOK, ThreadPC
    <3>2. OrderInv'
      BY <2>4 DEF ReactorInv, TouchGone, OrderInv, BatchWhenRun, ExactlyOnceInOrder
    <3> QED  BY <2>1, <2>2, <2>4, <3>1, <3>2 DEF ReactorInv
  <2> QED  BY <2>3, <2>4, LifeStepOfLoop
<1>3. ReactorInv => ExactlyOnceInOrder /\ (thread # "gone" => NoLostWakeup /\ NoLostQuit)
  BY DEF ReactorInv, OrderInv, SignalInv
<1> QED  BY <1>1, <1>2, <1>3, PTL DEF LifeSpec

-----------------------------------------------------------------------------
(* The timers.                                                             *)

(* A connection's link leads to a timer of the heap that is its own: the   *)
(* converse of OneTimer.                                                   *)
LinkBack ==
  \A c \in Conns : link[c] # None => link[c] \in heap /\ httpdata[link[c]] = c

(* No timer was set in a period still to come. *)
BornBefore == \A t \in Timers : born[t] <= era

TimerInv == TimerTypeOK /\ OneTimer /\ LinkBack /\ BornBefore

-----------------------------------------------------------------------------

LEMMA TimerInitial == TimerInit => TimerInv
  <1> SUFFICES ASSUME TimerInit PROVE TimerInv
    OBVIOUS
  <1>1. TimerTypeOK
    BY TimeAssumption DEF TimeAssumption, TimerInit, TimerTypeOK
  <1>2. OneTimer /\ LinkBack
    BY DEF TimerInit, OneTimer, LinkBack
  <1>3. BornBefore
    BY DEF TimerInit, BornBefore
  <1> QED
    BY <1>1, <1>2, <1>3 DEF TimerInv

LEMMA TimerTypeStep == TimerTypeOK /\ [TimerNext]_timerVars => TimerTypeOK'
  <1> SUFFICES ASSUME TimerTypeOK, [TimerNext]_timerVars PROVE TimerTypeOK'
    OBVIOUS
  <1> USE TimeAssumption DEF TimeAssumption, TimerTypeOK, timers, clock
  <1>1. CASE Tick
    BY <1>1 DEF Tick
  <1>2. ASSUME NEW c \in Conns, NEW d \in Timeouts, NEW o \in [Timers -> Conns \cup {None}],
               AddTimer(c, d, o)
        PROVE  /\ heap' \subseteq Timers /\ deadline' \in [Timers -> Nat]
               /\ httpdata' \in [Timers -> Conns \cup {None}]
               /\ link' \in [Conns -> Timers \cup {None}]
               /\ born' \in [Timers -> 0..MaxEra]
    BY <1>2 DEF AddTimer
  <1>3. \A c \in Conns : Separated(c) \in [Timers -> Conns \cup {None}]
    BY DEF Separated
  <1>4. ASSUME NEW c \in Conns, NEW d \in Timeouts, Open(c, d) PROVE TimerTypeOK'
    BY <1>4, <1>2 DEF Open
  <1>5. ASSUME NEW c \in Conns, NEW d \in Timeouts, Refresh(c, d) PROVE TimerTypeOK'
    BY <1>5, <1>2, <1>3 DEF Refresh
  <1>6. ASSUME NEW c \in Conns, Separate(c) PROVE TimerTypeOK'
    BY <1>6, <1>3 DEF Separate
  <1>7. ASSUME NEW c \in Conns, Close(c) PROVE TimerTypeOK'
    BY <1>7, <1>3 DEF Close
  <1>8. CASE StartSweep
    BY <1>8 DEF StartSweep
  <1>9. ASSUME NEW t \in Timers, SweepPop(t) PROVE TimerTypeOK'
    BY <1>9 DEF SweepPop
  <1>10. CASE SweepStop
    BY <1>10 DEF SweepStop
  <1>11. CASE UNCHANGED timerVars
    BY <1>11 DEF timerVars
  <1> QED
    BY <1>1, <1>4, <1>5, <1>6, <1>7, <1>8, <1>9, <1>10, <1>11 DEF TimerNext, Sweeping

(* Owners and links stay inverse to each other: Refresh and Close separate *)
(* the old timer before the link is overwritten, and a connection that is  *)
(* opened has none.                                                        *)
LEMMA TimerLinkStep == TimerInv /\ [TimerNext]_timerVars => OneTimer' /\ LinkBack'
  <1> SUFFICES ASSUME TimerInv, [TimerNext]_timerVars PROVE OneTimer' /\ LinkBack'
    OBVIOUS
  <1> USE NoneAssumption DEF NoneAssumption, TimerInv, TimerTypeOK, OneTimer, LinkBack, timers, clock
  <1>1. CASE Tick
    BY <1>1 DEF Tick
  <1>2. ASSUME NEW c \in Conns, NEW d \in Timeouts, Open(c, d)
        PROVE  OneTimer' /\ LinkBack'
    <2>1. link[c] = None
      BY <1>2 DEF Open
    <2>2. PICK t \in Timers \ heap :
            /\ heap' = heap \cup {t}
            /\ httpdata' = [httpdata EXCEPT ![t] = c]
            /\ link' = [link EXCEPT ![c] = t]
            /\ open' = open \cup {c}
      BY <1>2 DEF Open, AddTimer
    <2> QED
      BY <2>1, <2>2
  <1>3. ASSUME NEW c \in Conns, NEW d \in Timeouts, Refresh(c, d)
        PROVE  OneTimer' /\ LinkBack'
    <2>1. PICK t \in Timers \ heap :
            /\ heap' = heap \cup {t}
            /\ httpdata' = [Separated(c) EXCEPT ![t] = c]
            /\ link' = [link EXCEPT ![c] = t]
            /\ open' = open /\ c \in open
      BY <1>3 DEF Refresh, AddTimer
    <2>2. httpdata' = [u \in Timers |-> IF u = t THEN c
                                     ELSE IF u = link[c] THEN None ELSE httpdata[u]]
      BY <2>1 DEF Separated
    <2> QED
      BY <2>1, <2>2
  <1>4. ASSUME NEW c \in Conns, Separate(c) PROVE OneTimer' /\ LinkBack'
    BY <1>4 DEF Separate, Separated
  <1>5. ASSUME NEW c \in Conns, Close(c) PROVE OneTimer' /\ LinkBack'
    BY <1>5 DEF Close, Separated
  <1>6. CASE StartSweep
    BY <1>6 DEF StartSweep
  <1>7. ASSUME NEW t \in Timers, SweepPop(t) PROVE OneTimer' /\ LinkBack'
    BY <1>7 DEF SweepPop, Top
  <1>8. CASE SweepStop
    BY <1>8 DEF SweepStop
  <1>9. CASE UNCHANGED timerVars
    BY <1>9 DEF timerVars
  <1> QED
    BY <1>1, <1>2, <1>3, <1>4, <1>5, <1>6, <1>7, <1>8, <1>9 DEF TimerNext, Sweeping

LEMMA TimerBornStep == TimerTypeOK /\ BornBefore /\ [TimerNext]_timerVars => BornBefore'
  <1> SUFFICES ASSUME TimerTypeOK, BornBefore, [TimerNext]_timerVars PROVE BornBefore'
    OBVIOUS
  <1> USE DEF TimerTypeOK, BornBefore, timers, clock
  <1>1. CASE Tick
    BY <1>1, TimeAssumption DEF Tick, TimeAssumption
  <1>2. ASSUME NEW c \in Conns, NEW d \in Timeouts, Open(c, d) \/ Refresh(c, d)
        PROVE  BornBefore'
    BY <1>2 DEF Open, Refresh, AddTimer
  <1>3. ASSUME NEW c \in Conns, Separate(c) \/ Close(c) PROVE BornBefore'
    BY <1>3 DEF Separate, Close
  <1>4. ASSUME NEW t \in Timers, SweepPop(t) PROVE BornBefore'
    BY <1>4 DEF SweepPop
  <1>5. CASE StartSweep \/ SweepStop
    BY <1>5 DEF StartSweep, SweepStop
  <1>6. CASE UNCHANGED timerVars
    BY <1>6 DEF timerVars
  <1> QED
    BY <1>1, <1>2, <1>3, <1>4, <1>5, <1>6 DEF TimerNext, Sweeping

LEMMA TimerInvHolds == TimerSpec => []TimerInv
  <1>1. TimerInv /\ [TimerNext]_timerVars => TimerInv'
    BY TimerTypeStep, TimerLinkStep, TimerBornStep DEF TimerInv
  <1> QED
    BY TimerInitial, <1>1, PTL DEF TimerSpec

-----------------------------------------------------------------------------

(* A time of a later period is later by a whole period at least. *)
LEMMA PeriodsOrdered ==
  ASSUME NEW w \in Nat, NEW m \in Nat, NEW n \in Nat, m <= n
  PROVE  m * w <= n * w
  <1>1. PICK e \in Nat : n = m + e
    <2>1. n - m \in Nat /\ n = m + (n - m)
      OBVIOUS
    <2> QED
      BY <2>1
  <1>2. n * w = m * w + e * w
    BY <1>1
  <1>3. e * w \in Nat /\ m * w \in Nat
    OBVIOUS
  <1> QED
    BY <1>2, <1>3

(* Every variable of the timers keeps to its type. *)
THEOREM TimersTypeCorrect == TimerSpec => []TimerTypeOK
  <1>1. TimerInv => TimerTypeOK
    BY DEF TimerInv
  <1> QED
    BY TimerInvHolds, <1>1, PTL

(* A timer that still has a connection is the one that connection is       *)
(* linked to (httpdata.cc:74-80, timer.cc:43-53).                          *)
THEOREM OnlyOneTimer == TimerSpec => []OneTimer
  <1>1. TimerInv => OneTimer
    BY DEF TimerInv
  <1> QED
    BY TimerInvHolds, <1>1, PTL

(* No connection is closed before it has been idle for its timeout         *)
(* (timer.cc:10-11, 31-41): the timer that closes it is the one it was     *)
(* last given, and was set in this period of the clock or an earlier one.  *)
THEOREM NeverClosedEarly == TimerSpec => NeverEarly
  <1>1. ASSUME TimerInv, NEW c \in Conns, NEW t \in Timers, SweepPop(t), httpdata[t] = c
        PROVE  Now >= Due(link[c])
    <2>1. link[c] = t /\ t \in Timers
      BY <1>1, NoneAssumption DEF NoneAssumption, TimerInv, OneTimer
    <2>2. tick >= deadline[t]
      BY <1>1, NoneAssumption DEF NoneAssumption, SweepPop, Expired
    <2>3. born[t] * Wrap <= era * Wrap
      BY <1>1, TimeAssumption, PeriodsOrdered DEF TimeAssumption, TimerInv, TimerTypeOK, BornBefore
    <2>4. /\ born[t] * Wrap \in Int /\ era * Wrap \in Int
          /\ tick \in Int /\ deadline[t] \in Int
      BY <1>1, TimeAssumption DEF TimeAssumption, TimerInv, TimerTypeOK
    <2>5. era * Wrap + tick >= born[t] * Wrap + deadline[t]
      BY <2>2, <2>3, <2>4
    <2> QED
      BY <2>1, <2>5 DEF Now, Due
  <1>2. TimerInv => [\A c \in Conns, t \in Timers :
                  SweepPop(t) /\ httpdata[t] = c => Now >= Due(link[c])]_timerVars
    BY <1>1
  <1> QED
    BY TimerInvHolds, <1>2, PTL DEF NeverEarly

(* A sweep leaves only connections whose time is not up or whose timer was *)
(* set in an earlier period (timer.cc:31-41, 55-64): the timer on top of   *)
(* the heap is valid, and no other of the heap has an earlier expiry time. *)
THEOREM NoneLeftOverdue == TimerSpec => NoneOverdue
  <1>1. ASSUME TimerInv, SweepStop, NEW c \in open, link[c] # None, Now >= Due(link[c]),
               born[link[c]] = era
        PROVE  FALSE
    <2>1. c \in Conns /\ link[c] \in heap /\ link[c] \in Timers
      BY <1>1 DEF TimerInv, TimerTypeOK, LinkBack
    <2>2. PICK t \in Timers : Top(t) /\ ~Expired(t)
      BY <1>1, <2>1 DEF SweepStop
    <2>3. tick < deadline[t] /\ deadline[t] <= deadline[link[c]]
      BY <1>1, <2>1, <2>2 DEF Top, Expired, TimerInv, TimerTypeOK
    <2>4. /\ era * Wrap \in Int /\ tick \in Int
          /\ deadline[t] \in Int /\ deadline[link[c]] \in Int
      BY <1>1, <2>1, TimeAssumption DEF TimeAssumption, TimerInv, TimerTypeOK
    <2>5. era * Wrap + tick >= era * Wrap + deadline[link[c]]
      BY <1>1 DEF Now, Due
    <2> QED
      BY <2>3, <2>4, <2>5
  <1>2. TimerInv => [SweepStop =>
                  \A c \in open : link[c] # None /\ Now >= Due(link[c])
                                  => born[link[c]] # era]_timerVars
    BY <1>1
  <1> QED
    BY TimerInvHolds, <1>2, PTL DEF NoneOverdue

=============================================================================
