------------------------------ MODULE EventLoop ------------------------------
(***************************************************************************)
(* One reactor: EventLoop with the part of Epoll and Channel its wakeup    *)
(* descriptor goes through (glacier/eventloop.{h,cc}, epoll.cc).           *)
(*                                                                         *)
(* The loop's own thread runs loop(): poll, the callbacks of the active    *)
(* channels, doPendingFunctors, handleExpired.  Other threads hand it      *)
(* functors with queueInLoop and stop it with quit.  The only thing that   *)
(* gets the thread out of epoll_wait for their sake is the eventfd, which  *)
(* is registered edge-triggered: an edge consumed too early, or a wakeup() *)
(* that is not called, leaves a functor waiting for an unrelated event.    *)
(*                                                                         *)
(* A step of another thread falls between any two steps of the loop; each  *)
(* critical section of mutex_ is one step.                                 *)
(***************************************************************************)
EXTENDS Naturals, Sequences

CONSTANTS Threads,    \* the threads other than the loop's own
          Tasks,      \* the functors, each queued at most once
          EventfdMax  \* the largest value of the eventfd counter (2^64 - 2)

ASSUME EventfdMaxAssumption == EventfdMax \in Nat \ {0}

VARIABLES
  lpc,      \* where the loop's thread is
  quit,     \* quit_
  calling,  \* callingPendingFunctors_
  pending,  \* pendingFunctors_, guarded by mutex_
  batch,    \* functors of doPendingFunctors not yet executed
  active,   \* active channels still to be handled: "wakeup", "io"
  evfd,     \* the counter of wakeupFd_
  ready,    \* wakeupFd_ is on the ready list of the epoll instance
  io,       \* some other channel of the loop has an event
  tpc,      \* where each other thread is in queueInLoop or quit
  queued,   \* history: every functor queued, in order
  ran       \* history: every functor whose execution began, in order

sync == <<evfd, ready>>
hist == <<queued, ran>>
vars == <<lpc, quit, calling, pending, batch, active, evfd, ready, io, tpc,
          queued, ran>>

LoopPC == {"init", "head", "poll", "handle", "callback", "swap", "run",
           "task", "expire", "exit"}
ThreadPC == {"idle", "wake", "quitwake"}

TypeOK ==
  /\ lpc \in LoopPC
  /\ quit \in BOOLEAN /\ calling \in BOOLEAN
  /\ pending \in Seq(Tasks) /\ batch \in Seq(Tasks)
  /\ active \subseteq {"wakeup", "io"}
  /\ evfd \in 0..EventfdMax /\ ready \in BOOLEAN /\ io \in BOOLEAN
  /\ tpc \in [Threads -> ThreadPC]
  /\ queued \in Seq(Tasks) /\ ran \in Seq(Tasks)

-----------------------------------------------------------------------------
(* The constructor: wakeupFd_ is created and registered before any other   *)
(* thread can hold a pointer to the loop.                                  *)
Init ==
  /\ lpc = "init" /\ quit = FALSE /\ calling = FALSE
  /\ pending = <<>> /\ batch = <<>> /\ active = {}
  /\ evfd = 0 /\ ready = FALSE /\ io = FALSE
  /\ tpc = [t \in Threads |-> "idle"]
  /\ queued = <<>> /\ ran = <<>>

(* wakeup(): a write that would overflow the counter fails with EAGAIN and *)
(* is only logged; one that succeeds raises an edge.                       *)
Wakeup ==
  IF evfd < EventfdMax
  THEN evfd' = evfd + 1 /\ ready' = TRUE
  ELSE UNCHANGED sync

(* The part of queueInLoop under mutex_. *)
Push(f) ==
  /\ \A i \in DOMAIN queued : queued[i] # f
  /\ pending' = Append(pending, f)
  /\ queued' = Append(queued, f)
  /\ UNCHANGED ran

-----------------------------------------------------------------------------
(* Other threads.                                                          *)

(* queueInLoop up to the end of its critical section; runInLoop comes here *)
(* too, a thread other than the loop's being never in the loop thread.     *)
Enqueue(t, f) ==
  /\ tpc[t] = "idle"
  /\ Push(f)
  /\ tpc' = [tpc EXCEPT ![t] = "wake"]
  /\ UNCHANGED <<lpc, quit, calling, batch, active, sync, io>>

(* Mutant of Quit: quit_ is set and the wakeup() forgotten. *)
QuitSilent(t) ==
  /\ tpc[t] = "idle"
  /\ quit' = TRUE
  /\ UNCHANGED <<lpc, calling, pending, batch, active, sync, io, tpc, hist>>

(* quit() up to its first statement. *)
Quit(t) ==
  /\ tpc[t] = "idle"
  /\ quit' = TRUE
  /\ tpc' = [tpc EXCEPT ![t] = "quitwake"]
  /\ UNCHANGED <<lpc, calling, pending, batch, active, sync, io, hist>>

(* Mutant of FinishCall: the caller returns without wakeup().              *)
FinishCallSilent(t) ==
  /\ tpc[t] # "idle"
  /\ tpc' = [tpc EXCEPT ![t] = "idle"]
  /\ UNCHANGED <<lpc, quit, calling, pending, batch, active, sync, io, hist>>

(* The wakeup() that ends queueInLoop and quit: the caller is not in the   *)
(* loop's thread.                                                          *)
FinishCall(t) ==
  /\ tpc[t] # "idle"
  /\ Wakeup
  /\ tpc' = [tpc EXCEPT ![t] = "idle"]
  /\ UNCHANGED <<lpc, quit, calling, pending, batch, active, io, hist>>

(* The network: a channel other than the wakeup channel gets an event. *)
IoEvent ==
  /\ ~io
  /\ io' = TRUE
  /\ UNCHANGED <<lpc, quit, calling, pending, batch, active, sync, tpc, hist>>

-----------------------------------------------------------------------------
(* The loop's own thread.                                                  *)

(* loop() up to its while: quit_ is cleared whatever it was. *)
StartLoop ==
  /\ lpc = "init"
  /\ quit' = FALSE
  /\ lpc' = "head"
  /\ UNCHANGED <<calling, pending, batch, active, sync, io, tpc, hist>>

(* while (!quit_) *)
LoopHead ==
  /\ lpc = "head"
  /\ lpc' = IF quit THEN "exit" ELSE "poll"
  /\ UNCHANGED <<quit, calling, pending, batch, active, sync, io, tpc, hist>>

(* Epoll::poll returns only with at least one active channel.  epoll_wait  *)
(* takes the eventfd off the ready list and reports it if it is readable.  *)
Poll ==
  LET fired == (IF ready /\ evfd > 0 THEN {"wakeup"} ELSE {})
               \cup (IF io THEN {"io"} ELSE {})
  IN  /\ lpc = "poll"
      /\ fired # {}
      /\ active' = fired
      /\ ready' = FALSE
      /\ io' = FALSE
      /\ lpc' = "handle"
      /\ UNCHANGED <<quit, calling, pending, batch, evfd, tpc, hist>>

(* handleEvents of the wakeup channel: handleRead empties the counter, and *)
(* handleConn finds the event mask unchanged, so it does not re-arm.       *)
HandleRead ==
  /\ lpc = "handle" /\ "wakeup" \in active
  /\ active' = active \ {"wakeup"}
  /\ evfd' = 0
  /\ UNCHANGED <<lpc, quit, calling, pending, batch, ready, io, tpc, hist>>

(* handleEvents of any other channel. *)
HandleIo ==
  /\ lpc = "handle" /\ "io" \in active
  /\ active' = active \ {"io"}
  /\ lpc' = "callback"
  /\ UNCHANGED <<quit, calling, pending, batch, sync, io, tpc, hist>>

CallbackDone ==
  /\ lpc = "callback"
  /\ lpc' = "handle"
  /\ UNCHANGED <<quit, calling, pending, batch, active, sync, io, tpc, hist>>

(* Mutant of HandleDone: callingPendingFunctors_ is never set. *)
HandleDoneUnmarked ==
  /\ lpc = "handle" /\ active = {}
  /\ lpc' = "swap"
  /\ UNCHANGED <<quit, calling, pending, batch, active, sync, io, tpc, hist>>

HandleDone ==
  /\ lpc = "handle" /\ active = {}
  /\ calling' = TRUE
  /\ lpc' = "swap"
  /\ UNCHANGED <<quit, pending, batch, active, sync, io, tpc, hist>>

(* functors.swap(pendingFunctors_) *)
Swap ==
  /\ lpc = "swap"
  /\ batch' = pending
  /\ pending' = <<>>
  /\ lpc' = "run"
  /\ UNCHANGED <<quit, calling, active, sync, io, tpc, hist>>

(* Mutant of RunTask: the batch is executed from its end. *)
RunTaskNewest ==
  /\ lpc = "run" /\ batch # <<>>
  /\ ran' = Append(ran, batch[Len(batch)])
  /\ batch' = SubSeq(batch, 1, Len(batch) - 1)
  /\ lpc' = "task"
  /\ UNCHANGED <<quit, calling, pending, active, sync, io, tpc, queued>>

(* functors[i]() begins *)
RunTask ==
  /\ lpc = "run" /\ batch # <<>>
  /\ ran' = Append(ran, Head(batch))
  /\ batch' = Tail(batch)
  /\ lpc' = "task"
  /\ UNCHANGED <<quit, calling, pending, active, sync, io, tpc, queued>>

TaskDone ==
  /\ lpc = "task"
  /\ lpc' = "run"
  /\ UNCHANGED <<quit, calling, pending, batch, active, sync, io, tpc, hist>>

RunDone ==
  /\ lpc = "run" /\ batch = <<>>
  /\ calling' = FALSE
  /\ lpc' = "expire"
  /\ UNCHANGED <<quit, pending, batch, active, sync, io, tpc, hist>>

(* poller_->handleExpired(): closes connections, and queues nothing. *)
HandleExpired ==
  /\ lpc = "expire"
  /\ lpc' = "head"
  /\ UNCHANGED <<quit, calling, pending, batch, active, sync, io, tpc, hist>>

(* queueInLoop called by a callback or by a functor, in the loop's thread: *)
(* wakeup() is called only while functors are being executed.              *)
LoopEnqueue(f) ==
  /\ lpc \in {"callback", "task"}
  /\ Push(f)
  /\ IF calling THEN Wakeup ELSE UNCHANGED sync
  /\ UNCHANGED <<lpc, quit, calling, batch, active, io, tpc>>

(* quit() called in the loop's thread: no wakeup(). *)
LoopQuit ==
  /\ lpc \in {"callback", "task"}
  /\ quit' = TRUE
  /\ UNCHANGED <<lpc, calling, pending, batch, active, sync, io, tpc, hist>>

-----------------------------------------------------------------------------

(* What the loop's thread does on its own, without a callback deciding it. *)
LoopStep ==
  \/ LoopHead \/ Poll \/ HandleRead \/ HandleIo \/ CallbackDone
  \/ HandleDone \/ Swap \/ RunTask \/ TaskDone \/ RunDone \/ HandleExpired

LoopNext ==
  \/ StartLoop \/ LoopStep \/ LoopQuit
  \/ \E f \in Tasks : LoopEnqueue(f)

ThreadNext(t) ==
  \/ Quit(t) \/ FinishCall(t)
  \/ \E f \in Tasks : Enqueue(t, f)

Next ==
  \/ LoopNext
  \/ IoEvent
  \/ \E t \in Threads : ThreadNext(t)

(* The operating system schedules every runnable thread; nothing is owed   *)
(* by the network or by the callers.                                       *)
Fairness ==
  /\ WF_vars(StartLoop)
  /\ WF_vars(LoopStep)
  /\ \A t \in Threads : WF_vars(FinishCall(t))

Spec == Init /\ [][Next]_vars
FairSpec == Spec /\ Fairness

-----------------------------------------------------------------------------
(* Properties.                                                             *)

(* The eventfd will make the next epoll_wait return, or a thread is about  *)
(* to write to it.                                                         *)
Signalled ==
  \/ ready /\ evfd > 0
  \/ \E t \in Threads : tpc[t] # "idle"

(* From the swap of one iteration to the epoll_wait of the next (and       *)
(* before the first), a functor left in pendingFunctors_ never waits for   *)
(* an unrelated event: queueInLoop's wakeup() is called whenever it is     *)
(* needed (eventloop.cc:79-85, 106-117).                                   *)
NoLostWakeup ==
  lpc \in {"init", "run", "task", "expire", "head", "poll"} /\ pending # <<>>
  => Signalled

(* A loop told to quit after it began looping does not sleep on: either    *)
(* the thread is awake and will test quit_, or the eventfd gets it out of  *)
(* epoll_wait (eventloop.cc:66-69).                                        *)
NoLostQuit == lpc = "poll" /\ quit => Signalled

(* Functors are neither lost, duplicated nor reordered between             *)
(* queueInLoop, the swap and their execution (eventloop.cc:79-117).        *)
ExactlyOnceInOrder == queued = ran \o batch \o pending

(* The loop implements the abstract task queue. *)
Abstract == INSTANCE TaskQueue WITH issued <- queued, done <- ran
ImplementsTaskQueue == Abstract!Spec

(* A functor handed to the loop is executed, however the callers and the   *)
(* loop interleave, unless the loop is made to stop (eventloop.cc:48-64).  *)
EveryTaskRuns ==
  \A f \in Tasks :
    (\E i \in DOMAIN queued : queued[i] = f)
    ~> (lpc = "exit" \/ \E i \in DOMAIN ran : ran[i] = f)

(* quit() makes a loop that has begun looping return (eventloop.cc:54).    *)
QuitStopsLoop == (quit /\ lpc # "init") ~> lpc = "exit"

=============================================================================
