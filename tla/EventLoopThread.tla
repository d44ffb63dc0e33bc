--------------------------- MODULE EventLoopThread ---------------------------
(***************************************************************************)
(* The life of one I/O thread (glacier/eventloop_thread.{h,cc}) around the *)
(* reactor it runs (EventLoop): the owner starts the thread, waits until   *)
(* it has published the address of its EventLoop, hands that address to    *)
(* the threads that queue functors, and in the end destroys the            *)
(* EventLoopThread, which quits the loop and joins the thread.             *)
(*                                                                         *)
(* The EventLoop is a local variable of the thread's function, so that it  *)
(* is destroyed as soon as loop() has returned.  loop_ is written under    *)
(* mutex_ once and then read and cleared without it.                       *)
(***************************************************************************)
EXTENDS EventLoop

CONSTANT Owner  \* the thread that owns the EventLoopThread

ASSUME OwnerAssumption == Owner \in Threads

VARIABLES
  owner,      \* where the owner is in startLoop or in the destructor
  thread,     \* how far the thread's function has got
  published   \* loop_ # NULL

lifeVars == <<vars, owner, thread, published>>

LifeInit ==
  /\ Init
  /\ owner = "none" /\ thread = "none" /\ published = FALSE

-----------------------------------------------------------------------------
(* startLoop                                                               *)

StartThread ==
  /\ owner = "none"
  /\ owner' = "check"
  /\ thread' = "create"
  /\ UNCHANGED <<vars, published>>

(* Mutant of CheckPublished: startLoop does not wait. *)
NoWait ==
  /\ owner = "check"
  /\ owner' = "started"
  /\ UNCHANGED <<vars, thread, published>>

(* while (loop_ == NULL) condition_.wait(lock), in one critical section    *)
(* with the test that precedes the wait.                                   *)
CheckPublished ==
  /\ owner = "check"
  /\ owner' = IF published THEN "started" ELSE "blocked"
  /\ UNCHANGED <<vars, thread, published>>

-----------------------------------------------------------------------------
(* threadFunc                                                              *)

(* Mutant of Publish: the owner is not notified. *)
PublishSilent ==
  /\ thread = "create"
  /\ thread' = "loop"
  /\ published' = TRUE
  /\ UNCHANGED <<vars, owner>>

(* The EventLoop exists: its address is published, and the owner notified. *)
Publish ==
  /\ thread = "create"
  /\ thread' = "loop"
  /\ published' = TRUE
  /\ owner' = IF owner = "blocked" THEN "check" ELSE owner
  /\ UNCHANGED vars

(* loop.loop(), and what the network does to it: the channels of this loop *)
(* are those that functors queued to it have registered.                   *)
Looping ==
  /\ thread = "loop"
  /\ LoopNext \/ (ran # <<>> /\ IoEvent)
  /\ UNCHANGED <<owner, thread, published>>

(* loop_ = NULL, without mutex_ *)
Clear ==
  /\ thread = "loop" /\ lpc = "exit"
  /\ published' = FALSE
  /\ thread' = "cleared"
  /\ UNCHANGED <<vars, owner>>

(* The function returns and the EventLoop is destroyed. *)
Return ==
  /\ thread = "cleared"
  /\ thread' = "gone"
  /\ UNCHANGED <<vars, owner, published>>

-----------------------------------------------------------------------------
(* The users of the loop have its address from startLoop, and are done     *)
(* with it before the owner destroys the EventLoopThread.                  *)

UsersIdle == \A t \in Threads : tpc[t] = "idle"

(* A call into a loop that may be gone: only one that exists is modelled,  *)
(* the callers having no means to tell.                                    *)
Use(t) ==
  /\ owner = "started" /\ thread # "gone"
  /\ Quit(t) \/ \E f \in Tasks : Enqueue(t, f)
  /\ UNCHANGED <<owner, thread, published>>

FinishUse(t) ==
  /\ owner = "started" /\ thread # "gone"
  /\ FinishCall(t)
  /\ UNCHANGED <<owner, thread, published>>

-----------------------------------------------------------------------------
(* ~EventLoopThread                                                        *)

(* if (loop_), read without mutex_.  When it is NULL the join is skipped,  *)
(* and the destructor of a thread still joinable ends the program.         *)
Destroy ==
  /\ owner = "started" /\ UsersIdle
  /\ owner' = IF published THEN "quit" ELSE "terminated"
  /\ UNCHANGED <<vars, thread, published>>

(* loop_->quit() up to its first statement *)
DestroyQuit ==
  /\ owner = "quit" /\ thread # "gone"
  /\ Quit(Owner)
  /\ owner' = "wake"
  /\ UNCHANGED <<thread, published>>

(* Mutant of DestroyWake: quit() takes the owner for the loop's thread. *)
DestroyWakeSkipped ==
  /\ owner = "wake" /\ thread # "gone"
  /\ tpc' = [tpc EXCEPT ![Owner] = "idle"]
  /\ owner' = "join"
  /\ UNCHANGED <<lpc, quit, calling, pending, batch, active, evfd, ready, io,
                 queued, ran, thread, published>>

(* the wakeup() of quit() *)
DestroyWake ==
  /\ owner = "wake" /\ thread # "gone"
  /\ FinishCall(Owner)
  /\ owner' = "join"
  /\ UNCHANGED <<thread, published>>

(* quit() or its wakeup() on an EventLoop that no longer exists: undefined *)
(* in the code; the program crashes, or the call has no effect.            *)
TouchGone ==
  /\ owner \in {"quit", "wake"} /\ thread = "gone"
  /\ \/ owner' = "join" /\ tpc' = [tpc EXCEPT ![Owner] = "idle"]
     \/ owner' = "crashed" /\ UNCHANGED tpc
  /\ UNCHANGED <<lpc, quit, calling, pending, batch, active, evfd, ready, io,
                 queued, ran, thread, published>>

(* thread_.join() *)
Join ==
  /\ owner = "join" /\ thread = "gone"
  /\ owner' = "joined"
  /\ UNCHANGED <<vars, thread, published>>

-----------------------------------------------------------------------------

OwnerStep ==
  \/ StartThread \/ CheckPublished \/ DestroyQuit \/ DestroyWake \/ TouchGone
  \/ Join

LifeNext ==
  \/ OwnerStep \/ Destroy
  \/ Publish \/ Looping \/ Clear \/ Return
  \/ \E t \in Threads : Use(t) \/ FinishUse(t)

LifeSpec == LifeInit /\ [][LifeNext]_lifeVars

(* Every thread that can run is scheduled; nothing is owed by the network, *)
(* and nobody has to use or destroy the loop.                              *)
LifeFairSpec ==
  /\ LifeSpec
  /\ WF_lifeVars(OwnerStep)
  /\ WF_lifeVars(Publish) /\ WF_lifeVars(Clear) /\ WF_lifeVars(Return)
  /\ WF_lifeVars(thread = "loop" /\ (StartLoop \/ LoopStep)
             /\ UNCHANGED <<owner, thread, published>>)
  /\ \A t \in Threads : WF_lifeVars(FinishUse(t))

-----------------------------------------------------------------------------
(* Properties.                                                             *)

(* startLoop returns: whichever of the owner and the new thread takes      *)
(* mutex_ first, the notification is not missed                            *)
(* (eventloop_thread.cc:16-20, 26-30).                                     *)
StartLoopReturns == owner = "check" ~> owner = "started"

(* The address startLoop returned stays that of a live EventLoop, and the  *)
(* destructor joins the thread, until somebody calls quit()                *)
(* (eventloop_thread.cc:7-11, 21, 31-33).                                  *)
AliveUntilQuit ==
  /\ owner = "started" => thread # "create"
  /\ owner \in {"started", "quit"} /\ thread # "loop" => quit
  /\ owner = "terminated" => quit /\ thread # "loop"

(* The destructor of a thread whose loop has begun looping returns, unless *)
(* it touches an EventLoop that is already gone.  That of one whose loop   *)
(* has not may not: loop_ is published before loop() clears quit_, and a   *)
(* quit() that comes in between is forgotten                               *)
(* (eventloop_thread.cc:6-12, eventloop.cc:52-54, 66-69).                  *)
DestructorReturns ==
  owner = "quit" /\ lpc # "init" ~> owner \in {"joined", "crashed"}

=============================================================================
