------------------------------ MODULE TaskQueue ------------------------------
(***************************************************************************)
(* What EventLoop::queueInLoop promises its callers, with the eventfd, the *)
(* poller and the batches left out: functors submitted to a loop are       *)
(* executed by the loop's thread, each exactly once, in the order in which *)
(* they were submitted.  EventLoop is shown to implement this module.      *)
(***************************************************************************)
EXTENDS Naturals, Sequences

CONSTANT Tasks     \* the functors, each submitted at most once

VARIABLES issued,  \* the functors submitted so far, in order
          done     \* the functors executed so far, in order

vars == <<issued, done>>

-----------------------------------------------------------------------------

Init == issued = <<>> /\ done = <<>>

Submit(f) ==
  /\ \A i \in DOMAIN issued : issued[i] # f
  /\ issued' = Append(issued, f)
  /\ UNCHANGED done

Execute ==
  /\ Len(done) < Len(issued)
  /\ done' = Append(done, issued[Len(done) + 1])
  /\ UNCHANGED issued

Next == Execute \/ \E f \in Tasks : Submit(f)

Spec == Init /\ [][Next]_vars

=============================================================================
