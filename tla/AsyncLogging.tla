---------------------------- MODULE AsyncLogging ----------------------------
(***************************************************************************)
(* The asynchronous logger (glacier/base/asynclogging.{h,cc}).  Any thread *)
(* appends a line to the current buffer under mutex_; a full buffer moves  *)
(* to the list `buffers' and the spare one takes its place.  One logging   *)
(* thread takes the list and the current buffer away, leaving two empty    *)
(* buffers behind, writes what it took to a LogFile without the mutex, and *)
(* keeps two of the written buffers as its own spares for the next turn.   *)
(*                                                                         *)
(* A line is its number in the order of the calls to append, a buffer the  *)
(* sequence of its lines, and a line takes one unit of a buffer.  A        *)
(* critical section of mutex_ is one action.                               *)
(***************************************************************************)
EXTENDS Naturals, SequencesExt

CONSTANTS BufferSize,   \* units of a buffer
          DropLimit,    \* 25 in the code: a longer list is cut to Kept buffers
          MaxLines,     \* bound: lines appended
          Null          \* an empty BufferPtr

Kept == 2               \* buffersToWrite.begin() + 2
Notice == 0             \* the line that says how many buffers were dropped

ASSUME SizeAssumption == BufferSize \in Nat \ {0, 1}
ASSUME LimitAssumption == DropLimit \in Nat /\ DropLimit >= Kept
ASSUME NullAssumption == Null \notin Seq(Nat)

VARIABLES
  current, next,  \* currentBuffer_, nextBuffer_
  buffers,        \* buffers_: full buffers, oldest first
  count,          \* number of lines appended so far
  running,        \* running_
  user,           \* where the owner is in start() or stop()
  pc,             \* where the logging thread is
  new1, new2,     \* newBuffer1, newBuffer2
  toWrite, k,     \* buffersToWrite, and how many of them are written
  file,           \* the lines given to the LogFile
  dropped         \* history: the lines that were cut

front == <<current, next, buffers, count>>
own == <<new1, new2, toWrite, k, file, dropped>>
control == <<running, user>>
vars == <<front, own, control, pc>>

Pointer == Seq(Nat) \cup {Null}
UserPC == {"none", "latch", "started", "notify", "join", "stopped"}
ThreadPC == {"none", "latch", "test", "lock", "waiting", "woken", "backlog",
             "write", "recycle", "done"}

TypeOK ==
  /\ current \in Seq(Nat) /\ next \in Pointer
  /\ new1 \in Pointer /\ new2 \in Pointer
  /\ buffers \in Seq(Seq(Nat)) /\ toWrite \in Seq(Seq(Nat))
  /\ k \in 0..Len(toWrite)
  /\ file \in Seq(Nat) /\ dropped \subseteq Nat
  /\ count \in Nat /\ running \in BOOLEAN
  /\ user \in UserPC /\ pc \in ThreadPC

Init ==
  /\ current = <<>> /\ next = <<>> /\ buffers = <<>> /\ count = 0
  /\ new1 = Null /\ new2 = Null /\ toWrite = <<>> /\ k = 0
  /\ file = <<>> /\ dropped = {}
  /\ running = FALSE /\ user = "none"
  /\ pc = "none"

-----------------------------------------------------------------------------
(* start, stop                                                             *)

Start ==
  /\ user = "none"
  /\ running' = TRUE
  /\ user' = "latch"
  /\ pc' = "latch"
  /\ UNCHANGED <<front, own>>

(* latch_.wait(): the thread has counted down. *)
Started ==
  /\ user = "latch" /\ pc # "latch"
  /\ user' = "started"
  /\ UNCHANGED <<front, own, running, pc>>

Stop ==
  /\ user = "started"
  /\ running' = FALSE
  /\ user' = "notify"
  /\ UNCHANGED <<front, own, pc>>

(* condition_.notify_all() *)
Notified == IF pc = "waiting" THEN "woken" ELSE pc

StopNotify ==
  /\ user = "notify"
  /\ user' = "join"
  /\ pc' = Notified
  /\ UNCHANGED <<front, own, running>>

Join ==
  /\ user = "join" /\ pc = "done"
  /\ user' = "stopped"
  /\ UNCHANGED <<front, own, running, pc>>

-----------------------------------------------------------------------------
(* append, by any thread                                                   *)

Avail(b) == BufferSize - Len(b)

AppendFits ==
  /\ count < MaxLines
  /\ Avail(current) > 1
  /\ count' = count + 1
  /\ current' = Append(current, count + 1)
  /\ UNCHANGED <<next, buffers, own, control, pc>>

(* The full buffer joins the list; the spare, or a new one, takes the line. *)
AppendFull ==
  /\ count < MaxLines
  /\ Avail(current) <= 1
  /\ count' = count + 1
  /\ buffers' = Append(buffers, current)
  /\ current' = Append(IF next # Null THEN next ELSE <<>>, count + 1)
  /\ next' = Null
  /\ pc' = Notified
  /\ UNCHANGED <<own, control>>

-----------------------------------------------------------------------------
(* threadFunc                                                              *)

CountDown ==
  /\ pc = "latch"
  /\ new1' = <<>> /\ new2' = <<>>
  /\ pc' = "test"
  /\ UNCHANGED <<front, control, toWrite, k, file, dropped>>

(* while (running_), read without the mutex *)
Test ==
  /\ pc = "test"
  /\ pc' = IF running THEN "lock" ELSE "done"
  /\ UNCHANGED <<front, own, control>>

(* wait_for, entered only with no full buffer *)
Wait ==
  /\ pc = "lock" /\ buffers = <<>>
  /\ pc' = "waiting"
  /\ UNCHANGED <<front, own, control>>

(* Mutant of WaitEnds: wait() instead of wait_for(). *)
WaitNeverEnds ==
  /\ FALSE
  /\ UNCHANGED vars

(* flushInterval_ is over, or the wake-up is spurious. *)
WaitEnds ==
  /\ pc = "waiting"
  /\ pc' = "woken"
  /\ UNCHANGED <<front, own, control>>

(* Mutant of Swap: the front is not given a spare back. *)
SwapNoSpare ==
  /\ (pc = "lock" /\ buffers # <<>>) \/ pc = "woken"
  /\ toWrite' = Append(buffers, current)
  /\ buffers' = <<>>
  /\ current' = new1 /\ new1' = Null
  /\ k' = 0
  /\ pc' = "backlog"
  /\ UNCHANGED <<next, new2, count, control, file, dropped>>

(* Mutant of Swap: newBuffer2 is always handed over. *)
SwapBoth ==
  /\ (pc = "lock" /\ buffers # <<>>) \/ pc = "woken"
  /\ toWrite' = Append(buffers, current)
  /\ buffers' = <<>>
  /\ current' = new1 /\ new1' = Null
  /\ next' = new2 /\ new2' = Null
  /\ k' = 0
  /\ pc' = "backlog"
  /\ UNCHANGED <<count, control, file, dropped>>

(* The rest of the critical section, whether or not it waited. *)
Swap ==
  /\ (pc = "lock" /\ buffers # <<>>) \/ pc = "woken"
  /\ toWrite' = Append(buffers, current)
  /\ buffers' = <<>>
  /\ current' = new1 /\ new1' = Null
  /\ next' = IF next = Null THEN new2 ELSE next
  /\ new2' = IF next = Null THEN Null ELSE new2
  /\ k' = 0
  /\ pc' = "backlog"
  /\ UNCHANGED <<count, control, file, dropped>>

Lines(bs) == UNION {ToSet(b) : b \in ToSet(bs)}

(* A list that is too long is cut, and the file says so. *)
Backlog ==
  /\ pc = "backlog"
  /\ pc' = "write"
  /\ IF Len(toWrite) > DropLimit
     THEN /\ file' = Append(file, Notice)
          /\ toWrite' = SubSeq(toWrite, 1, Kept)
          /\ dropped' = dropped \cup Lines(SubSeq(toWrite, Kept + 1, Len(toWrite)))
     ELSE UNCHANGED <<file, toWrite, dropped>>
  /\ UNCHANGED <<front, control, new1, new2, k>>

WriteNext ==
  /\ pc = "write"
  /\ IF k < Len(toWrite)
     THEN /\ file' = file \o toWrite[k + 1]
          /\ k' = k + 1
          /\ UNCHANGED pc
     ELSE pc' = "recycle" /\ UNCHANGED <<file, k>>
  /\ UNCHANGED <<front, control, new1, new2, toWrite, dropped>>

(* Mutant of Recycle: newBuffer2 is not reset. *)
RecycleDirty ==
  /\ pc = "recycle"
  /\ new1' = IF new1 = Null THEN <<>> ELSE new1
  /\ new2' = IF new2 = Null THEN toWrite[1] ELSE new2
  /\ toWrite' = <<>> /\ k' = 0
  /\ pc' = "test"
  /\ UNCHANGED <<front, control, file, dropped>>

(* Two written buffers at most are kept; the spares handed over in Swap    *)
(* are replaced by them, emptied, and the others freed.                    *)
Recycle ==
  /\ pc = "recycle"
  /\ new1' = IF new1 = Null THEN <<>> ELSE new1
  /\ new2' = IF new2 = Null THEN <<>> ELSE new2
  /\ toWrite' = <<>> /\ k' = 0
  /\ pc' = "test"
  /\ UNCHANGED <<front, control, file, dropped>>

-----------------------------------------------------------------------------

ThreadStep ==
  CountDown \/ Test \/ Wait \/ WaitEnds \/ Swap \/ Backlog \/ WriteNext \/ Recycle

UserStep == Started \/ StopNotify \/ Join

Next == Start \/ Stop \/ UserStep \/ AppendFits \/ AppendFull \/ ThreadStep

Spec == Init /\ [][Next]_vars

(* The logging thread is scheduled and its wait ends after flushInterval_; *)
(* an owner inside start() or stop() is scheduled.                         *)
FairSpec == Spec /\ WF_vars(ThreadStep) /\ WF_vars(UserStep)

-----------------------------------------------------------------------------
(* Properties.                                                             *)

Missing == (IF new1 = Null THEN 1 ELSE 0) + (IF new2 = Null THEN 1 ELSE 0)

(* The assertions of threadFunc hold wherever they stand: running_ before  *)
(* the latch (line 67), two empty spares and nothing left to write at the  *)
(* top of the loop (77-79), something to write after the swap (97), and at *)
(* the end as many written buffers as spares were handed over (123, 130),  *)
(* however many lines were appended in between and whether or not the list *)
(* was cut.                                                                *)
AssertsHold ==
  /\ pc = "latch" => running
  /\ pc = "lock" => new1 = <<>> /\ new2 = <<>> /\ toWrite = <<>>
  /\ pc = "backlog" => toWrite # <<>>
  /\ pc = "recycle" => Missing <= Len(toWrite)

(* Since the last swap, append allocates a buffer of its own only after it *)
(* has filled both that the logging thread left it: without a spare there  *)
(* is a full buffer waiting, and a spare is always empty                   *)
(* (asynclogging.cc:54-60, 89-94).                                         *)
SpareUnlessBacklog ==
  IF next = Null THEN buffers # <<>> ELSE next = <<>>

(* The lines in the file, and the buffers on their way to it in the order  *)
(* in which it will get them.                                              *)
Written == ToSet(file) \ {Notice}
Coming == SubSeq(toWrite, k + 1, Len(toWrite)) \o buffers \o <<current>>

Increasing(b) ==
  \A i, j \in DOMAIN b : i < j /\ Notice \notin {b[i], b[j]} => b[i] < b[j]

InOrder(bs) ==
  /\ \A i \in DOMAIN bs : Increasing(bs[i])
  /\ \A i, j \in DOMAIN bs : i < j =>
       \A m \in ToSet(bs[i]), n \in ToSet(bs[j]) : m < n

(* Every line appended is in the file, on its way to it, or cut: none is   *)
(* duplicated by a recycled buffer, lost in a swap, or overtaken by a      *)
(* later one (asynclogging.cc:47-61, 88-94, 109-136).                      *)
OnceInOrder ==
  /\ Increasing(file) /\ InOrder(Coming)
  /\ \A m \in Written, n \in Lines(Coming) : m < n
  /\ (Written \cup Lines(Coming)) \cap dropped = {}
  /\ Written \cup Lines(Coming) \cup dropped = 1..count

(* A line reaches the file or is cut, unless the logger is stopped         *)
(* (asynclogging.cc:76-138).                                               *)
LineWritten ==
  \A n \in 1..MaxLines :
    user = "started" /\ n <= count ~>
      user # "started" \/ n \in ToSet(file) \cup dropped

(* stop() returns although its notification may come between the thread's  *)
(* test of running_ and its wait, and be missed                            *)
(* (asynclogging.cc:39-43, 76, 82-86).                                     *)
StopReturns == user = "notify" ~> user = "stopped"

=============================================================================
