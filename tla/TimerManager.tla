----------------------------- MODULE TimerManager -----------------------------
(***************************************************************************)
(* The timers of one I/O loop (glacier/timer.{h,cc}): a heap ordered by    *)
(* expiry time, from which timers are removed lazily.  A connection that   *)
(* is handled separates itself from its timer, which stays in the heap     *)
(* without a connection, and is given a new one.  A timer that leaves the  *)
(* heap closes the connection it still has.                                *)
(*                                                                         *)
(* Times are the milliseconds of tv_sec % 10000: the clock comes back to   *)
(* zero, expiry times do not.  Here the clock is era * Wrap + tick, and    *)
(* the code sees tick alone.                                               *)
(***************************************************************************)
EXTENDS Integers

CONSTANTS Conns,     \* connections
          Timers,    \* timer objects; bound: as many are in the heap at once
          Timeouts,  \* the timeouts connections ask for
          Wrap,      \* the clock's period, 10^7 ms
          MaxEra,    \* bound: how often the clock comes back to zero
          None       \* no connection, no timer

ASSUME TimeAssumption ==
  Timeouts \subseteq Nat \ {0} /\ Wrap \in Nat \ {0} /\ MaxEra \in Nat
ASSUME NoneAssumption == None \notin Conns \cup Timers

VARIABLES
  pc,        \* the loop's thread: "run", or "sweep" in handleExpiredEvent
  era, tick, \* the clock
  heap,      \* heap_
  deadline,  \* expiredtime_ of each timer
  httpdata,  \* httpdata_ of each timer, None once reset: deleted_
  link,      \* timer_ of each connection
  open,      \* connections that have not been closed
  born       \* history: the era in which each timer was set

clock == <<era, tick>>
timers == <<heap, deadline, httpdata, born>>
timerVars == <<pc, clock, timers, link, open>>

TimerTypeOK ==
  /\ pc \in {"run", "sweep"}
  /\ era \in 0..MaxEra /\ tick \in 0..Wrap-1
  /\ heap \subseteq Timers
  /\ deadline \in [Timers -> Nat]
  /\ httpdata \in [Timers -> Conns \cup {None}]
  /\ link \in [Conns -> Timers \cup {None}]
  /\ open \subseteq Conns
  /\ born \in [Timers -> 0..MaxEra]

TimerInit ==
  /\ pc = "run" /\ era = 0 /\ tick \in 0..Wrap-1
  /\ heap = {}
  /\ deadline = [t \in Timers |-> 0]
  /\ httpdata = [t \in Timers |-> None]
  /\ link = [c \in Conns |-> None]
  /\ open = {}
  /\ born = [t \in Timers |-> 0]

-----------------------------------------------------------------------------

(* gettimeofday, as the code sees it *)
Tick ==
  /\ \/ tick < Wrap - 1 /\ tick' = tick + 1 /\ era' = era
     \/ tick = Wrap - 1 /\ era < MaxEra /\ tick' = 0 /\ era' = era + 1
  /\ UNCHANGED <<pc, timers, link, open>>

(* httpdata after seperateTimer: the timer c is linked to forgets c. *)
Separated(c) == [t \in Timers |-> IF t = link[c] THEN None ELSE httpdata[t]]

(* addTimer, on timers that o says who owns: a new Timer, due at tick + d  *)
(* whether or not the clock gets there, linked to c.                       *)
AddTimer(c, d, o) == \E t \in Timers \ heap :
  /\ heap' = heap \cup {t}
  /\ deadline' = [deadline EXCEPT ![t] = tick + d]
  /\ httpdata' = [o EXCEPT ![t] = c]
  /\ link' = [link EXCEPT ![c] = t]
  /\ born' = [born EXCEPT ![t] = era]

(* newEvent: the first timer of a connection *)
Open(c, d) ==
  /\ pc = "run" /\ c \notin open
  /\ AddTimer(c, d, httpdata)
  /\ open' = open \cup {c}
  /\ UNCHANGED <<pc, clock>>

(* Mutant of Refresh: the old timer keeps its connection. *)
RefreshUnseparated(c, d) ==
  /\ pc = "run" /\ c \in open
  /\ AddTimer(c, d, httpdata)
  /\ UNCHANGED <<pc, clock, open>>

(* handleConn: the timer is separated and a new one added *)
Refresh(c, d) ==
  /\ pc = "run" /\ c \in open
  /\ AddTimer(c, d, Separated(c))
  /\ UNCHANGED <<pc, clock, open>>

(* handleConn without a new timer, or reset *)
Separate(c) ==
  /\ pc = "run" /\ c \in open
  /\ httpdata' = Separated(c)
  /\ link' = [link EXCEPT ![c] = None]
  /\ UNCHANGED <<pc, clock, heap, deadline, born, open>>

(* handleConn closing the connection *)
Close(c) ==
  /\ pc = "run" /\ c \in open
  /\ httpdata' = Separated(c)
  /\ link' = [link EXCEPT ![c] = None]
  /\ open' = open \ {c}
  /\ UNCHANGED <<pc, clock, heap, deadline, born>>

-----------------------------------------------------------------------------
(* handleExpiredEvent                                                      *)

StartSweep ==
  /\ pc = "run"
  /\ pc' = "sweep"
  /\ UNCHANGED <<clock, timers, link, open>>

Top(t) == t \in heap /\ \A u \in heap : deadline[t] <= deadline[u]

(* Mutant of Expired: the comparison takes an expired timer for valid. *)
ExpiredLate(t) == httpdata[t] = None \/ tick > deadline[t]

(* isDeleted() || !isValid() *)
Expired(t) == httpdata[t] = None \/ tick >= deadline[t]

(* The timer leaves the heap and is destroyed; ~Timer closes the           *)
(* connection it still has, whose link to it dies.                         *)
SweepPop(t) ==
  /\ pc = "sweep"
  /\ Top(t) /\ Expired(t)
  /\ heap' = heap \ {t}
  /\ httpdata' = [httpdata EXCEPT ![t] = None]
  /\ open' = open \ {httpdata[t]}
  /\ link' = [c \in Conns |-> IF link[c] = t THEN None ELSE link[c]]
  /\ deadline' = [deadline EXCEPT ![t] = 0]
  /\ born' = [born EXCEPT ![t] = 0]
  /\ UNCHANGED <<pc, clock>>

SweepStop ==
  /\ pc = "sweep"
  /\ heap = {} \/ \E t \in Timers : Top(t) /\ ~Expired(t)
  /\ pc' = "run"
  /\ UNCHANGED <<clock, timers, link, open>>

-----------------------------------------------------------------------------

Sweeping == StartSweep \/ SweepStop \/ \E t \in Timers : SweepPop(t)

TimerNext ==
  \/ Tick
  \/ Sweeping
  \/ \E c \in Conns : Separate(c) \/ Close(c)
  \/ \E c \in Conns, d \in Timeouts : Open(c, d) \/ Refresh(c, d)

TimerSpec == TimerInit /\ [][TimerNext]_timerVars

-----------------------------------------------------------------------------
(* Properties.                                                             *)

(* The time, and the time at which a timer is due, on a clock that does    *)
(* not come back to zero.                                                  *)
Now == era * Wrap + tick
Due(t) == born[t] * Wrap + deadline[t]

(* A timer that still has a connection is the one that connection is       *)
(* linked to: an old timer, left in the heap when the connection was given *)
(* another, closes nothing (httpdata.cc:74-80, timer.cc:43-53).            *)
OneTimer ==
  \A t \in Timers : httpdata[t] # None
    => httpdata[t] \in open /\ link[httpdata[t]] = t /\ t \in heap

(* No connection is closed before it has been idle for the timeout it was  *)
(* last given, wherever in the clock's period (timer.cc:10-11, 31-41).     *)
NeverEarly ==
  [][\A c \in Conns, t \in Timers :
       SweepPop(t) /\ httpdata[t] = c => Now >= Due(link[c])]_timerVars

(* A sweep leaves no connection whose time is up, except for those whose   *)
(* timer was set before the clock last came back to zero: their expiry     *)
(* time may be one that the clock never shows (timer.cc:31-41, 55-64).     *)
NoneOverdue ==
  [][SweepStop =>
       \A c \in open : link[c] # None /\ Now >= Due(link[c])
                       => born[link[c]] # era]_timerVars

=============================================================================
