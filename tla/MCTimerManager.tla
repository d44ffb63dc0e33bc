---------------------------- MODULE MCTimerManager ----------------------------
(* Model-checking instance of TimerManager: connections and timers are     *)
(* interchangeable, and its run checks safety only.                        *)
EXTENDS TimerManager, TLC

Symmetry == Permutations(Conns) \cup Permutations(Timers)

=============================================================================
