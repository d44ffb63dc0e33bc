----------------------------- MODULE MCLogging -----------------------------
(* A small instance of Logging: the messages are integers at the limits of *)
(* 16 bits and strings that leave the buffer without room for one or the   *)
(* other piece of the end of the line.                                     *)
EXTENDS Logging

MCStatements ==
  {[level |-> "INFO", args |-> <<[type |-> "integer", value |-> -32768]>>],
   [level |-> "TRACE", args |-> <<[type |-> "double", value |-> 18], String("message", 3935)>>],
   [level |-> "FATAL", args |-> <<[type |-> "pointer", value |-> 48879], [type |-> "bool"],
                                  [type |-> "nullptr"]>>]}

Symmetry == Permutations(Threads)
=============================================================================
