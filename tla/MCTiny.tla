------------------------------- MODULE MCTiny -------------------------------
(* A small instance of Tiny: requests of every outcome (the file may be    *)
(* removed or emptied before it is asked for), with a header line that     *)
(* does not fit the buffer, a method that is not implemented, and request  *)
(* lines of no word, of one and of three.                                  *)
EXTENDS Tiny

MCFiles == [file |-> "file", secret |-> "private", other |-> "foreign",
            cgi |-> "program", script |-> "noexec"]

MCChars == {"GET", "PUT", "1.0", "h", "CR", "NL"} \cup DOMAIN MCFiles

Get(name) == [words |-> <<"GET", name>>, headers |-> <<>>]

MCRequests ==
  {Get("secret"), Get("other"), Get("cgi"), Get("script"),
   [words |-> <<"GET", "file", "1.0">>, headers |-> <<"h", "h", "CR", "NL">>],
   [words |-> <<"PUT">>, headers |-> <<>>],
   [words |-> <<>>, headers |-> <<>>]}
=============================================================================
