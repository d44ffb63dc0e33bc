----------------------------- MODULE LogStream -----------------------------
(***************************************************************************)
(* The stream a log statement is written into (glacier/base/logstream.cc,  *)
(* logstream.h): a FixedBuffer of kSmallBuffer bytes and the operators <<. *)
(* A buffer is its length, the pieces of text it holds, each a sequence,   *)
(* and top, how far it was ever written: what is written beyond the        *)
(* length, as a terminating NUL is, counts too.                            *)
(***************************************************************************)
EXTENDS Integers, Sequences, SequencesExt

CONSTANTS kSmallBuffer, kMaxNumericSize

ASSUME BufferAssumption == kSmallBuffer \in Nat /\ kMaxNumericSize \in Nat

Buffer == [len : Nat, top : Nat, pieces : Seq(Seq(STRING))]

EmptyBuffer == [len |-> 0, top |-> 0, pieces |-> <<>>]

avail(b) == kSmallBuffer - b.len

(* n bytes of a piece are kept, of the m that were written at current(). *)
add(b, piece, n, m) ==
  [len |-> b.len + n, pieces |-> Append(b.pieces, piece),
   top |-> IF b.len + m > b.top THEN b.len + m ELSE b.top]

(* Mutant of append: a piece that does not fit is written all the same. *)
appendAlways(b, piece, n) == add(b, piece, n, n)

(* All or nothing, and never the last byte of the buffer. *)
append(b, piece, n) == IF avail(b) > n THEN add(b, piece, n, n) ELSE b

-----------------------------------------------------------------------------
(* Integers.  The quotient and the remainder of C truncate: the remainder  *)
(* of a negative number is negative, and the table is read from its middle *)
(* in both directions.                                                     *)

digits == <<"9", "8", "7", "6", "5", "4", "3", "2", "1", "0",
            "1", "2", "3", "4", "5", "6", "7", "8", "9">>
zero(lsd) == digits[10 + lsd]
digitsHex == <<"0", "1", "2", "3", "4", "5", "6", "7",
               "8", "9", "A", "B", "C", "D", "E", "F">>

Quotient(i, d) == IF i < 0 THEN -((-i) \div d) ELSE i \div d
Remainder(i, d) == i - d * Quotient(i, d)

(* The loop of convert: the digits of a number, the lowest first. *)
LowFirst[i \in Int] ==
  <<zero(Remainder(i, 10))>> \o
    (IF Quotient(i, 10) = 0 THEN <<>> ELSE LowFirst[Quotient(i, 10)])

convert(value) == Reverse(LowFirst[value] \o (IF value < 0 THEN <<"-">> ELSE <<>>))

LowFirstHex[i \in Nat] ==
  <<digitsHex[1 + (i % 16)]>> \o (IF i < 16 THEN <<>> ELSE LowFirstHex[i \div 16])

convertHex(value) == Reverse(LowFirstHex[value])

(* A number is converted at current(), with a NUL behind it, if there is   *)
(* room for the longest one.                                               *)
number(b, text) ==
  IF avail(b) >= kMaxNumericSize THEN add(b, text, Len(text), Len(text) + 1) ELSE b

(* One argument of a log statement: its type, and its value or the length  *)
(* of its text (a double's is that of "%.12g").  A string is a field of    *)
(* the line or a message of the program.                                   *)
Texts == {"time", "microseconds", "tid", "level", "func", "message",
          " - ", "basename", ":", "newline"}
Numbers == {"integer", "pointer", "double"}
Arguments ==
  [type : {"bool", "char", "nullptr"}] \cup [type : {"string"}, text : Texts, value : Nat]
  \cup [type : {"integer"}, value : Int] \cup [type : {"pointer", "double"}, value : Nat]

NumberText(arg) ==
  CASE arg.type = "integer" -> convert(arg.value)
    [] arg.type = "pointer" -> <<"0", "x">> \o convertHex(arg.value)
    [] arg.type = "double"  -> [k \in 1 .. arg.value |-> "d"]

Put(b, arg) ==
  CASE arg.type \in Numbers -> number(b, NumberText(arg))
    [] arg.type \in {"bool", "char"} -> append(b, <<arg.type>>, 1)
    [] arg.type = "string"   -> append(b, <<arg.text>>, arg.value)
    [] arg.type = "nullptr"  -> append(b, <<"(null)">>, 6)

PutAll(b, args) ==
  LET put[i \in 0 .. Len(args)] == IF i = 0 THEN b ELSE Put(put[i - 1], args[i])
  IN  put[Len(args)]
=============================================================================
