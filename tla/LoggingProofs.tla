---------------------------- MODULE LoggingProofs ----------------------------
(***************************************************************************)
(* Proofs about Logging, for any threads, statements, sizes and intervals: *)
(* lines stay whole and in order, files are rolled and flushed as often as *)
(* the counter and the clock allow, what comes before an abort is on the   *)
(* disk, and the text of a line is that of its statement.                  *)
(***************************************************************************)
EXTENDS Logging, FiniteSetTheorems, WellFoundedInduction, TLAPS

-----------------------------------------------------------------------------
(* Induction, in the form of minimal elements.                             *)

LEMMA NatMin ==
  ASSUME NEW T \in SUBSET Nat, T # {}
  PROVE  \E m \in T : \A k \in T : m <= k
  <1> DEFINE R == OpToRel(<, Nat)
  <1>1. IsWellFoundedOn(R, Nat)
    BY NatLessThanWellFounded
  <1> HIDE DEF R
  <1>2. PICK m \in T : \A y \in T : ~(<<y, m>> \in R)
    BY <1>1, WFMin
  <1>3. \A y \in T : ~(y < m)
    BY <1>2 DEF R, OpToRel
  <1> QED
    BY <1>3

(* A recursion that appends what is left to a head, and comes to an end.   *)
Unfolds(f, S, head, next, stop) ==
  f = [i \in S |-> head[i] \o (IF i \in stop THEN <<>> ELSE f[next[i]])]

LEMMA Unfolding ==
  ASSUME NEW S, NEW C, NEW head \in [S -> Seq(C)], NEW next \in [S -> S], NEW stop,
         NEW size \in [S -> Nat], \A i \in S \ stop : size[next[i]] < size[i]
  PROVE  \E f : Unfolds(f, S, head, next, stop)
  <1> DEFINE D(n) == {i \in S : size[i] < n}
             Good(g, n) ==
               /\ g \in [D(n) -> Seq(C)]
               /\ \A i \in D(n) : g[i] = head[i] \o (IF i \in stop THEN <<>> ELSE g[next[i]])
  <1>1. \A n \in Nat : \E g : Good(g, n)
    <2> DEFINE T == {n \in Nat : ~\E g : Good(g, n)}
    <2> SUFFICES ASSUME T # {} PROVE FALSE
      OBVIOUS
    <2>1. PICK n \in T : \A k \in T : n <= k
      <3> HIDE DEF T
      <3>1. T \in SUBSET Nat
        BY DEF T
      <3> QED
        BY <3>1, NatMin
    <2>2. CASE n = 0
      <3>1. D(n) = {}
        BY <2>2
      <3>2. Good([i \in {} |-> <<>>], n)
        BY <3>1
      <3> QED
        BY <2>1, <3>2
    <2>3. CASE n # 0
      <3>1. n \in Nat /\ n - 1 \in Nat /\ n - 1 \notin T
        <4>1. T \in SUBSET Nat
          OBVIOUS
        <4> HIDE DEF T
        <4> QED
          BY <2>1, <2>3, <4>1
      <3>2. PICK g : Good(g, n - 1)
        BY <3>1
      <3> DEFINE h == [i \in D(n) |-> head[i] \o (IF i \in stop THEN <<>> ELSE g[next[i]])]
      <3>3. \A i \in D(n) : i \notin stop => next[i] \in D(n - 1)
        BY <2>1
      <3>4. h \in [D(n) -> Seq(C)]
        <4>1. \A i \in D(n) : head[i] \o (IF i \in stop THEN <<>> ELSE g[next[i]]) \in Seq(C)
          BY <3>2, <3>3
        <4> QED
          BY <4>1
      <3>5. \A j \in D(n - 1) : j \in D(n) /\ h[j] = g[j]
        BY <2>1, <3>2
      <3>6. \A i \in D(n) : h[i] = head[i] \o (IF i \in stop THEN <<>> ELSE h[next[i]])
        BY <3>3, <3>5
      <3>7. Good(h, n)
        BY <3>4, <3>6
      <3> QED
        BY <2>1, <3>7
    <2> QED
      BY <2>2, <2>3
  <1>2. ASSUME NEW n \in Nat, NEW m \in Nat, NEW g, NEW h, Good(g, n), Good(h, m)
        PROVE  \A i \in D(n) \cap D(m) : g[i] = h[i]
    <2> DEFINE T == {k \in Nat : \E j \in D(n) \cap D(m) : size[j] = k /\ g[j] # h[j]}
    <2> SUFFICES ASSUME T # {} PROVE FALSE
      OBVIOUS
    <2>1. PICK k \in T : \A l \in T : k <= l
      <3>1. T \in SUBSET Nat
        OBVIOUS
      <3> HIDE DEF T
      <3> QED
        BY <3>1, NatMin
    <2>2. PICK i \in D(n) \cap D(m) : g[i] # h[i] /\ size[i] = k
      BY <2>1
    <2>3. i \notin stop
      BY <1>2, <2>2
    <2>4. next[i] \in D(n) \cap D(m) /\ size[next[i]] < k
      BY <2>2, <2>3
    <2>5. g[next[i]] = h[next[i]]
      <3>1. size[next[i]] \in Nat /\ size[next[i]] \notin T
        <4>1. T \in SUBSET Nat
          OBVIOUS
        <4> HIDE DEF T
        <4> QED
          BY <2>1, <2>4, <4>1
      <3> QED
        BY <2>4, <3>1
    <2> QED
      BY <1>2, <2>2, <2>5
  <1> DEFINE G(n) == CHOOSE g : Good(g, n)
             f == [i \in S |-> G(size[i] + 1)[i]]
  <1>3. \A n \in Nat : Good(G(n), n)
    BY <1>1
  <1> HIDE DEF G
  <1>4. f \in [S -> Seq(C)]
    <2>1. \A i \in S : size[i] + 1 \in Nat /\ i \in D(size[i] + 1)
      OBVIOUS
    <2>2. \A n \in Nat : G(n) \in [D(n) -> Seq(C)]
      BY <1>3
    <2> HIDE DEF D
    <2>3. \A i \in S : G(size[i] + 1)[i] \in Seq(C)
      BY <2>1, <2>2
    <2> QED
      BY <2>3
  <1>5. ASSUME NEW i \in S
        PROVE  f[i] = head[i] \o (IF i \in stop THEN <<>> ELSE f[next[i]])
    <2>1. i \in D(size[i] + 1) /\ size[i] + 1 \in Nat
      OBVIOUS
    <2>2. f[i] = head[i] \o (IF i \in stop THEN <<>> ELSE G(size[i] + 1)[next[i]])
      BY <1>3, <2>1
    <2>3. CASE i \notin stop
      <3> DEFINE j == next[i]
      <3>1. /\ j \in D(size[i] + 1) /\ j \in D(size[j] + 1) /\ size[j] + 1 \in Nat
            /\ f[j] = G(size[j] + 1)[j]
        BY <2>3
      <3>2. G(size[i] + 1)[j] = G(size[j] + 1)[j]
        <4> HIDE DEF D, Good, j
        <4> QED
          BY <1>2, <1>3, <2>1, <3>1
      <3> QED
        BY <2>2, <2>3, <3>1, <3>2
    <2> QED
      BY <2>2, <2>3
  <1>6. f = [i \in S |-> head[i] \o (IF i \in stop THEN <<>> ELSE f[next[i]])]
    <2>1. f = [i \in S |-> f[i]]
      BY <1>4
    <2> HIDE DEF f
    <2> QED
      BY <1>5, <2>1
  <1> QED
    BY <1>6 DEF Unfolds

LEMMA UnfoldingText ==
  ASSUME NEW S, NEW C, NEW head \in [S -> Seq(C)], NEW next \in [S -> S], NEW stop,
         NEW size \in [S -> Nat], \A i \in S \ stop : size[next[i]] < size[i],
         NEW f, Unfolds(f, S, head, next, stop)
  PROVE  f \in [S -> Seq(C)]
  <1> DEFINE T == {k \in Nat : \E j \in S : size[j] = k /\ f[j] \notin Seq(C)}
  <1>1. ASSUME T # {} PROVE FALSE
    <2>1. PICK k \in T : \A l \in T : k <= l
      <3>1. T \in SUBSET Nat
        OBVIOUS
      <3> HIDE DEF T
      <3> QED
        BY <1>1, <3>1, NatMin
    <2>2. PICK i \in S : size[i] = k /\ f[i] \notin Seq(C)
      BY <2>1
    <2>3. f[i] = head[i] \o (IF i \in stop THEN <<>> ELSE f[next[i]])
      BY DEF Unfolds
    <2>4. i \notin stop /\ next[i] \in S /\ f[next[i]] \notin Seq(C)
      <3>1. head[i] \in Seq(C) /\ next[i] \in S
        OBVIOUS
      <3>2. head[i] \o <<>> \in Seq(C)
        BY <3>1
      <3>3. \A s \in Seq(C) : head[i] \o s \in Seq(C)
        BY <3>1
      <3> QED
        BY <2>2, <2>3, <3>1, <3>2, <3>3
    <2>5. size[next[i]] \in T /\ size[next[i]] < k /\ k \in Nat /\ size[next[i]] \in Nat
      BY <2>1, <2>2, <2>4
    <2> HIDE DEF T
    <2> QED
      BY <2>1, <2>5
  <1>2. \A i \in S : f[i] \in Seq(C)
    BY <1>1
  <1> QED
    BY <1>2 DEF Unfolds

-----------------------------------------------------------------------------
(* Digits.                                                                 *)

Decimals == {zero(r) : r \in -9 .. 9}

LEMMA Digit ==
  ASSUME NEW i \in Int
  PROVE  /\ Quotient(i, 10) \in Int /\ Remainder(i, 10) \in -9 .. 9
         /\ i = 10 * Quotient(i, 10) + Remainder(i, 10)
         /\ zero(Remainder(i, 10)) \in Decimals
  <1>1. /\ Quotient(i, 10) \in Int /\ Remainder(i, 10) \in -9 .. 9
        /\ i = 10 * Quotient(i, 10) + Remainder(i, 10)
    BY SMTT(30) DEF Quotient, Remainder
  <1> QED
    BY <1>1 DEF Decimals

(* How far a number is from having no digits left. *)
Magnitude(i) == IF i < 0 THEN -i ELSE i

LEMMA Shrinks ==
  ASSUME NEW i \in Int, Quotient(i, 10) # 0
  PROVE  Magnitude(Quotient(i, 10)) < Magnitude(i)
  BY SMTT(30) DEF Quotient, Magnitude

LEMMA LowFirstText ==
  /\ LowFirst \in [Int -> Seq(Decimals)]
  /\ \A i \in Int : LowFirst[i] = <<zero(Remainder(i, 10))>> \o
       (IF Quotient(i, 10) = 0 THEN <<>> ELSE LowFirst[Quotient(i, 10)])
  <1> DEFINE head == [i \in Int |-> <<zero(Remainder(i, 10))>>]
             next == [i \in Int |-> Quotient(i, 10)]
             stop == {i \in Int : Quotient(i, 10) = 0}
             size == [i \in Int |-> Magnitude(i)]
  <1>1. head \in [Int -> Seq(Decimals)] /\ next \in [Int -> Int]
    BY Digit
  <1>2. size \in [Int -> Nat] /\ \A i \in Int \ stop : size[next[i]] < size[i]
    <2>1. \A i \in Int : Magnitude(i) \in Nat
      BY DEF Magnitude
    <2>2. \A i \in Int \ stop : Magnitude(Quotient(i, 10)) < Magnitude(i)
      BY Shrinks
    <2> QED
      BY <1>1, <2>1, <2>2
  <1>3. \A i \in Int \ stop : size[next[i]] < size[i]
    BY <1>2
  <1> DEFINE R(g) == g = [i \in Int |-> <<zero(Remainder(i, 10))>> \o
                            (IF Quotient(i, 10) = 0 THEN <<>> ELSE g[Quotient(i, 10)])]
             U(g) == Unfolds(g, Int, head, next, stop)
  <1>4. \A g : R(g) <=> U(g)
    BY DEF Unfolds
  <1>5. \E g : U(g)
    <2> HIDE DEF head, next, stop, size
    <2> QED
      BY <1>1, <1>2, <1>3, Unfolding
  <1>6. U(LowFirst)
    <2>1. LowFirst = CHOOSE g : R(g)
      BY Zenon DEF LowFirst
    <2> HIDE DEF R, U
    <2> QED
      BY <1>4, <1>5, <2>1
  <1>7. LowFirst \in [Int -> Seq(Decimals)]
    <2> HIDE DEF head, next, stop, size
    <2> QED
      BY <1>1, <1>2, <1>3, <1>6, UnfoldingText
  <1> QED
    BY <1>4, <1>6, <1>7

LEMMA LowFirstHexText == LowFirstHex \in [Nat -> Seq({digitsHex[1 + k] : k \in 0 .. 15})]
  <1> DEFINE C == {digitsHex[1 + k] : k \in 0 .. 15}
             head == [i \in Nat |-> <<digitsHex[1 + (i % 16)]>>]
             next == [i \in Nat |-> i \div 16]
             stop == {i \in Nat : i < 16}
             size == [i \in Nat |-> i]
  <1>1. head \in [Nat -> Seq(C)] /\ next \in [Nat -> Nat]
    <2>1. \A i \in Nat : i % 16 \in 0 .. 15 /\ i \div 16 \in Nat
      OBVIOUS
    <2> QED
      BY <2>1
  <1>2. size \in [Nat -> Nat]
    OBVIOUS
  <1>3. \A i \in Nat \ stop : size[next[i]] < size[i]
    OBVIOUS
  <1> DEFINE R(g) == g = [i \in Nat |-> <<digitsHex[1 + (i % 16)]>> \o
                            (IF i < 16 THEN <<>> ELSE g[i \div 16])]
             U(g) == Unfolds(g, Nat, head, next, stop)
  <1>4. \A g : R(g) <=> U(g)
    BY DEF Unfolds
  <1>5. \E g : U(g)
    <2> HIDE DEF C, head, next, stop, size
    <2> QED
      BY <1>1, <1>2, <1>3, Unfolding
  <1>6. U(LowFirstHex)
    <2>1. LowFirstHex = CHOOSE g : R(g)
      BY Zenon DEF LowFirstHex
    <2> HIDE DEF R, U
    <2> QED
      BY <1>4, <1>5, <2>1
  <1> QED
    <2> HIDE DEF C, head, next, stop, size
    <2> QED
      BY <1>1, <1>2, <1>3, <1>6, UnfoldingText DEF C

(* The text of a number is a sequence. *)
LEMMA NumberTextType ==
  ASSUME NEW arg \in Arguments, arg.type \in Numbers
  PROVE  Len(NumberText(arg)) \in Nat
  <1>1. CASE arg.type = "integer"
    <2>1. arg.value \in Int
      BY <1>1 DEF Arguments
    <2> DEFINE v == arg.value
               s == LowFirst[v] \o (IF v < 0 THEN <<"-">> ELSE <<>>)
    <2>2. LowFirst[v] \in Seq(Decimals \cup {"-"})
      BY <2>1, LowFirstText
    <2>3. s \in Seq(Decimals \cup {"-"})
      <3> DEFINE C == Decimals \cup {"-"}
                 sign == IF v < 0 THEN <<"-">> ELSE <<>>
      <3>1. sign \in Seq(C)
        <4>1. "-" \in C
          OBVIOUS
        <4> HIDE DEF C
        <4> QED
          BY <4>1
      <3> HIDE DEF C, sign
      <3>2. \A low \in Seq(C) : low \o sign \in Seq(C)
        BY <3>1
      <3> QED
        BY <2>2, <3>2 DEF C, sign
    <2>4. convert(v) = [k \in 1 .. Len(s) |-> s[(Len(s) - k) + 1]]
      BY DEF convert, Reverse
    <2> HIDE DEF s
    <2>5. Len(convert(v)) \in Nat
      BY <2>3, <2>4
    <2> QED
      BY <1>1, <2>5 DEF NumberText
  <1>2. CASE arg.type = "pointer"
    <2>1. arg.value \in Nat
      BY <1>2 DEF Arguments
    <2> DEFINE v == arg.value
               C == {digitsHex[1 + k] : k \in 0 .. 15}
               s == LowFirstHex[v]
    <2>2. s \in Seq(C)
      BY <2>1, LowFirstHexText
    <2>3. convertHex(v) = [k \in 1 .. Len(s) |-> s[(Len(s) - k) + 1]]
      BY DEF convertHex, Reverse
    <2> HIDE DEF C, s
    <2>4. convertHex(v) \in Seq(C)
      BY <2>2, <2>3
    <2>5. Len(<<"0", "x">> \o convertHex(v)) \in Nat
      <3>1. convertHex(v) \in Seq(C \cup {"0", "x"}) /\ <<"0", "x">> \in Seq(C \cup {"0", "x"})
        BY <2>4
      <3> QED
        BY <3>1
    <2> QED
      BY <1>2, <2>5 DEF NumberText
  <1>3. CASE arg.type = "double"
    <2>1. arg.value \in Nat
      BY <1>3 DEF Arguments
    <2> QED
      BY <1>3, <2>1 DEF NumberText
  <1> QED
    BY <1>1, <1>2, <1>3 DEF Numbers

-----------------------------------------------------------------------------
(* The buffer of a statement.                                              *)

PieceOf(arg) ==
  CASE arg.type \in Numbers -> NumberText(arg)
    [] arg.type \in {"bool", "char"} -> <<arg.type>>
    [] arg.type = "string"   -> <<arg.text>>
    [] arg.type = "nullptr"  -> <<"(null)">>

(* The argument is put behind what the buffer holds, and stays within it.  *)
PutBehind(b, c, arg) ==
  /\ c.pieces = Append(b.pieces, PieceOf(arg))
  /\ c.len \in Nat /\ b.len <= c.len
  /\ c.top \in Nat /\ c.top <= kSmallBuffer

Fits(arg) == arg.type \in Numbers => Len(NumberText(arg)) < kMaxNumericSize

LEMMA PutOne ==
  ASSUME NEW b, NEW arg \in Arguments, Fits(arg),
         b.len \in Nat, b.top \in Nat, b.top <= kSmallBuffer
  PROVE  \/ PutBehind(b, Put(b, arg), arg)
         \/ Put(b, arg) = b /\ b.len + Room(arg) >= kSmallBuffer
  <1> USE BufferAssumption
  <1>1. ASSUME NEW piece, NEW n \in Nat, NEW m \in Nat, b.len + m <= kSmallBuffer,
               piece = PieceOf(arg)
        PROVE  PutBehind(b, add(b, piece, n, m), arg)
    <2> DEFINE c == add(b, piece, n, m)
    <2>1. /\ c.len = b.len + n /\ c.pieces = Append(b.pieces, piece)
          /\ c.top = IF b.len + m > b.top THEN b.len + m ELSE b.top
      BY DEF add
    <2> HIDE DEF c
    <2>2. c.len \in Nat /\ b.len <= c.len /\ c.top \in Nat /\ c.top <= kSmallBuffer
      BY <1>1, <2>1
    <2> QED
      BY <1>1, <2>1, <2>2, Zenon DEF PutBehind, c
  <1>2. CASE arg.type \in Numbers
    <2> DEFINE text == NumberText(arg)
    <2>1. Len(text) \in Nat /\ Len(text) + 1 <= kMaxNumericSize
      BY <1>2, NumberTextType DEF Fits
    <2>2. Put(b, arg) = number(b, text) /\ PieceOf(arg) = text /\ Room(arg) = kMaxNumericSize
      BY <1>2 DEF Put, PieceOf, Room, Numbers
    <2> HIDE DEF text
    <2>3. CASE avail(b) >= kMaxNumericSize
      <3>1. b.len + (Len(text) + 1) <= kSmallBuffer
        BY <2>1, <2>3 DEF avail
      <3>2. PutBehind(b, add(b, text, Len(text), Len(text) + 1), arg)
        BY <1>1, <2>1, <2>2, <3>1
      <3> QED
        BY <2>2, <2>3, <3>2 DEF number
    <2>4. CASE ~(avail(b) >= kMaxNumericSize)
      BY <2>2, <2>4 DEF number, avail
    <2> QED
      BY <2>3, <2>4
  <1>3. ASSUME NEW piece, NEW n \in Nat, piece = PieceOf(arg), Put(b, arg) = append(b, piece, n),
               n <= Room(arg), Room(arg) \in Nat
        PROVE  \/ PutBehind(b, Put(b, arg), arg)
               \/ Put(b, arg) = b /\ b.len + Room(arg) >= kSmallBuffer
    <2>1. CASE avail(b) > n
      <3>1. b.len + n <= kSmallBuffer
        BY <2>1 DEF avail
      <3>2. PutBehind(b, add(b, piece, n, n), arg)
        BY <1>1, <1>3, <3>1
      <3> QED
        BY <1>3, <2>1, <3>2 DEF append
    <2>2. CASE ~(avail(b) > n)
      BY <1>3, <2>2 DEF append, avail
    <2> QED
      BY <2>1, <2>2
  <1>4. CASE arg.type \in {"bool", "char"}
    <2>1. PieceOf(arg) = <<arg.type>> /\ Put(b, arg) = append(b, <<arg.type>>, 1) /\ Room(arg) = 6
      BY <1>4, Zenon DEF PieceOf, Put, Room, Numbers
    <2> QED
      BY <1>3, <2>1
  <1>5. CASE arg.type = "string"
    <2>1. arg.value \in Nat
      BY <1>5 DEF Arguments
    <2>2. /\ PieceOf(arg) = <<arg.text>> /\ Put(b, arg) = append(b, <<arg.text>>, arg.value)
          /\ Room(arg) = arg.value
      BY <1>5 DEF PieceOf, Put, Room, Numbers
    <2> QED
      BY <1>3, <2>1, <2>2
  <1>6. CASE arg.type = "nullptr"
    <2>1. PieceOf(arg) = <<"(null)">> /\ Put(b, arg) = append(b, <<"(null)">>, 6) /\ Room(arg) = 6
      BY <1>6 DEF PieceOf, Put, Room, Numbers
    <2> QED
      BY <1>3, <2>1
  <1> QED
    BY <1>2, <1>4, <1>5, <1>6 DEF Arguments, Numbers

Puts(g, b, args, n) ==
  g = [i \in 0 .. n |-> IF i = 0 THEN b ELSE Put(g[i - 1], args[i])]

LEMMA PutsExist ==
  ASSUME NEW b, NEW args, NEW n \in Nat
  PROVE  \E g : Puts(g, b, args, n)
  <1> DEFINE T == {k \in Nat : ~\E g : Puts(g, b, args, k)}
  <1>1. ASSUME T # {} PROVE FALSE
    <2>1. PICK k \in T : \A l \in T : k <= l
      <3>1. T \in SUBSET Nat
        OBVIOUS
      <3> HIDE DEF T
      <3> QED
        BY <1>1, <3>1, NatMin
    <2>2. k \in Nat /\ ~\E g : Puts(g, b, args, k)
      BY <2>1
    <2>3. CASE k = 0
      <3> DEFINE g == [i \in 0 .. 0 |-> b]
      <3>1. g = [i \in 0 .. 0 |-> IF i = 0 THEN b ELSE Put(g[i - 1], args[i])]
        OBVIOUS
      <3> HIDE DEF g
      <3> QED
        BY <2>2, <2>3, <3>1 DEF Puts
    <2>4. CASE k # 0
      <3>1. k - 1 \in Nat /\ \E g : Puts(g, b, args, k - 1)
        <4>1. k - 1 \in Nat /\ k - 1 < k
          BY <2>2, <2>4
        <4>2. k - 1 \notin T
          <5> HIDE DEF T
          <5> QED
            BY <2>1, <2>2, <4>1
        <4> QED
          BY <4>1, <4>2
      <3>2. PICK g : Puts(g, b, args, k - 1)
        BY <3>1
      <3> DEFINE h == [i \in 0 .. k |-> IF i < k THEN g[i] ELSE Put(g[k - 1], args[k])]
      <3>3. \A i \in 0 .. k - 1 : h[i] = g[i]
        BY <2>2
      <3>4. \A i \in 0 .. k : h[i] = IF i = 0 THEN b ELSE Put(h[i - 1], args[i])
        <4>1. \A i \in 0 .. k - 1 : g[i] = IF i = 0 THEN b ELSE Put(g[i - 1], args[i])
          BY <3>1, <3>2, Zenon DEF Puts
        <4>2. h[k] = Put(g[k - 1], args[k])
          BY <2>2
        <4>3. \A i \in 1 .. k : i - 1 \in 0 .. k - 1
          BY <2>2
        <4> HIDE DEF h
        <4>4. ASSUME NEW i \in 0 .. k, i # k
              PROVE  h[i] = IF i = 0 THEN b ELSE Put(h[i - 1], args[i])
          <5>1. i \in 0 .. k - 1 /\ (i # 0 => i - 1 \in 0 .. k - 1)
            BY <2>2, <4>4
          <5> QED
            BY <3>3, <4>1, <5>1
        <4>5. h[k] = IF k = 0 THEN b ELSE Put(h[k - 1], args[k])
          BY <2>2, <2>4, <3>3, <4>2, <4>3
        <4> QED
          BY <4>4, <4>5
      <3>5. h = [i \in 0 .. k |-> h[i]]
        OBVIOUS
      <3> HIDE DEF h
      <3>6. Puts(h, b, args, k)
        BY <3>4, <3>5 DEF Puts
      <3> QED
        BY <2>2, <3>6
    <2> QED
      BY <2>3, <2>4
  <1> QED
    BY <1>1

(* The buffer stays within its bounds; if no argument would be dropped     *)
(* from what it ended up with, none was.                                   *)
LEMMA PutAllRight ==
  ASSUME NEW args \in Seq(Arguments), \A i \in DOMAIN args : Fits(args[i])
  PROVE  LET b == PutAll(EmptyBuffer, args)
         IN  /\ b.len \in Nat /\ b.top <= kSmallBuffer
             /\ (\A i \in DOMAIN args : b.len + Room(args[i]) < kSmallBuffer) =>
                  /\ Len(b.pieces) = Len(args)
                  /\ \A i \in DOMAIN args : b.pieces[i] = PieceOf(args[i])
  <1> DEFINE n == Len(args)
             g == CHOOSE g : Puts(g, EmptyBuffer, args, n)
             Kept(i) == \A j \in 1 .. i : g[i].len + Room(args[j]) < kSmallBuffer
             P == {PieceOf(args[i]) : i \in DOMAIN args}
             Good(i) ==
               /\ g[i].len \in Nat /\ g[i].top \in Nat /\ g[i].top <= kSmallBuffer
               /\ g[i].pieces \in Seq(P)
               /\ Kept(i) => /\ Len(g[i].pieces) = i
                             /\ \A j \in 1 .. i : g[i].pieces[j] = PieceOf(args[j])
  <1>1. n \in Nat /\ DOMAIN args = 1 .. n
    OBVIOUS
  <1>2. Puts(g, EmptyBuffer, args, n)
    BY <1>1, PutsExist
  <1>3. PutAll(EmptyBuffer, args) = g[n]
    BY Zenon DEF PutAll, Puts
  <1>4. g[0] = EmptyBuffer /\ \A i \in 1 .. n : g[i] = Put(g[i - 1], args[i])
    <2>1. \A i \in 0 .. n : g[i] = IF i = 0 THEN EmptyBuffer ELSE Put(g[i - 1], args[i])
      <3> HIDE DEF g, n
      <3> QED
        BY <1>2, Zenon DEF Puts
    <2>2. 0 \in 0 .. n /\ \A i \in 1 .. n : i \in 0 .. n /\ i # 0
      BY <1>1
    <2> HIDE DEF g, n
    <2> QED
      BY <2>1, <2>2
  <1> HIDE DEF g, n
  <1>5. Good(0)
    <2>1. g[0].len = 0 /\ g[0].top = 0 /\ g[0].pieces = <<>>
      BY <1>4 DEF EmptyBuffer
    <2> HIDE DEF P
    <2> QED
      BY <2>1, BufferAssumption
  <1>6. ASSUME NEW i \in 1 .. n, Good(i - 1)
        PROVE  Good(i)
    <2>1. i - 1 \in Nat /\ i \in Nat /\ i \in DOMAIN args /\ args[i] \in Arguments
      BY <1>1
    <2>2. \/ PutBehind(g[i - 1], g[i], args[i])
          \/ g[i] = g[i - 1] /\ g[i - 1].len + Room(args[i]) >= kSmallBuffer
      BY <1>4, <1>6, <2>1, PutOne
    <2>3. PieceOf(args[i]) \in P
      BY <2>1
    <2>4. \A j \in DOMAIN args : Room(args[j]) \in Nat
      <3>1. \A arg \in Arguments : Room(arg) \in Nat
        BY BufferAssumption DEF Room, Arguments, Numbers
      <3> QED
        BY <3>1
    <2> HIDE DEF P
    <2>5. CASE g[i] = g[i - 1] /\ g[i - 1].len + Room(args[i]) >= kSmallBuffer
      <3>1. ~Kept(i)
        <4>1. i \in 1 .. i /\ ~(g[i].len + Room(args[i]) < kSmallBuffer)
          <5>1. g[i - 1].len \in Nat /\ Room(args[i]) \in Nat
            BY <1>6, <2>1, <2>4
          <5> QED
            BY <2>1, <2>5, <5>1, BufferAssumption
        <4> QED
          BY <4>1
      <3> QED
        BY <1>6, <2>5, <3>1
    <2>6. CASE PutBehind(g[i - 1], g[i], args[i])
      <3>1. g[i].len \in Nat /\ g[i - 1].len <= g[i].len /\ g[i].top \in Nat /\ g[i].top <= kSmallBuffer
        BY <2>6 DEF PutBehind
      <3>2. g[i].pieces = Append(g[i - 1].pieces, PieceOf(args[i]))
        BY <2>6 DEF PutBehind
      <3>3. g[i].pieces \in Seq(P)
        BY <1>6, <2>3, <3>2
      <3>4. ASSUME Kept(i)
            PROVE  /\ Len(g[i].pieces) = i
                   /\ \A j \in 1 .. i : g[i].pieces[j] = PieceOf(args[j])
        <4>1. Kept(i - 1)
          <5> SUFFICES ASSUME NEW j \in 1 .. i - 1
                       PROVE  g[i - 1].len + Room(args[j]) < kSmallBuffer
            OBVIOUS
          <5>1. j \in 1 .. i /\ Room(args[j]) \in Nat
            BY <1>1, <2>1, <2>4
          <5>2. g[i].len + Room(args[j]) < kSmallBuffer
            BY <3>4, <5>1
          <5>3. g[i - 1].len \in Nat
            BY <1>6
          <5> QED
            BY <3>1, <5>1, <5>2, <5>3, BufferAssumption
        <4>2. /\ Len(g[i - 1].pieces) = i - 1
              /\ \A j \in 1 .. i - 1 : g[i - 1].pieces[j] = PieceOf(args[j])
          BY <1>6, <4>1
        <4>3. g[i - 1].pieces \in Seq(P)
          BY <1>6
        <4> QED
          BY <2>1, <2>3, <3>2, <4>2, <4>3
      <3> QED
        BY <3>1, <3>3, <3>4
    <2> QED
      BY <2>2, <2>5, <2>6
  <1>7. \A i \in 0 .. n : Good(i)
    <2> DEFINE T == {k \in 0 .. n : ~Good(k)}
    <2>1. ASSUME T # {} PROVE FALSE
      <3>1. T \in SUBSET Nat
        BY <1>1
      <3>2. PICK k \in T : \A l \in T : k <= l
        <4> HIDE DEF T
        <4> QED
          BY <2>1, <3>1, NatMin
      <3>3. k \in 0 .. n /\ ~Good(k)
        BY <3>2
      <3> HIDE DEF Good
      <3>4. k \in 1 .. n /\ k - 1 \in 0 .. n /\ k - 1 < k /\ k \in Nat
        BY <1>1, <1>5, <3>3
      <3>5. k - 1 \notin T
        <4> HIDE DEF T
        <4> QED
          BY <3>2, <3>4
      <3> QED
        BY <1>6, <3>3, <3>4, <3>5
    <2> QED
      BY <2>1
  <1>8. Good(n)
    <2>1. n \in 0 .. n
      BY <1>1
    <2> HIDE DEF Good
    <2> QED
      BY <1>7, <2>1
  <1> HIDE DEF P
  <1> QED
    BY <1>1, <1>3, <1>8


(* The arguments of a line, those of the prefix and of finish included.    *)
LineArgs(s) == Prefix(s.level) \o s.args \o finish

LEMMA StringArgument ==
  ASSUME NEW text \in Texts, NEW size \in Nat
  PROVE  String(text, size) \in Arguments /\ Fits(String(text, size))
  BY DEF String, Arguments, Fits, Numbers

LEMMA PrefixArgs ==
  ASSUME NEW level
  PROVE  /\ Prefix(level) \in Seq(Arguments)
         /\ \A i \in DOMAIN Prefix(level) : Fits(Prefix(level)[i])
  <1> DEFINE C == {arg \in Arguments : Fits(arg)}
  <1>1. \A text \in Texts, size \in Nat : String(text, size) \in C
    BY StringArgument
  <1>2. [type |-> "char"] \in C
    BY DEF Arguments, Fits, Numbers
  <1>3. /\ String("time", 19) \in C /\ String("tid", 6) \in C
        /\ String("level", 6) \in C /\ String("func", 4) \in C
        /\ String("microseconds", IF g_logTimeZone = Invalid THEN 9 ELSE 8) \in C
    BY <1>1 DEF Texts
  <1> HIDE DEF C
  <1>4. Prefix(level) \in Seq(C)
    BY <1>2, <1>3 DEF Prefix
  <1>5. \A i \in DOMAIN Prefix(level) : Prefix(level)[i] \in C
    BY <1>4
  <1>6. Seq(C) \subseteq Seq(Arguments)
    BY DEF C
  <1> QED
    BY <1>4, <1>5, <1>6 DEF C

LEMMA FinishArgs ==
  ASSUME NEW s \in Statements
  PROVE  finish \in Seq(Arguments) /\ \A i \in DOMAIN finish : Fits(finish[i])
  <1>1. finish \in Seq(Arguments)
    <2>1. \A text \in Texts, size \in Nat : String(text, size) \in Arguments
      BY StringArgument
    <2>2. [type |-> "integer", value |-> 42] \in Arguments
      BY DEF Arguments
    <2>3. /\ String(" - ", 3) \in Arguments /\ String("basename", BasenameSize) \in Arguments
          /\ String(":", 1) \in Arguments /\ String("newline", 1) \in Arguments
      BY <2>1, BoundsAssumption DEF Texts
    <2>4. ASSUME NEW C, NEW a \in C, NEW b \in C, NEW c \in C, NEW d \in C, NEW e \in C
          PROVE  <<a, b, c, d, e>> \in Seq(C)
      OBVIOUS
    <2> QED
      BY <2>2, <2>3, <2>4 DEF finish
  <1>2. \A i \in DOMAIN finish : finish[i] \in Range(finish)
    BY DEF Range
  <1>3. \A arg \in Range(finish) : Fits(arg)
    BY StatementsAssumption DEF Fits
  <1> QED
    BY <1>1, <1>2, <1>3

LEMMA LineArgsType ==
  ASSUME NEW s \in Statements
  PROVE  LineArgs(s) \in Seq(Arguments) /\ \A i \in DOMAIN LineArgs(s) : Fits(LineArgs(s)[i])
  <1> DEFINE C == {arg \in Arguments : Fits(arg)}
  <1>1. ASSUME NEW q \in Seq(Arguments), \A i \in DOMAIN q : Fits(q[i])
        PROVE  q \in Seq(C)
    BY <1>1
  <1>2. Prefix(s.level) \in Seq(C)
    BY <1>1, PrefixArgs
  <1>3. finish \in Seq(C)
    BY <1>1, FinishArgs
  <1>4. s.args \in Seq(C)
    <2>1. s.args \in Seq(Arguments)
      BY StatementsAssumption
    <2>2. \A i \in DOMAIN s.args : s.args[i] \in Range(s.args)
      BY DEF Range
    <2>3. \A i \in DOMAIN s.args : Fits(s.args[i])
      BY <2>2, StatementsAssumption DEF Fits
    <2> QED
      BY <1>1, <2>1, <2>3
  <1> HIDE DEF C
  <1>5. LineArgs(s) \in Seq(C)
    BY <1>2, <1>3, <1>4 DEF LineArgs
  <1>6. \A i \in DOMAIN LineArgs(s) : LineArgs(s)[i] \in C
    BY <1>5
  <1>7. Seq(C) \subseteq Seq(Arguments)
    BY DEF C
  <1> QED
    BY <1>5, <1>6, <1>7 DEF C

-----------------------------------------------------------------------------
(* The inductive invariant, part by part.                                  *)

Calls == {"none", "append", "write", "roll", "flush"}
Line == [by : Threads, k : Nat, len : Nat]
Part == [line : Line, from : Int, bytes : Nat, pos : Int, at : Int]
File == [name : Int, text : Seq(Part), writtenBytes : Int, onDisk : Nat]

(* A Logger is constructed for a statement of the program while its thread *)
(* executes no other one.                                                  *)
Constructed ==
  /\ DOMAIN impl = Threads
  /\ \A t \in Threads : impl[t] # NoStatement =>
       /\ stmt[t] = NoStatement
       /\ \E s \in Statements, second \in Int, dated \in BOOLEAN :
            impl[t] = [level |-> s.level, args |-> s.args, second |-> second, dated |-> dated]

TypeOK ==
  /\ now \in Int /\ lastRoll_ \in Int /\ lastFlush_ \in Int /\ startOfPeriod_ \in Int
  /\ count_ \in 0 .. checkEveryN_ - 1
  /\ files \in Seq(File) /\ files # <<>>
  /\ mutex_ \in Threads \cup {NoOne}
  /\ call \in [Threads -> Calls]
  /\ line \in [Threads -> Line \cup {NoOne}]
  /\ remain \in [Threads -> Nat]
  /\ count \in [Threads -> Nat]
  /\ DOMAIN stmt = Threads /\ Constructed
  /\ flushed \in SUBSET Threads /\ aborted \in Threads \cup {NoOne}

(* What each thread is about: one of them at most is between its first     *)
(* write and the end of append, and line is that of its last statement.    *)
Control ==
  \A t \in Threads :
    /\ call[t] \in {"write", "roll"} <=> mutex_ = t
    /\ call[t] # "none" => stmt[t] # NoStatement
    /\ stmt[t] # NoStatement => count[t] > 0
    /\ call[t] \in {"none", "roll", "flush"} => remain[t] = 0
    /\ call[t] = "append" => remain[t] = line[t].len
    /\ count[t] > 0 => line[t] \in Line /\ line[t].by = t /\ line[t].k = count[t]

(* No part is of a line that is still to come. *)
Known(h, cnt, ln, cl) ==
  \A f \in DOMAIN h : \A i \in DOMAIN h[f].text :
    LET l == h[f].text[i].line
    IN  /\ l.k <= cnt[l.by]
        /\ l.k = cnt[l.by] => l = ln[l.by] /\ cl[l.by] # "append"

(* A line that is being written is the last one. *)
Begun(text, ln, rm, cl) ==
  \A t \in Threads : cl[t] = "write" =>
    /\ text # <<>> /\ Last(text).line = ln[t]
    /\ Last(text).from + Last(text).bytes + rm[t] = ln[t].len

(* The three parts of WholeLines. *)
Joined(h) ==
  \A f, g \in DOMAIN h : \A i \in DOMAIN h[f].text, j \in DOMAIN h[g].text :
    h[f].text[i].line = h[g].text[j].line =>
      f = g /\ \A m \in i .. j : h[f].text[m].line = h[f].text[i].line

Ordered(h) ==
  \A f, g \in DOMAIN h : \A i \in DOMAIN h[f].text, j \in DOMAIN h[g].text :
    (f < g \/ (f = g /\ i < j)) /\ h[f].text[i].line.by = h[g].text[j].line.by =>
      h[f].text[i].line.k <= h[g].text[j].line.k

Remaining(l, ln, rm) == IF ln[l.by] = l THEN rm[l.by] ELSE 0

Continued(text, ln, rm) ==
  \A i \in DOMAIN text :
    /\ text[i].from = IF Begins(text, i) THEN 0 ELSE text[i - 1].from + text[i - 1].bytes
    /\ Ends(text, i) =>
         text[i].from + text[i].bytes = text[i].line.len - Remaining(text[i].line, ln, rm)

LinesInv ==
  /\ Known(files, count, line, call)
  /\ Begun(file.text, line, remain, call)
  /\ Joined(files) /\ Ordered(files)
  /\ \A f \in DOMAIN files : Continued(files[f].text, line, remain)

(* The clock, and the names of the files. *)
Clock ==
  /\ startOfPeriod_ = StartOfPeriod(lastRoll_)
  /\ file.name = lastRoll_ /\ lastRoll_ <= lastFlush_ /\ lastFlush_ <= now

Named(h) == \A f, g \in DOMAIN h : f < g => h[f].name < h[g].name

Timed(f, time) == \A i \in DOMAIN f.text : f.name <= f.text[i].at /\ f.text[i].at <= time

(* A line begins beyond rollSize_ only behind one of the first second. *)
Sized(f) ==
  \A i \in DOMAIN f.text :
    Begins(f.text, i) /\ f.text[i].pos > rollSize_ => i # 1 /\ f.text[i - 1].at = f.name

(* writtenBytes_ lags behind by what is written of a line. *)
Counted(f, ln, rm, cl, m) ==
  /\ m = NoOne =>
       /\ f.writtenBytes = Size(f.text)
       /\ Size(f.text) > rollSize_ => f.text # <<>> /\ Last(f.text).at = f.name
  /\ \A t \in Threads :
       /\ cl[t] = "write" => f.writtenBytes + (ln[t].len - rm[t]) = Size(f.text)
       /\ cl[t] = "roll" => f.writtenBytes = Size(f.text)

(* How many lines there may be of some kind, of the current file, given    *)
(* how many may be counted.                                                *)
Allowed(n, m, c, cl) ==
  /\ m = NoOne => n <= c
  /\ \A t \in Threads : cl[t] = "write" => n <= c + 1

FilesInv ==
  /\ Named(files)
  /\ \A f \in DOMAIN files : Timed(files[f], now) /\ Sized(files[f])
  /\ \A f \in DOMAIN files : Cardinality(Late(files[f])) <= checkEveryN_

RollInv ==
  /\ Clock /\ FilesInv
  /\ Counted(file, line, remain, call, mutex_)
  /\ Allowed(Cardinality(Late(file)), mutex_, count_, call)

(* What is not on the disk is not older than the last flush. *)
Recent(f, time) == \A i \in DOMAIN f.text : i > f.onDisk => f.text[i].at >= time

FlushInv ==
  /\ Recent(file, lastFlush_)
  /\ Allowed(Cardinality(WaitingAfter(file, lastFlush_ + flushInterval_)), mutex_, count_, call)

(* A file that was closed is on the disk. *)
Closed(h) ==
  \A f \in DOMAIN h :
    h[f].onDisk <= Len(h[f].text) /\ (f < Len(h) => h[f].onDisk = Len(h[f].text))

(* A thread's line is in a file from its first write on; when the thread   *)
(* has flushed, all of it is on the disk.                                  *)
There(h, l) == \E f \in DOMAIN h : \E i \in DOMAIN h[f].text : h[f].text[i].line = l

Saved(h, t, n) ==
  \A f \in DOMAIN h : \A i \in DOMAIN h[f].text :
    h[f].text[i].line.by = t /\ h[f].text[i].line.k = n => i <= h[f].onDisk

FatalInv ==
  /\ Closed(files)
  /\ \A t \in Threads : count[t] > 0 /\ call[t] # "append" => There(files, line[t])
  /\ \A t \in flushed :
       /\ stmt[t] # NoStatement /\ call[t] \in {"none", "flush"}
       /\ call[t] = "none" => Saved(files, t, count[t])
  /\ aborted # NoOne => aborted \in flushed /\ call[aborted] = "none"

-----------------------------------------------------------------------------
(* What the actions do, with their definitions expanded.                   *)

SameFile == UNCHANGED <<now, files, count_, startOfPeriod_, lastRoll_, lastFlush_, mutex_>>

(* A function of the threads has another value for one of them. *)
Sets(f, g, t, value) == g[t] = value /\ \A u \in Threads : u # t => g[u] = f[u]

LEMMA ExceptSets ==
  ASSUME NEW f, DOMAIN f = Threads, NEW t \in Threads, NEW value
  PROVE  Sets(f, [f EXCEPT ![t] = value], t, value)
  BY DEF Sets

LEMMA ExceptFunction ==
  ASSUME NEW h, NEW a, NEW b
  PROVE  [h EXCEPT ![a] = b] = [x \in DOMAIN h |-> [h EXCEPT ![a] = b][x]]
  OBVIOUS

LEMMA AppendFunction ==
  ASSUME NEW S, NEW h \in Seq(S), NEW b
  PROVE  Append(h, b) = [i \in 1 .. Len(h) + 1 |-> Append(h, b)[i]]
  <1>1. \A T : \A q \in Seq(T) : q = [i \in 1 .. Len(q) |-> q[i]]
    OBVIOUS
  <1>2. Append(h, b) \in Seq(S \cup {b}) /\ Len(Append(h, b)) = Len(h) + 1
    OBVIOUS
  <1> QED
    BY <1>1, <1>2, Zenon

LEMMA NoneOfThreads == NoOne \notin Threads
  BY LogFileAssumption

LEMMA LastFile ==
  ASSUME TypeOK
  PROVE  /\ Len(files) \in Nat \ {0} /\ Len(files) \in DOMAIN files
         /\ DOMAIN files = 1 .. Len(files)
         /\ file = files[Len(files)] /\ file \in File
         /\ \A f \in DOMAIN files : files[f] \in File
  BY DEF TypeOK, file, Last

LEMMA StatementEffect ==
  ASSUME TypeOK, NEW t \in Threads, Statement(t)
  PROVE  /\ aborted = NoOne /\ stmt[t] = NoStatement
         /\ DOMAIN stmt' = Threads /\ stmt'[t] # NoStatement
         /\ \A u \in Threads : u # t => stmt'[u] = stmt[u]
         /\ count' = [count EXCEPT ![t] = count[t] + 1]
         /\ call' = [call EXCEPT ![t] = "append"]
         /\ \E n \in Nat :
              /\ line' = [line EXCEPT ![t] = [by |-> t, k |-> count[t] + 1, len |-> n]]
              /\ remain' = [remain EXCEPT ![t] = n]
         /\ SameFile /\ UNCHANGED <<flushed, aborted>>
         /\ \E s \in Statements :
              stmt' = [stmt EXCEPT ![t] =
                        [level |-> s.level, args |-> LineArgs(s),
                         buffer |-> PutAll(EmptyBuffer, LineArgs(s)),
                         second |-> impl[t].second, stamp |-> t_time[t], zone |-> g_logTimeZone]]
  <1>1. PICK s \in Statements : impl[t].level = s.level /\ impl[t].args = s.args
    <2>1. impl[t] # NoStatement
      BY Zenon DEF Statement
    <2>2. PICK s \in Statements, second \in Int, dated \in BOOLEAN :
            impl[t] = [level |-> s.level, args |-> s.args, second |-> second, dated |-> dated]
      BY <2>1 DEF TypeOK, Constructed
    <2> QED
      BY <2>2
  <1> DEFINE args == LineArgs(s)
             buffer == PutAll(EmptyBuffer, args)
             st == [level |-> s.level, args |-> args, buffer |-> buffer,
                    second |-> impl[t].second, stamp |-> t_time[t], zone |-> g_logTimeZone]
  <1>2. Prefix(impl[t].level) \o impl[t].args \o finish = args
    BY <1>1, Zenon DEF LineArgs
  <1>3. /\ aborted = NoOne /\ impl[t] # NoStatement
        /\ count' = [count EXCEPT ![t] = @ + 1]
        /\ stmt' = [stmt EXCEPT ![t] = st]
        /\ line' = [line EXCEPT ![t] = [by |-> t, k |-> count'[t], len |-> buffer.len]]
        /\ remain' = [remain EXCEPT ![t] = buffer.len]
        /\ call' = [call EXCEPT ![t] = "append"]
        /\ UNCHANGED <<now, files, count_, startOfPeriod_, lastRoll_, lastFlush_, mutex_,
                       flushed, aborted>>
    BY <1>1, <1>2, Zenon DEF Statement
  <1>4. buffer.len \in Nat
    BY LineArgsType, PutAllRight
  <1>5. st # NoStatement
    <2>1. st.level = s.level
      OBVIOUS
    <2>2. s.level # "none"
      BY StatementsAssumption DEF Levels
    <2> HIDE DEF st
    <2> QED
      BY <2>1, <2>2 DEF NoStatement
  <1>6. stmt' = [stmt EXCEPT ![t] =
                  [level |-> s.level, args |-> LineArgs(s),
                   buffer |-> PutAll(EmptyBuffer, LineArgs(s)),
                   second |-> impl[t].second, stamp |-> t_time[t], zone |-> g_logTimeZone]]
    BY <1>3, Zenon
  <1> HIDE DEF args, st
  <1>7. count' = [count EXCEPT ![t] = count[t] + 1] /\ count'[t] = count[t] + 1
    BY <1>3 DEF TypeOK
  <1>8. /\ line' = [line EXCEPT ![t] = [by |-> t, k |-> count[t] + 1, len |-> buffer.len]]
        /\ remain' = [remain EXCEPT ![t] = buffer.len]
    BY <1>3, <1>7, Zenon
  <1> HIDE DEF buffer
  <1>9. /\ DOMAIN stmt' = Threads /\ stmt'[t] # NoStatement
        /\ \A u \in Threads : u # t => stmt'[u] = stmt[u]
    BY <1>3, <1>5 DEF TypeOK
  <1>10. stmt[t] = NoStatement
    BY <1>3, Zenon DEF TypeOK, Constructed
  <1>11. /\ aborted = NoOne /\ call' = [call EXCEPT ![t] = "append"]
         /\ SameFile /\ UNCHANGED <<flushed, aborted>>
    BY <1>3, Zenon DEF SameFile
  <1>12. \E n \in Nat :
           /\ line' = [line EXCEPT ![t] = [by |-> t, k |-> count[t] + 1, len |-> n]]
           /\ remain' = [remain EXCEPT ![t] = n]
    BY <1>4, <1>8, Zenon
  <1>13. \E r \in Statements :
           stmt' = [stmt EXCEPT ![t] =
                     [level |-> r.level, args |-> LineArgs(r),
                      buffer |-> PutAll(EmptyBuffer, LineArgs(r)),
                      second |-> impl[t].second, stamp |-> t_time[t], zone |-> g_logTimeZone]]
    BY <1>6, Zenon
  <1> QED
    BY <1>7, <1>9, <1>10, <1>11, <1>12, <1>13, Zenon

(* A part of thread t's line is written, behind everything.                *)
PartWritten(t, part) ==
  /\ part \in Part /\ part.line = line[t] /\ part.from = line[t].len - remain[t]
  /\ part.pos = Size(file.text) /\ part.at = now
  /\ remain[t] - part.bytes \in Nat
  /\ remain' = [remain EXCEPT ![t] = remain[t] - part.bytes]
  /\ Len(files') = Len(files) /\ DOMAIN files' = DOMAIN files
  /\ files' = [f \in DOMAIN files |-> files'[f]]
  /\ \A f \in DOMAIN files : f # Len(files) => files'[f] = files[f]
  /\ files'[Len(files)] = [file EXCEPT !.text = Append(file.text, part)]

LEMMA SizeType ==
  ASSUME NEW text \in Seq(Part)
  PROVE  Size(text) \in Int
  <1>1. CASE text = <<>>
    BY <1>1 DEF Size
  <1>2. CASE text # <<>>
    <2>1. Last(text) \in Part
      BY <1>2 DEF Last
    <2> QED
      BY <1>2, <2>1 DEF Size, Part
  <1> QED
    BY <1>1, <1>2

LEMMA WriteEffect ==
  ASSUME TypeOK, Control, NEW t \in Threads, AppendWrite(t)
  PROVE  /\ \E part \in Part : PartWritten(t, part)
         /\ \/ call[t] = "append" /\ mutex_ = NoOne
            \/ call[t] = "write" /\ mutex_ = t
         /\ mutex_' = t /\ call' = [call EXCEPT ![t] = "write"]
         /\ UNCHANGED <<now, count_, startOfPeriod_, lastRoll_, lastFlush_, line>>
  <1>1. call \in [Threads -> Calls] /\ remain \in [Threads -> Nat] /\ now \in Int
    BY DEF TypeOK
  <1>2. /\ \/ call[t] = "append" /\ mutex_ = NoOne
           \/ call[t] = "write" /\ mutex_ = t
        /\ mutex_' = t /\ call' = [call EXCEPT ![t] = "write"]
    <2>1. CASE call[t] = "append" /\ Lock(t, "write")
      BY <2>1 DEF Lock
    <2>2. CASE call[t] = "write" /\ remain[t] > 0 /\ UNCHANGED <<mutex_, call>>
      <3>1. mutex_ = t
        BY <2>2 DEF Control
      <3>2. call = [call EXCEPT ![t] = "write"]
        BY <1>1, <2>2
      <3> QED
        BY <2>2, <3>1, <3>2
    <2> QED
      BY <2>1, <2>2 DEF AppendWrite
  <1>3. UNCHANGED <<now, count_, startOfPeriod_, lastRoll_, lastFlush_, line>>
    BY DEF AppendWrite
  <1>4. line[t] \in Line
    BY <1>2 DEF Control
  <1>5. \E part \in Part : PartWritten(t, part)
    <2>1. PICK n \in {remain[t]} \cup {m \in ShortWrites : m < remain[t]} :
            /\ files' = WithFile([file EXCEPT !.text =
                 Append(@, [line |-> line[t], from |-> line[t].len - remain[t], bytes |-> n,
                            pos |-> Size(@), at |-> now])])
            /\ remain' = [remain EXCEPT ![t] = @ - n]
      BY Zenon DEF AppendWrite
    <2>2. n \in Nat /\ remain[t] - n \in Nat
      BY <1>1, LogFileAssumption
    <2>3. file \in File /\ file.text \in Seq(Part)
      BY LastFile DEF File
    <2> DEFINE part == [line |-> line[t], from |-> line[t].len - remain[t], bytes |-> n,
                        pos |-> Size(file.text), at |-> now]
    <2>4. part \in Part
      <3>1. line[t].len - remain[t] \in Int
        BY <1>1, <1>4 DEF Line
      <3>2. Size(file.text) \in Int
        BY <2>3, SizeType
      <3> QED
        BY <1>1, <1>4, <2>2, <3>1, <3>2 DEF Part
    <2>5. /\ part.line = line[t] /\ part.from = line[t].len - remain[t] /\ part.bytes = n
          /\ part.pos = Size(file.text) /\ part.at = now
      OBVIOUS
    <2>6. files' = [files EXCEPT ![Len(files)] = [file EXCEPT !.text = Append(file.text, part)]]
      BY <2>1, <2>3 DEF WithFile, File
    <2> HIDE DEF part
    <2>7. remain' = [remain EXCEPT ![t] = remain[t] - part.bytes]
      BY <1>1, <2>1, <2>5
    <2>8. /\ Len(files') = Len(files) /\ DOMAIN files' = DOMAIN files
          /\ \A f \in DOMAIN files : f # Len(files) => files'[f] = files[f]
          /\ files'[Len(files)] = [file EXCEPT !.text = Append(file.text, part)]
      BY <2>6, LastFile DEF TypeOK
    <2>9. files' = [f \in DOMAIN files |-> files'[f]]
      BY <2>6, ExceptFunction
    <2> QED
      BY <2>2, <2>4, <2>5, <2>7, <2>8, <2>9 DEF PartWritten
  <1> QED
    BY <1>2, <1>3, <1>5


(* The current file is written out, or its counter is brought up to date;  *)
(* what is in it stays.                                                    *)
Touched(written, disk) ==
  /\ Len(files') = Len(files) /\ DOMAIN files' = DOMAIN files
  /\ files' = [f \in DOMAIN files |-> files'[f]]
  /\ \A f \in DOMAIN files : f # Len(files) => files'[f] = files[f]
  /\ files'[Len(files)] = [file EXCEPT !.writtenBytes = written, !.onDisk = disk]

LEMMA TouchedIs ==
  ASSUME TypeOK, NEW g, NEW written, NEW disk, files' = WithFile(g),
         g = [file EXCEPT !.writtenBytes = written, !.onDisk = disk]
  PROVE  Touched(written, disk)
  <1>1. files' = [files EXCEPT ![Len(files)] = g]
    BY DEF WithFile
  <1>2. files' = [f \in DOMAIN files |-> files'[f]]
    BY <1>1, ExceptFunction
  <1>3. /\ Len(files') = Len(files) /\ DOMAIN files' = DOMAIN files
        /\ \A f \in DOMAIN files : f # Len(files) => files'[f] = files[f]
        /\ files'[Len(files)] = g
    BY <1>1, LastFile DEF TypeOK
  <1> QED
    BY <1>2, <1>3 DEF Touched

InAll(t) == file.writtenBytes + line[t].len

Unlocks(t) == mutex_' = NoOne /\ call' = [call EXCEPT ![t] = "none"]

(* The three ways in which append ends. *)
CountsOn(t) ==
  /\ Touched(InAll(t), file.onDisk) /\ InAll(t) <= rollSize_
  /\ count_ + 1 < checkEveryN_ /\ count_' = count_ + 1
  /\ Unlocks(t) /\ UNCHANGED lastFlush_

RollsNext(t) ==
  /\ Touched(InAll(t), file.onDisk)
  /\ count_' \in {0, count_}
  /\ call' = [call EXCEPT ![t] = "roll"] /\ UNCHANGED <<mutex_, lastFlush_>>

Checks(t) ==
  /\ InAll(t) <= rollSize_ /\ count_' = 0 /\ ~NewDay /\ Unlocks(t)
  /\ \/ FlushDue /\ Touched(InAll(t), Len(file.text)) /\ lastFlush_' = now
     \/ ~FlushDue /\ Touched(InAll(t), file.onDisk) /\ UNCHANGED lastFlush_

LEMMA EndEffect ==
  ASSUME TypeOK, Control, NEW t \in Threads,
         AppendOversize(t) \/ AppendCount(t) \/ AppendCheck(t)
  PROVE  /\ call[t] = "write" /\ remain[t] = 0 /\ mutex_ = t
         /\ CountsOn(t) \/ RollsNext(t) \/ Checks(t)
         /\ UNCHANGED <<now, startOfPeriod_, lastRoll_, line, remain>>
  <1>1. call[t] = "write" /\ remain[t] = 0
    BY DEF AppendOversize, AppendCount, AppendCheck, AllWritten
  <1>2. mutex_ = t
    BY <1>1 DEF Control
  <1>3. UNCHANGED <<now, startOfPeriod_, lastRoll_, line, remain>>
    BY DEF AppendOversize, AppendCount, AppendCheck
  <1>4. file \in File
    BY LastFile
  <1>5. /\ Written(t).writtenBytes = InAll(t)
        /\ Written(t) = [file EXCEPT !.writtenBytes = InAll(t), !.onDisk = file.onDisk]
        /\ Flushed(Written(t)) = [file EXCEPT !.writtenBytes = InAll(t), !.onDisk = Len(file.text)]
    BY <1>4 DEF Written, InAll, Flushed, File
  <1>6. files' = WithFile(Written(t)) => Touched(InAll(t), file.onDisk)
    BY <1>5, TouchedIs
  <1>7. files' = WithFile(Flushed(Written(t))) => Touched(InAll(t), Len(file.text))
    BY <1>5, TouchedIs
  <1>8. ASSUME AppendOversize(t) PROVE RollsNext(t)
    BY <1>6, <1>8 DEF AppendOversize, RollsNext
  <1>9. ASSUME AppendCount(t) PROVE CountsOn(t)
    BY <1>5, <1>6, <1>9 DEF AppendCount, CountsOn, Unlock, Unlocks
  <1>10. ASSUME AppendCheck(t) PROVE RollsNext(t) \/ Checks(t)
    <2>1. InAll(t) <= rollSize_ /\ count_' = 0
      BY <1>5, <1>10 DEF AppendCheck
    <2>2. CASE /\ NewDay /\ files' = WithFile(Written(t))
               /\ call' = [call EXCEPT ![t] = "roll"] /\ UNCHANGED <<lastFlush_, mutex_>>
      BY <1>6, <2>1, <2>2 DEF RollsNext
    <2>3. CASE /\ ~NewDay /\ FlushDue
               /\ files' = WithFile(Flushed(Written(t)))
               /\ lastFlush_' = now /\ Unlock(t)
      BY <1>7, <2>1, <2>3 DEF Checks, Unlock, Unlocks
    <2>4. CASE /\ ~NewDay /\ ~FlushDue
               /\ files' = WithFile(Written(t))
               /\ Unlock(t) /\ UNCHANGED lastFlush_
      BY <1>6, <2>1, <2>4 DEF Checks, Unlock, Unlocks
    <2> QED
      BY <1>10, <2>2, <2>3, <2>4, Zenon DEF AppendCheck
  <1> QED
    BY <1>1, <1>2, <1>3, <1>8, <1>9, <1>10

(* The next file is opened; or it is too early. *)
Opened ==
  /\ now > lastRoll_ /\ lastRoll_' = now /\ lastFlush_' = now
  /\ startOfPeriod_' = StartOfPeriod(now)
  /\ Len(files') = Len(files) + 1 /\ DOMAIN files' = 1 .. Len(files) + 1
  /\ files' = [f \in 1 .. Len(files) + 1 |-> files'[f]]
  /\ \A f \in DOMAIN files : f # Len(files) => files'[f] = files[f]
  /\ files'[Len(files)] = Flushed(file) /\ files'[Len(files) + 1] = NewFile(now)

TooEarly ==
  now <= lastRoll_ /\ UNCHANGED <<lastRoll_, lastFlush_, startOfPeriod_, files>>

LEMMA RollEffect ==
  ASSUME TypeOK, Control, NEW t \in Threads, RollFile(t)
  PROVE  /\ call[t] = "roll" /\ mutex_ = t /\ remain[t] = 0
         /\ Opened \/ TooEarly
         /\ Unlocks(t) /\ UNCHANGED <<now, count_, line, remain>>
  <1>1. call[t] = "roll" /\ Unlocks(t) /\ UNCHANGED <<now, count_, line, remain>>
    BY Zenon DEF RollFile, Unlock, Unlocks
  <1>2. mutex_ = t /\ remain[t] = 0
    BY <1>1 DEF Control
  <1>3. CASE /\ now > lastRoll_ /\ lastRoll_' = now /\ lastFlush_' = now
             /\ startOfPeriod_' = StartOfPeriod(now) /\ files' = Rolled
    <2> DEFINE h == WithFile(Flushed(file))
    <2>1. Flushed(file) \in File
      BY LastFile DEF Flushed, File
    <2>2. /\ h \in Seq(File) /\ Len(h) = Len(files) /\ DOMAIN h = DOMAIN files
          /\ h[Len(files)] = Flushed(file)
          /\ \A f \in DOMAIN files : f # Len(files) => h[f] = files[f]
      BY <2>1, LastFile DEF WithFile, TypeOK
    <2>3. files' = Append(h, NewFile(now))
      BY <1>3 DEF Rolled
    <2> HIDE DEF h
    <2>4. /\ Len(files') = Len(h) + 1 /\ DOMAIN files' = 1 .. Len(h) + 1
          /\ \A f \in 1 .. Len(h) : files'[f] = h[f]
          /\ files'[Len(h) + 1] = NewFile(now)
      BY <2>2, <2>3
    <2>5. /\ Len(files') = Len(files) + 1 /\ DOMAIN files' = 1 .. Len(files) + 1
          /\ \A f \in DOMAIN files : files'[f] = h[f]
          /\ files'[Len(files) + 1] = NewFile(now)
      BY <2>2, <2>4, LastFile
    <2>6. files' = [f \in 1 .. Len(files) + 1 |-> files'[f]]
      BY <2>2, <2>3, AppendFunction
    <2> QED
      BY <1>1, <1>2, <1>3, <2>2, <2>5, <2>6, LastFile DEF Opened
  <1>4. CASE now <= lastRoll_ /\ UNCHANGED <<lastRoll_, lastFlush_, startOfPeriod_, files>>
    BY <1>1, <1>2, <1>4 DEF TooEarly
  <1> QED
    BY <1>3, <1>4, Zenon DEF RollFile

LEMMA FlushEffect ==
  ASSUME TypeOK, NEW t \in Threads, Flush(t)
  PROVE  /\ call[t] = "flush" /\ mutex_ = NoOne
         /\ Touched(file.writtenBytes, Len(file.text))
         /\ call' = [call EXCEPT ![t] = "none"]
         /\ UNCHANGED <<now, count_, startOfPeriod_, lastRoll_, lastFlush_, mutex_, line, remain>>
  <1>1. file \in File
    BY LastFile
  <1>2. Flushed(file) = [file EXCEPT !.writtenBytes = file.writtenBytes, !.onDisk = Len(file.text)]
    BY <1>1 DEF Flushed, File
  <1>3. Touched(file.writtenBytes, Len(file.text))
    BY <1>2, TouchedIs DEF Flush
  <1> QED
    BY <1>3 DEF Flush


LEMMA InLogFileEffect ==
  ASSUME TypeOK, NEW t \in Threads, InLogFile(t)
  PROVE  /\ aborted = NoOne /\ LogFileStep(t) /\ DOMAIN stmt' = Threads
         /\ \A u \in Threads : \/ stmt'[u] = stmt[u]
                               \/ u = t /\ call[t] # "flush" /\ call'[t] = "none"
         /\ UNCHANGED <<count, flushed, aborted>>
  <1>1. /\ aborted = NoOne /\ LogFileStep(t)
        /\ UNCHANGED <<count, flushed, aborted>>
        /\ \/ stmt' = stmt
           \/ /\ stmt' = [stmt EXCEPT ![t] = NoStatement]
              /\ call[t] # "flush" /\ call'[t] = "none"
    BY Zenon DEF InLogFile
  <1> HIDE DEF LogFileStep
  <1>2. DOMAIN stmt = Threads
    BY DEF TypeOK
  <1>3. CASE stmt' = stmt
    BY <1>1, <1>2, <1>3
  <1>4. CASE /\ stmt' = [stmt EXCEPT ![t] = NoStatement]
             /\ call[t] # "flush" /\ call'[t] = "none"
    BY <1>1, <1>2, <1>4
  <1> QED
    BY <1>1, <1>3, <1>4

(* What else happens, or nothing. *)
Quiet ==
  \/ \E t \in Threads : Construct(t) \/ FormatTime(t) \/ CallFlush(t) \/ Abort(t)
  \/ SetTimeZone \/ Tick \/ UNCHANGED vars

LEMMA QuietEffect ==
  ASSUME TypeOK, Quiet
  PROVE  /\ UNCHANGED <<files, count_, startOfPeriod_, lastRoll_, lastFlush_, mutex_, line,
                        remain, count, stmt>>
         /\ now' \in Int /\ now <= now'
         /\ call' \in [Threads -> Calls]
         /\ \A u \in Threads : \/ call'[u] = call[u]
                               \/ call[u] = "none" /\ call'[u] = "flush" /\ stmt[u] # NoStatement
  <1>1. now \in Int /\ call \in [Threads -> Calls]
    BY DEF TypeOK
  <1>2. ASSUME NEW t \in Threads, CallFlush(t)
        PROVE  /\ UNCHANGED <<now, files, count_, startOfPeriod_, lastRoll_, lastFlush_, mutex_,
                              line, remain, count, stmt>>
               /\ call' = [call EXCEPT ![t] = "flush"]
               /\ call[t] = "none" /\ stmt[t] # NoStatement
    BY <1>2 DEF CallFlush, Fatal
  <1>3. ASSUME NEW t \in Threads, Abort(t)
        PROVE  UNCHANGED <<now, files, count_, startOfPeriod_, lastRoll_, lastFlush_, mutex_,
                           call, line, remain, count, stmt>>
    BY <1>3 DEF Abort, fileVars
  <1>8. ASSUME NEW t \in Threads, Construct(t) \/ FormatTime(t)
        PROVE  UNCHANGED <<now, files, count_, startOfPeriod_, lastRoll_, lastFlush_, mutex_,
                           call, line, remain, count, stmt>>
    BY <1>8, Zenon DEF Construct, FormatTime, fileVars
  <1>4. CASE SetTimeZone
    BY <1>1, <1>4 DEF SetTimeZone, fileVars
  <1>5. CASE Tick
    BY <1>1, <1>5 DEF Tick, Advance, loggerVars
  <1>6. CASE UNCHANGED vars
    BY <1>1, <1>6 DEF vars, fileVars, loggerVars
  <1>7. ASSUME NEW t \in Threads, CallFlush(t)
        PROVE  /\ call' \in [Threads -> Calls]
               /\ \A u \in Threads :
                    \/ call'[u] = call[u]
                    \/ call[u] = "none" /\ call'[u] = "flush" /\ stmt[u] # NoStatement
    BY <1>1, <1>2, <1>7 DEF Calls
  <1> QED
    BY <1>1, <1>2, <1>3, <1>4, <1>5, <1>6, <1>7, <1>8 DEF Quiet

LEMMA StepCases ==
  ASSUME [Next]_vars
  PROVE  (\E t \in Threads : Statement(t) \/ InLogFile(t)) \/ Quiet
  BY Zenon DEF Next, Quiet

-----------------------------------------------------------------------------
(* Types and control.                                                      *)

LEMMA InitType == Init => TypeOK /\ Control
  <1> SUFFICES ASSUME Init PROVE TypeOK /\ Control
    OBVIOUS
  <1>1. /\ now = StartTime /\ files = <<NewFile(StartTime)>> /\ count_ = 0
        /\ startOfPeriod_ = StartOfPeriod(StartTime)
        /\ lastRoll_ = StartTime /\ lastFlush_ = StartTime /\ mutex_ = NoOne
        /\ call = [t \in Threads |-> "none"] /\ line = [t \in Threads |-> NoOne]
        /\ remain = [t \in Threads |-> 0]
        /\ impl = [t \in Threads |-> NoStatement] /\ stmt = [t \in Threads |-> NoStatement]
        /\ count = [t \in Threads |-> 0] /\ flushed = {} /\ aborted = NoOne
    BY DEF Init, LogFileInit
  <1>2. StartOfPeriod(StartTime) \in Int
    BY BoundsAssumption, LogFileAssumption DEF StartOfPeriod
  <1>3. NewFile(StartTime) \in File
    BY BoundsAssumption DEF NewFile, File
  <1>4. TypeOK
    BY <1>1, <1>2, <1>3, BoundsAssumption, LogFileAssumption DEF TypeOK, Constructed, Calls
  <1>5. Control
    BY <1>1, NoneOfThreads DEF Control
  <1> QED
    BY <1>4, <1>5

LEMMA TouchedType ==
  ASSUME TypeOK, NEW written \in Int, NEW disk \in Nat, Touched(written, disk)
  PROVE  files' \in Seq(File) /\ files' # <<>>
  <1>1. files'[Len(files)] \in File
    BY LastFile DEF Touched, File
  <1>2. \A f \in 1 .. Len(files) : files'[f] \in File
    BY <1>1, LastFile DEF Touched
  <1>3. files' = [f \in 1 .. Len(files) |-> files'[f]] /\ Len(files') = Len(files)
    BY LastFile DEF Touched
  <1> QED
    BY <1>2, <1>3, LastFile

LEMMA PartWrittenType ==
  ASSUME TypeOK, NEW t \in Threads, NEW part \in Part, PartWritten(t, part)
  PROVE  files' \in Seq(File) /\ files' # <<>>
  <1>1. files'[Len(files)] \in File
    <2>1. Append(file.text, part) \in Seq(Part)
      BY LastFile DEF File
    <2> QED
      BY <2>1, LastFile DEF PartWritten, File
  <1>2. \A f \in 1 .. Len(files) : files'[f] \in File
    BY <1>1, LastFile DEF PartWritten
  <1>3. files' = [f \in 1 .. Len(files) |-> files'[f]] /\ Len(files') = Len(files)
    BY LastFile DEF PartWritten
  <1> QED
    BY <1>2, <1>3, LastFile

LEMMA OpenedType ==
  ASSUME TypeOK, Opened
  PROVE  files' \in Seq(File) /\ files' # <<>>
  <1>1. Flushed(file) \in File /\ NewFile(now) \in File
    <2>1. Flushed(file) \in File
      BY LastFile DEF Flushed, File
    <2>2. NewFile(now) \in File
      BY DEF NewFile, File, TypeOK
    <2> QED
      BY <2>1, <2>2
  <1>2. \A f \in 1 .. Len(files) + 1 : files'[f] \in File
    BY <1>1, LastFile DEF Opened
  <1>3. files' = [f \in 1 .. Len(files) + 1 |-> files'[f]] /\ Len(files') = Len(files) + 1
    BY Zenon DEF Opened
  <1> QED
    BY <1>2, <1>3, LastFile

LEMMA DatedRecord ==
  ASSUME NEW a, NEW b, NEW c, NEW d, NEW e
  PROVE  [[level |-> a, args |-> b, second |-> c, dated |-> d] EXCEPT !.dated = e] =
           [level |-> a, args |-> b, second |-> c, dated |-> e]
  OBVIOUS

LEMMA ConstructedStep == TypeOK /\ [Next]_vars => Constructed'
  <1> SUFFICES ASSUME TypeOK, [Next]_vars PROVE Constructed'
    OBVIOUS
  <1> DEFINE Made(i) == \E s \in Statements, second \in Int, dated \in BOOLEAN :
               i = [level |-> s.level, args |-> s.args, second |-> second, dated |-> dated]
  <1>1. /\ DOMAIN impl = Threads /\ DOMAIN stmt = Threads /\ now \in Int
        /\ \A t \in Threads : impl[t] # NoStatement => stmt[t] = NoStatement /\ Made(impl[t])
    BY Zenon DEF TypeOK, Constructed
  <1>2. ASSUME DOMAIN impl' = Threads,
               \A t \in Threads : impl'[t] # NoStatement => stmt'[t] = NoStatement /\ Made(impl'[t])
        PROVE  Constructed'
    BY <1>2, Zenon DEF Constructed
  <1> HIDE DEF Made
  <1>3. ASSUME NEW t \in Threads, Statement(t) PROVE Constructed'
    <2>1. impl' = [impl EXCEPT ![t] = NoStatement]
      BY <1>3, Zenon DEF Statement
    <2>2. \A u \in Threads : u # t => stmt'[u] = stmt[u]
      BY <1>3, StatementEffect
    <2> QED
      BY <1>1, <1>2, <2>1, <2>2
  <1>4. ASSUME NEW t \in Threads, InLogFile(t) PROVE Constructed'
    <2>1. impl' = impl /\ (stmt' = stmt \/ stmt' = [stmt EXCEPT ![t] = NoStatement])
      BY <1>4, Zenon DEF InLogFile
    <2>2. \A u \in Threads : stmt'[u] = stmt[u] \/ stmt'[u] = NoStatement
      BY <1>1, <2>1
    <2> QED
      BY <1>1, <1>2, <2>1, <2>2
  <1>5. CASE Quiet
    <2>1. stmt' = stmt
      BY <1>5, QuietEffect
    <2>2. CASE impl' = impl
      BY <1>1, <1>2, <2>1, <2>2
    <2>3. ASSUME NEW t \in Threads, Construct(t) PROVE Constructed'
      <3>1. PICK s \in Statements :
              impl' = [impl EXCEPT ![t] =
                        [level |-> s.level, args |-> s.args, second |-> now, dated |-> FALSE]]
        BY <2>3, Zenon DEF Construct
      <3>2. stmt[t] = NoStatement
        BY <2>3, Zenon DEF Construct
      <3>3. Made([level |-> s.level, args |-> s.args, second |-> now, dated |-> FALSE])
        BY <1>1 DEF Made
      <3> QED
        BY <1>1, <1>2, <2>1, <3>1, <3>2, <3>3
    <2>4. ASSUME NEW t \in Threads, FormatTime(t) PROVE Constructed'
      <3>1. impl' = [impl EXCEPT ![t] = [impl[t] EXCEPT !.dated = TRUE]] /\ impl[t] # NoStatement
        BY <2>4 DEF FormatTime
      <3>2. PICK s \in Statements, second \in Int, dated \in BOOLEAN :
              impl[t] = [level |-> s.level, args |-> s.args, second |-> second, dated |-> dated]
        BY <1>1, <3>1 DEF Made
      <3>3. PICK yes \in BOOLEAN : impl' = [impl EXCEPT ![t] = [impl[t] EXCEPT !.dated = yes]]
        BY <3>1, Zenon
      <3>4. [impl[t] EXCEPT !.dated = yes] =
              [level |-> s.level, args |-> s.args, second |-> second, dated |-> yes]
        BY <3>2, DatedRecord
      <3>5. Made([impl[t] EXCEPT !.dated = yes])
        BY <3>4, Zenon DEF Made
      <3> HIDE DEF Made
      <3> QED
        BY <1>1, <1>2, <2>1, <3>1, <3>3, <3>5
    <2>5. (\E t \in Threads : Construct(t) \/ FormatTime(t)) \/ impl' = impl
      BY <1>5, Zenon DEF Quiet, CallFlush, Abort, SetTimeZone, Tick, vars, loggerVars
    <2> QED
      BY <2>2, <2>3, <2>4, <2>5
  <1> QED
    BY <1>3, <1>4, <1>5, StepCases

LEMMA TypeStep == TypeOK /\ Control /\ [Next]_vars => TypeOK'
  <1> SUFFICES ASSUME TypeOK, Control, [Next]_vars PROVE TypeOK'
    OBVIOUS
  <1> USE DEF Calls
  <1>4. Constructed'
    BY ConstructedStep
  <1>1. ASSUME NEW t \in Threads, Statement(t) PROVE TypeOK'
    <2>1. /\ count' = [count EXCEPT ![t] = count[t] + 1]
          /\ call' = [call EXCEPT ![t] = "append"]
          /\ DOMAIN stmt' = Threads /\ SameFile /\ UNCHANGED <<flushed, aborted>>
      BY <1>1, StatementEffect
    <2>2. PICK n \in Nat :
            /\ line' = [line EXCEPT ![t] = [by |-> t, k |-> count[t] + 1, len |-> n]]
            /\ remain' = [remain EXCEPT ![t] = n]
      BY <1>1, StatementEffect
    <2>3. [by |-> t, k |-> count[t] + 1, len |-> n] \in Line
      BY DEF Line, TypeOK
    <2>4. line' \in [Threads -> Line \cup {NoOne}]
      BY <2>2, <2>3 DEF TypeOK
    <2>5. remain' \in [Threads -> Nat]
      BY <2>2 DEF TypeOK
    <2>6. count' \in [Threads -> Nat] /\ call' \in [Threads -> Calls]
      BY <2>1 DEF TypeOK
    <2> QED
      BY <1>4, <2>1, <2>4, <2>5, <2>6 DEF TypeOK, SameFile
  <1>2. ASSUME NEW t \in Threads, InLogFile(t) PROVE TypeOK'
    <2>1. /\ LogFileStep(t) /\ DOMAIN stmt' = Threads
          /\ UNCHANGED <<count, flushed, aborted>>
      BY <1>2, InLogFileEffect
    <2>2. CASE AppendWrite(t)
      <3>1. PICK part \in Part : PartWritten(t, part)
        BY <2>2, WriteEffect
      <3>2. /\ mutex_' = t /\ call' = [call EXCEPT ![t] = "write"]
            /\ UNCHANGED <<now, count_, startOfPeriod_, lastRoll_, lastFlush_, line>>
        BY <2>2, WriteEffect
      <3>3. remain' \in [Threads -> Nat]
        BY <3>1 DEF PartWritten, TypeOK
      <3>4. call' \in [Threads -> Calls]
        BY <3>2 DEF TypeOK
      <3> QED
        BY <1>4, <2>1, <3>1, <3>2, <3>3, <3>4, PartWrittenType DEF TypeOK
    <2>3. CASE AppendOversize(t) \/ AppendCount(t) \/ AppendCheck(t)
      <3>1. /\ call[t] = "write" /\ remain[t] = 0 /\ mutex_ = t
            /\ CountsOn(t) \/ RollsNext(t) \/ Checks(t)
            /\ UNCHANGED <<now, startOfPeriod_, lastRoll_, line, remain>>
        BY <2>3, EndEffect
      <3>2. \E disk \in Nat : Touched(InAll(t), disk)
        <4>1. file.onDisk \in Nat /\ Len(file.text) \in Nat
          BY LastFile DEF File
        <4> QED
          BY <3>1, <4>1 DEF CountsOn, RollsNext, Checks
      <3>3. InAll(t) \in Int
        <4>1. line[t] \in Line
          BY <3>1 DEF Control
        <4> QED
          BY <4>1, LastFile DEF InAll, Line, File
      <3>4. files' \in Seq(File) /\ files' # <<>>
        BY <3>2, <3>3, TouchedType
      <3>5. /\ call' \in [Threads -> Calls] /\ mutex_' \in Threads \cup {NoOne}
            /\ lastFlush_' \in Int
        BY <3>1 DEF CountsOn, RollsNext, Checks, Unlocks, TypeOK
      <3>6. count_' \in 0 .. checkEveryN_ - 1
        BY <3>1, LogFileAssumption DEF CountsOn, RollsNext, Checks, TypeOK
      <3> QED
        BY <1>4, <2>1, <3>1, <3>4, <3>5, <3>6 DEF TypeOK
    <2>4. CASE RollFile(t)
      <3>1. /\ Opened \/ TooEarly
            /\ Unlocks(t) /\ UNCHANGED <<now, count_, line, remain>>
        BY <2>4, RollEffect
      <3>2. files' \in Seq(File) /\ files' # <<>>
        BY <3>1, OpenedType DEF TooEarly, TypeOK
      <3>3. StartOfPeriod(now) \in Int
        BY LogFileAssumption DEF StartOfPeriod, TypeOK
      <3>4. lastRoll_' \in Int /\ lastFlush_' \in Int /\ startOfPeriod_' \in Int
        BY <3>1, <3>3 DEF Opened, TooEarly, TypeOK
      <3>5. call' \in [Threads -> Calls] /\ mutex_' = NoOne
        BY <3>1 DEF Unlocks, TypeOK
      <3> QED
        BY <1>4, <2>1, <3>1, <3>2, <3>4, <3>5 DEF TypeOK
    <2>5. CASE Flush(t)
      <3>1. /\ Touched(file.writtenBytes, Len(file.text))
            /\ call' = [call EXCEPT ![t] = "none"]
            /\ UNCHANGED <<now, count_, startOfPeriod_, lastRoll_, lastFlush_, mutex_, line, remain>>
        BY <2>5, FlushEffect
      <3>2. file.writtenBytes \in Int /\ Len(file.text) \in Nat
        BY LastFile DEF File
      <3>3. files' \in Seq(File) /\ files' # <<>>
        BY <3>1, <3>2, TouchedType
      <3>4. call' \in [Threads -> Calls]
        BY <3>1 DEF TypeOK
      <3> QED
        BY <1>4, <2>1, <3>1, <3>3, <3>4 DEF TypeOK
    <2> QED
      BY <2>1, <2>2, <2>3, <2>4, <2>5 DEF LogFileStep
  <1>3. CASE Quiet
    <2>1. flushed' \in SUBSET Threads /\ aborted' \in Threads \cup {NoOne}
      BY <1>3 DEF Quiet, Construct, FormatTime, CallFlush, Abort, SetTimeZone, Tick, vars,
                  loggerVars, TypeOK
    <2> QED
      BY <1>3, <1>4, <2>1, QuietEffect DEF TypeOK
  <1> QED
    BY <1>1, <1>2, <1>3, StepCases

LEMMA ControlStep == TypeOK /\ Control /\ [Next]_vars => Control'
  <1> SUFFICES ASSUME TypeOK, Control, [Next]_vars PROVE Control'
    OBVIOUS
  <1>1. ASSUME NEW t \in Threads, Statement(t) PROVE Control'
    <2>1. /\ stmt[t] = NoStatement /\ stmt'[t] # NoStatement
          /\ \A u \in Threads : u # t => stmt'[u] = stmt[u]
          /\ count' = [count EXCEPT ![t] = count[t] + 1]
          /\ call' = [call EXCEPT ![t] = "append"]
          /\ mutex_' = mutex_
      BY <1>1, StatementEffect DEF SameFile
    <2>2. PICK n \in Nat :
            /\ line' = [line EXCEPT ![t] = [by |-> t, k |-> count[t] + 1, len |-> n]]
            /\ remain' = [remain EXCEPT ![t] = n]
      BY <1>1, StatementEffect
    <2>3. /\ line'[t] \in Line /\ line'[t].by = t /\ line'[t].k = count'[t]
          /\ line'[t].len = n /\ remain'[t] = n /\ call'[t] = "append" /\ count'[t] > 0
      BY <2>1, <2>2 DEF Line, TypeOK
    <2>4. \A u \in Threads : u # t =>
            /\ line'[u] = line[u] /\ remain'[u] = remain[u] /\ call'[u] = call[u]
            /\ count'[u] = count[u] /\ stmt'[u] = stmt[u]
      BY <2>1, <2>2 DEF TypeOK
    <2>5. mutex_ # t
      BY <2>1 DEF Control
    <2> QED
      BY <2>1, <2>3, <2>4, <2>5 DEF Control
  <1>2. ASSUME NEW t \in Threads, InLogFile(t) PROVE Control'
    <2>1. /\ LogFileStep(t) /\ count' = count
          /\ \A u \in Threads : \/ stmt'[u] = stmt[u]
                                \/ u = t /\ call[t] # "flush" /\ call'[t] = "none"
      BY <1>2, InLogFileEffect
    <2>2. CASE AppendWrite(t)
      <3>1. PICK part \in Part : PartWritten(t, part)
        BY <2>2, WriteEffect
      <3>2. /\ \/ call[t] = "append" /\ mutex_ = NoOne
               \/ call[t] = "write" /\ mutex_ = t
            /\ mutex_' = t /\ call' = [call EXCEPT ![t] = "write"] /\ line' = line
        BY <2>2, WriteEffect
      <3>3. call'[t] = "write" /\ stmt'[t] = stmt[t]
        BY <2>1, <3>2 DEF TypeOK
      <3>4. \A u \in Threads : u # t =>
              remain'[u] = remain[u] /\ call'[u] = call[u] /\ stmt'[u] = stmt[u]
        BY <2>1, <3>1, <3>2 DEF TypeOK, PartWritten
      <3> QED
        BY <2>1, <3>2, <3>3, <3>4, NoneOfThreads DEF Control
    <2>3. ASSUME mutex_ = t, remain[t] = 0, UNCHANGED <<line, remain>>, call[t] = "write" \/ call[t] = "roll",
                 \/ Unlocks(t)
                 \/ call' = [call EXCEPT ![t] = "roll"] /\ mutex_' = mutex_
          PROVE  Control'
      <3>1. \A u \in Threads : u # t => call'[u] = call[u] /\ stmt'[u] = stmt[u]
        BY <2>1, <2>3 DEF Unlocks, TypeOK
      <3>2. \/ call'[t] = "none" /\ mutex_' = NoOne
            \/ call'[t] = "roll" /\ mutex_' = t /\ stmt'[t] = stmt[t]
        BY <2>1, <2>3 DEF Unlocks, TypeOK
      <3>3. stmt'[t] # NoStatement => stmt[t] # NoStatement
        BY <2>3 DEF Control
      <3> QED
        BY <2>1, <2>3, <3>1, <3>2, <3>3, NoneOfThreads DEF Control
    <2>4. CASE AppendOversize(t) \/ AppendCount(t) \/ AppendCheck(t)
      <3>1. /\ call[t] = "write" /\ remain[t] = 0 /\ mutex_ = t
            /\ CountsOn(t) \/ RollsNext(t) \/ Checks(t)
            /\ UNCHANGED <<line, remain>>
        BY <2>4, EndEffect
      <3> QED
        BY <2>3, <3>1, Zenon DEF CountsOn, RollsNext, Checks
    <2>5. CASE RollFile(t)
      BY <2>3, <2>5, RollEffect
    <2>6. CASE Flush(t)
      <3>1. /\ call[t] = "flush" /\ call' = [call EXCEPT ![t] = "none"]
            /\ UNCHANGED <<mutex_, line, remain>>
        BY <2>6, FlushEffect
      <3>2. call'[t] = "none" /\ \A u \in Threads : u # t => call'[u] = call[u]
        BY <3>1 DEF TypeOK
      <3>3. \A u \in Threads : stmt'[u] = stmt[u]
        BY <2>1, <3>1
      <3> QED
        BY <2>1, <3>1, <3>2, <3>3 DEF Control
    <2> QED
      BY <2>1, <2>2, <2>4, <2>5, <2>6 DEF LogFileStep
  <1>3. CASE Quiet
    BY <1>3, QuietEffect DEF Control
  <1> QED
    BY <1>1, <1>2, <1>3, StepCases

-----------------------------------------------------------------------------
(* Lines.  Nothing but a write changes what the files hold.                *)

TextsKept(h, h2) ==
  /\ DOMAIN h \subseteq DOMAIN h2
  /\ \A f \in DOMAIN h : h2[f].text = h[f].text
  /\ \A f \in DOMAIN h2 : f \in DOMAIN h \/ h2[f].text = <<>>

TextGrown(h, h2, part) ==
  /\ DOMAIN h2 = DOMAIN h
  /\ \A f \in DOMAIN h : f # Len(h) => h2[f].text = h[f].text
  /\ h2[Len(h)].text = Append(h[Len(h)].text, part)

LEMMA LineOf ==
  ASSUME NEW h \in Seq(File), NEW f \in DOMAIN h, NEW i \in DOMAIN h[f].text
  PROVE  /\ h[f].text \in Seq(Part) /\ h[f].text[i] \in Part
         /\ h[f].text[i].line \in Line /\ h[f].text[i].line.by \in Threads
         /\ h[f].text[i].line.k \in Nat /\ h[f].text[i].line.len \in Nat
  <1>1. h[f] \in File
    OBVIOUS
  <1>2. h[f].text \in Seq(Part)
    BY <1>1 DEF File
  <1>3. h[f].text[i] \in Part
    BY <1>2
  <1> QED
    BY <1>2, <1>3 DEF Part, Line

LEMMA LinesKept ==
  ASSUME files \in Seq(File), files' \in Seq(File), TextsKept(files, files'),
         \A u \in Threads : call'[u] = "append" => call[u] = "append",
         Known(files, count, line, call), Joined(files), Ordered(files),
         \A f \in DOMAIN files : Continued(files[f].text, line, remain)
  PROVE  /\ Known(files', count, line, call') /\ Joined(files') /\ Ordered(files')
         /\ \A f \in DOMAIN files' : Continued(files'[f].text, line, remain)
  <1>1. ASSUME NEW f \in DOMAIN files', NEW i \in DOMAIN files'[f].text
        PROVE  f \in DOMAIN files /\ files'[f].text = files[f].text /\ i \in DOMAIN files[f].text
    BY <1>1 DEF TextsKept
  <1>2. Known(files', count, line, call')
    <2> SUFFICES ASSUME NEW f \in DOMAIN files', NEW i \in DOMAIN files'[f].text
                 PROVE  LET l == files'[f].text[i].line
                        IN  /\ l.k <= count[l.by]
                            /\ l.k = count[l.by] => l = line[l.by] /\ call'[l.by] # "append"
      BY DEF Known
    <2>1. f \in DOMAIN files /\ files'[f].text = files[f].text /\ i \in DOMAIN files[f].text
      BY <1>1
    <2>2. files'[f].text[i].line.by \in Threads
      BY LineOf
    <2> QED
      BY <2>1, <2>2 DEF Known
  <1>3. Joined(files')
    BY <1>1 DEF Joined
  <1>4. Ordered(files')
    BY <1>1 DEF Ordered
  <1>5. ASSUME NEW f \in DOMAIN files' PROVE Continued(files'[f].text, line, remain)
    <2>1. CASE f \in DOMAIN files
      BY <2>1 DEF TextsKept
    <2>2. CASE files'[f].text = <<>>
      BY <2>2 DEF Continued
    <2> QED
      BY <2>1, <2>2 DEF TextsKept
  <1> QED
    BY <1>2, <1>3, <1>4, <1>5

LEMMA LinesStated ==
  ASSUME files \in Seq(File), NEW t \in Threads, count \in [Threads -> Nat],
         remain[t] = 0, line'[t].k = count[t] + 1, count' = [count EXCEPT ![t] = count[t] + 1],
         \A u \in Threads : u # t => line'[u] = line[u] /\ remain'[u] = remain[u] /\ call'[u] = call[u],
         Known(files, count, line, call),
         \A f \in DOMAIN files : Continued(files[f].text, line, remain)
  PROVE  /\ Known(files, count', line', call')
         /\ \A f \in DOMAIN files : Continued(files[f].text, line', remain')
  <1>1. ASSUME NEW f \in DOMAIN files, NEW i \in DOMAIN files[f].text, files[f].text[i].line.by = t
        PROVE  files[f].text[i].line.k <= count[t] /\ files[f].text[i].line # line'[t]
    BY <1>1, LineOf DEF Known
  <1>2. Known(files, count', line', call')
    <2> SUFFICES ASSUME NEW f \in DOMAIN files, NEW i \in DOMAIN files[f].text
                 PROVE  LET l == files[f].text[i].line
                        IN  /\ l.k <= count'[l.by]
                            /\ l.k = count'[l.by] => l = line'[l.by] /\ call'[l.by] # "append"
      BY Zenon DEF Known
    <2>1. files[f].text[i].line.by \in Threads /\ files[f].text[i].line.k \in Nat
      BY LineOf
    <2>2. CASE files[f].text[i].line.by = t
      BY <1>1, <2>1, <2>2
    <2>3. CASE files[f].text[i].line.by # t
      BY <2>1, <2>3 DEF Known
    <2> QED
      BY <2>2, <2>3
  <1>3. ASSUME NEW f \in DOMAIN files PROVE Continued(files[f].text, line', remain')
    <2>1. ASSUME NEW i \in DOMAIN files[f].text
          PROVE  Remaining(files[f].text[i].line, line', remain') = Remaining(files[f].text[i].line, line, remain)
      <3>1. files[f].text[i].line.by \in Threads
        BY LineOf
      <3> QED
        BY <1>1, <3>1 DEF Remaining
    <2>2. Continued(files[f].text, line, remain)
      OBVIOUS
    <2> QED
      BY <2>1, <2>2 DEF Continued
  <1> QED
    BY <1>2, <1>3

(* A part is written: the first of a line that no file has yet, or behind  *)
(* the part of its line that is the last one.                              *)
LEMMA LinesGrown ==
  ASSUME files \in Seq(File), files' \in Seq(File), files # <<>>,
         NEW part \in Part, TextGrown(files, files', part),
         NEW t \in Threads, count \in [Threads -> Nat], remain \in [Threads -> Nat],
         part.line = line[t], part.line.by = t, part.line.k = count[t],
         part.from = part.line.len - remain[t],
         remain' = [remain EXCEPT ![t] = remain[t] - part.bytes],
         call'[t] = "write", \A u \in Threads : u # t => call'[u] = call[u],
         \/ call[t] = "append" /\ remain[t] = part.line.len
         \/ call[t] = "write",
         Known(files, count, line, call), Joined(files), Ordered(files),
         Begun(files[Len(files)].text, line, remain, call),
         \A f \in DOMAIN files : Continued(files[f].text, line, remain)
  PROVE  /\ Known(files', count, line, call') /\ Joined(files') /\ Ordered(files')
         /\ \A f \in DOMAIN files' : Continued(files'[f].text, line, remain')
         /\ Last(files'[Len(files)].text) = part /\ files'[Len(files)].text # <<>>
  <1> DEFINE n == Len(files)
             text == files[n].text
             m == Len(text) + 1
  <1>1. /\ n \in Nat /\ n \in DOMAIN files /\ DOMAIN files = 1 .. n /\ text \in Seq(Part)
        /\ Len(text) \in Nat /\ m \in Nat /\ DOMAIN text = 1 .. m - 1
        /\ files'[n].text = Append(text, part) /\ DOMAIN files'[n].text = 1 .. m
        /\ files'[n].text[m] = part /\ Len(files'[n].text) = m
        /\ \A i \in 1 .. m - 1 : files'[n].text[i] = text[i]
    <2>1. n \in Nat /\ n \in DOMAIN files /\ DOMAIN files = 1 .. n /\ text \in Seq(Part)
      <3>1. n \in Nat /\ n # 0 /\ DOMAIN files = 1 .. n
        OBVIOUS
      <3> HIDE DEF n
      <3>2. n \in DOMAIN files
        BY <3>1
      <3>3. files[n] \in File
        BY <3>2
      <3> QED
        BY <3>1, <3>2, <3>3 DEF File
    <2>2. files'[n].text = Append(text, part)
      BY <2>1 DEF TextGrown
    <2> HIDE DEF text, n
    <2> QED
      BY <2>1, <2>2
  <1>2. Last(files'[n].text) = part /\ files'[n].text # <<>>
    <2> HIDE DEF text, n
    <2>1. m # 0 /\ files'[n].text[Len(files'[n].text)] = part
      BY <1>1
    <2> QED
      BY <1>1, <2>1 DEF Last
  <1>3. \A f \in DOMAIN files : f # n => files'[f].text = files[f].text
    BY DEF TextGrown
  <1>4. DOMAIN files' = DOMAIN files
    BY DEF TextGrown
  <1>5. ASSUME NEW f \in DOMAIN files, NEW i \in DOMAIN files[f].text
        PROVE  /\ i \in DOMAIN files'[f].text /\ files'[f].text[i] = files[f].text[i]
               /\ files[f].text[i].line \in Line /\ files[f].text[i].line.by \in Threads
               /\ files[f].text[i].line.k \in Nat /\ i \in Nat /\ i # 0
    <2>1. /\ files[f].text[i].line \in Line /\ files[f].text[i].line.by \in Threads
          /\ files[f].text[i].line.k \in Nat /\ files[f].text \in Seq(Part)
      BY LineOf
    <2> HIDE DEF text, n
    <2>2. i \in Nat /\ i # 0
      BY <2>1
    <2>3. CASE f = n
      <3>1. files[f].text = text
        BY <2>3 DEF text
      <3> HIDE DEF m
      <3>2. i \in 1 .. m - 1
        BY <1>1, <3>1
      <3>3. i \in 1 .. m
        BY <1>1, <3>2
      <3> QED
        BY <1>1, <2>1, <2>2, <2>3, <3>1, <3>2, <3>3
    <2>4. CASE f # n
      BY <1>3, <2>1, <2>2, <2>4
    <2> QED
      BY <2>3, <2>4
  <1>6. ASSUME NEW f \in DOMAIN files', NEW i \in DOMAIN files'[f].text
        PROVE  \/ /\ f \in DOMAIN files /\ i \in DOMAIN files[f].text
                  /\ files'[f].text[i] = files[f].text[i]
               \/ f = n /\ i = m /\ files'[f].text[i] = part
    <2>1. CASE f = n
      <3> HIDE DEF m, text, n
      <3>1. i \in 1 .. m
        BY <1>1, <2>1
      <3>2. i \in 1 .. m - 1 \/ i = m
        BY <1>1, <3>1
      <3> QED
        BY <1>1, <2>1, <3>2 DEF text
    <2>2. CASE f # n
      <3> HIDE DEF n
      <3> QED
        BY <1>3, <1>4, <2>2
    <2> QED
      BY <2>1, <2>2
  <1> DEFINE Mine(f, i) == files[f].text[i].line = part.line
  <1>7. ASSUME NEW f \in DOMAIN files, NEW i \in DOMAIN files[f].text, Mine(f, i)
        PROVE  call[t] = "write" /\ f = n /\ \A x \in i .. m - 1 : text[x].line = part.line
    <2>1. call[t] = "write"
      BY <1>7 DEF Known
    <2>2. text # <<>> /\ Last(text).line = part.line
      BY <2>1 DEF Begun
    <2>3. m - 1 \in DOMAIN text /\ text[m - 1].line = part.line
      <3> HIDE DEF text, n
      <3> QED
        BY <1>1, <2>2 DEF Last
    <2>4. f = n /\ \A x \in i .. m - 1 : files[f].text[x].line = files[f].text[i].line
      <3> HIDE DEF m
      <3> QED
        BY <1>1, <1>7, <2>3 DEF Joined
    <2> QED
      BY <1>7, <2>1, <2>4
  <1> HIDE DEF m, n, text
  <1>8. Known(files', count, line, call')
    <2> SUFFICES ASSUME NEW f \in DOMAIN files', NEW i \in DOMAIN files'[f].text
                 PROVE  LET l == files'[f].text[i].line
                        IN  /\ l.k <= count[l.by]
                            /\ l.k = count[l.by] => l = line[l.by] /\ call'[l.by] # "append"
      BY DEF Known
    <2>1. CASE f \in DOMAIN files /\ i \in DOMAIN files[f].text /\ files'[f].text[i] = files[f].text[i]
      <3> DEFINE l == files[f].text[i].line
      <3>1. l.by \in Threads /\ l.k <= count[l.by] /\ (l.k = count[l.by] => l = line[l.by] /\ call[l.by] # "append")
        BY <1>5, <2>1 DEF Known
      <3>2. files'[f].text[i].line = l
        BY <2>1
      <3> HIDE DEF l
      <3>3. call'[l.by] = "write" \/ call'[l.by] = call[l.by]
        BY <3>1
      <3> QED
        BY <3>1, <3>2, <3>3
    <2>2. CASE files'[f].text[i] = part
      <3>1. /\ files'[f].text[i].line = line[t] /\ line[t].by = t /\ line[t].k = count[t]
            /\ count[t] <= count[t] /\ call'[t] # "append"
        BY <2>2
      <3> QED
        BY <3>1, Zenon
    <2> QED
      BY <1>6, <2>1, <2>2
  <1>9. Joined(files')
    <2> SUFFICES ASSUME NEW f \in DOMAIN files', NEW g \in DOMAIN files',
                        NEW i \in DOMAIN files'[f].text, NEW j \in DOMAIN files'[g].text,
                        files'[f].text[i].line = files'[g].text[j].line
                 PROVE  f = g /\ \A x \in i .. j : files'[f].text[x].line = files'[f].text[i].line
      BY Zenon DEF Joined
    <2>1. CASE /\ f \in DOMAIN files /\ i \in DOMAIN files[f].text /\ files'[f].text[i] = files[f].text[i]
               /\ g \in DOMAIN files /\ j \in DOMAIN files[g].text /\ files'[g].text[j] = files[g].text[j]
      <3>1. f = g /\ \A x \in i .. j : files[f].text[x].line = files[f].text[i].line
        BY <2>1 DEF Joined
      <3>2. \A x \in i .. j : x \in DOMAIN files[f].text
        <4>1. files[f].text \in Seq(Part)
          BY <2>1, LineOf
        <4> QED
          BY <2>1, <3>1, <4>1
      <3> QED
        BY <1>5, <2>1, <3>1, <3>2
    <2>2. CASE /\ f \in DOMAIN files /\ i \in DOMAIN files[f].text /\ files'[f].text[i] = files[f].text[i]
               /\ g = n /\ j = m /\ files'[g].text[j] = part
      <3>1. f = n /\ \A x \in i .. m - 1 : text[x].line = part.line
        BY <1>7, <2>2
      <3>2. \A x \in i .. m : x = m \/ x \in i .. m - 1
        BY <1>1, <1>5, <2>2
      <3>3. \A x \in i .. m - 1 : x \in 1 .. m - 1
        BY <1>1, <1>5, <2>2
      <3> QED
        BY <1>1, <2>2, <3>1, <3>2, <3>3
    <2>3. CASE /\ f = n /\ i = m /\ files'[f].text[i] = part
               /\ g \in DOMAIN files /\ j \in DOMAIN files[g].text /\ files'[g].text[j] = files[g].text[j]
      <3>1. g = n
        BY <1>7, <2>3
      <3>2. j \in 1 .. m - 1
        BY <1>1, <2>3, <3>1 DEF text
      <3> QED
        BY <1>1, <2>3, <3>1, <3>2
    <2>4. CASE /\ f = n /\ i = m /\ files'[f].text[i] = part
               /\ g = n /\ j = m /\ files'[g].text[j] = part
      BY <1>1, <2>4
    <2> QED
      BY <1>6, <2>1, <2>2, <2>3, <2>4
  <1>10. Ordered(files')
    <2> SUFFICES ASSUME NEW f \in DOMAIN files', NEW g \in DOMAIN files',
                        NEW i \in DOMAIN files'[f].text, NEW j \in DOMAIN files'[g].text,
                        f < g \/ (f = g /\ i < j),
                        files'[f].text[i].line.by = files'[g].text[j].line.by
                 PROVE  files'[f].text[i].line.k <= files'[g].text[j].line.k
      BY Zenon DEF Ordered
    <2>1. CASE /\ f \in DOMAIN files /\ i \in DOMAIN files[f].text /\ files'[f].text[i] = files[f].text[i]
               /\ g \in DOMAIN files /\ j \in DOMAIN files[g].text /\ files'[g].text[j] = files[g].text[j]
      BY <2>1 DEF Ordered
    <2>2. CASE /\ f \in DOMAIN files /\ i \in DOMAIN files[f].text /\ files'[f].text[i] = files[f].text[i]
               /\ files'[g].text[j] = part
      BY <2>2 DEF Known
    <2>3. CASE f = n /\ i = m
      BY <1>1, <1>4, <2>3
    <2> QED
      BY <1>6, <2>1, <2>2, <2>3
  <1>11. ASSUME NEW f \in DOMAIN files, NEW i \in DOMAIN files[f].text, ~Mine(f, i)
         PROVE  Remaining(files[f].text[i].line, line, remain') = Remaining(files[f].text[i].line, line, remain)
    BY <1>5, <1>11 DEF Remaining
  <1>12. ASSUME NEW f \in DOMAIN files' PROVE Continued(files'[f].text, line, remain')
    <2>1. CASE f # n
      <3>1. \A i \in DOMAIN files[f].text : ~Mine(f, i)
        BY <1>4, <1>7, <2>1
      <3>2. Continued(files[f].text, line, remain) /\ files'[f].text = files[f].text
        BY <1>3, <1>4, <2>1
      <3>3. \A i \in DOMAIN files[f].text :
              Remaining(files[f].text[i].line, line, remain') = Remaining(files[f].text[i].line, line, remain)
        BY <1>4, <1>11, <3>1
      <3>4. ASSUME NEW q, Continued(q, line, remain),
                   \A i \in DOMAIN q : Remaining(q[i].line, line, remain') = Remaining(q[i].line, line, remain)
            PROVE  Continued(q, line, remain')
        BY <3>4 DEF Continued
      <3> QED
        BY <3>2, <3>3, <3>4
    <2>2. CASE f = n
      <3> DEFINE text2 == files'[n].text
      <3>1. Continued(text, line, remain)
        BY <1>1 DEF text
      <3>2. ASSUME NEW i \in 1 .. m - 1
            PROVE  /\ text2[i].from = IF Begins(text2, i) THEN 0
                                      ELSE text2[i - 1].from + text2[i - 1].bytes
                   /\ Ends(text2, i) =>
                        text2[i].from + text2[i].bytes
                          = text2[i].line.len - Remaining(text2[i].line, line, remain')
        <4>1. /\ i \in DOMAIN text /\ text2[i] = text[i]
              /\ i # 1 => i - 1 \in 1 .. m - 1 /\ text2[i - 1] = text[i - 1]
          BY <1>1
        <4>2. Begins(text2, i) <=> Begins(text, i)
          BY <4>1 DEF Begins
        <4>3. text2[i].from = IF Begins(text2, i) THEN 0
                              ELSE text2[i - 1].from + text2[i - 1].bytes
          BY <3>1, <4>1, <4>2 DEF Continued, Begins
        <4>4. ASSUME Ends(text2, i)
              PROVE  Ends(text, i) /\ text[i].line # part.line
          <5>1. i # m /\ text2[i + 1].line # text2[i].line
            BY <1>1, <4>4 DEF Ends
          <5>2. CASE i = m - 1
            BY <1>1, <4>1, <5>1, <5>2 DEF Ends
          <5>3. CASE i # m - 1
            <6>1. i + 1 \in 1 .. m - 1 /\ text2[i + 1] = text[i + 1]
              BY <1>1, <5>3
            <6>2. Ends(text, i)
              BY <4>1, <5>1, <6>1 DEF Ends
            <6>3. text[i].line # part.line
              <7> SUFFICES ASSUME text[i].line = part.line PROVE FALSE
                OBVIOUS
              <7>1. Mine(n, i)
                BY DEF text
              <7>2. i + 1 \in i .. m - 1
                BY <6>1
              <7>3. text[i + 1].line = part.line
                BY <1>1, <1>7, <4>1, <7>1, <7>2 DEF text
              <7> QED
                BY <4>1, <5>1, <6>1, <7>3
            <6> QED
              BY <6>2, <6>3
          <5> QED
            BY <5>2, <5>3
        <4>5. ASSUME Ends(text2, i)
              PROVE  text2[i].from + text2[i].bytes
                       = text2[i].line.len - Remaining(text2[i].line, line, remain')
          <5>1. Remaining(text[i].line, line, remain') = Remaining(text[i].line, line, remain)
            BY <1>1, <1>11, <4>1, <4>4, <4>5 DEF text
          <5> HIDE DEF text2
          <5> QED
            BY <3>1, <4>1, <4>4, <4>5, <5>1 DEF Continued
        <4> QED
          BY <4>3, <4>5
      <3>3. /\ part.from = IF Begins(text2, m) THEN 0
                           ELSE text2[m - 1].from + text2[m - 1].bytes
            /\ part.from + part.bytes = part.line.len - Remaining(part.line, line, remain')
        <4>1. part.from \in Int /\ part.bytes \in Nat /\ part.line.len \in Nat
          BY DEF Part, Line
        <4>2. part.from + part.bytes = part.line.len - Remaining(part.line, line, remain')
          BY <4>1 DEF Remaining
        <4>3. CASE call[t] = "append" /\ remain[t] = part.line.len
          <5>1. Begins(text2, m)
            <6> SUFFICES ASSUME m # 1, text[m - 1].line = part.line PROVE FALSE
              BY <1>1 DEF Begins
            <6>1. m - 1 \in DOMAIN text
              BY <1>1
            <6>2. Mine(n, m - 1)
              BY DEF text
            <6> QED
              BY <1>1, <1>7, <4>3, <6>1, <6>2 DEF text
          <5> QED
            BY <4>1, <4>2, <4>3, <5>1
        <4>4. CASE call[t] = "write"
          <5>1. /\ text # <<>> /\ Last(text).line = part.line
                /\ Last(text).from + Last(text).bytes + remain[t] = part.line.len
            BY <4>4 DEF Begun, text, n
          <5>2. m - 1 \in 1 .. m - 1 /\ m # 1 /\ Last(text) = text[m - 1]
            BY <1>1, <5>1 DEF Last, m
          <5>3. text2[m - 1] = Last(text) /\ ~Begins(text2, m)
            BY <1>1, <5>1, <5>2 DEF Begins
          <5>4. Last(text).from \in Int /\ Last(text).bytes \in Nat
            <6>1. Last(text) \in Part
              BY <1>1, <5>2
            <6> QED
              BY <6>1 DEF Part
          <5>5. part.from = text2[m - 1].from + text2[m - 1].bytes
            BY <4>1, <5>1, <5>3, <5>4
          <5> QED
            BY <4>2, <5>3, <5>5
        <4> QED
          BY <4>3, <4>4
      <3>4. text2[m] = part /\ DOMAIN text2 = 1 .. m
        BY <1>1
      <3> HIDE DEF text2
      <3>5. ASSUME NEW i \in 1 .. m
            PROVE  /\ text2[i].from = IF Begins(text2, i) THEN 0
                                      ELSE text2[i - 1].from + text2[i - 1].bytes
                   /\ Ends(text2, i) =>
                        text2[i].from + text2[i].bytes
                          = text2[i].line.len - Remaining(text2[i].line, line, remain')
        <4>1. i \in 1 .. m - 1 \/ i = m
          BY <1>1
        <4> QED
          BY <3>2, <3>3, <3>4, <4>1
      <3>6. Continued(text2, line, remain')
        BY <3>4, <3>5, Zenon DEF Continued
      <3> QED
        BY <2>2, <3>6 DEF text2
    <2> QED
      BY <2>1, <2>2
  <1> QED
    BY <1>2, <1>8, <1>9, <1>10, <1>12 DEF n

LEMMA FirstFile ==
  ASSUME Init
  PROVE  /\ files = <<NewFile(StartTime)>> /\ Len(files) = 1 /\ DOMAIN files = {1}
         /\ file = NewFile(StartTime) /\ files[1] = NewFile(StartTime)
         /\ file.text = <<>> /\ file.onDisk = 0 /\ file.writtenBytes = 0 /\ file.name = StartTime
         /\ \A t \in Threads : call[t] = "none" /\ count[t] = 0 /\ stmt[t] = NoStatement
         /\ now = StartTime /\ lastRoll_ = StartTime /\ lastFlush_ = StartTime
         /\ startOfPeriod_ = StartOfPeriod(StartTime) /\ count_ = 0 /\ mutex_ = NoOne
         /\ flushed = {} /\ aborted = NoOne
  <1>1. /\ files = <<NewFile(StartTime)>> /\ now = StartTime /\ lastRoll_ = StartTime
        /\ lastFlush_ = StartTime /\ startOfPeriod_ = StartOfPeriod(StartTime) /\ count_ = 0
        /\ mutex_ = NoOne /\ flushed = {} /\ aborted = NoOne
        /\ \A t \in Threads : call[t] = "none" /\ count[t] = 0 /\ stmt[t] = NoStatement
    BY DEF Init, LogFileInit
  <1>2. Len(files) = 1 /\ DOMAIN files = {1} /\ files[1] = NewFile(StartTime)
    BY <1>1
  <1>3. file = NewFile(StartTime)
    BY <1>2 DEF file, Last
  <1> QED
    BY <1>1, <1>2, <1>3 DEF NewFile

LEMMA LastFileNext ==
  ASSUME TypeOK'
  PROVE  /\ Len(files') \in Nat \ {0} /\ Len(files') \in DOMAIN files'
         /\ DOMAIN files' = 1 .. Len(files')
         /\ file' = files'[Len(files')] /\ file' \in File
         /\ \A f \in DOMAIN files' : files'[f] \in File
  BY DEF TypeOK, file, Last

(* What the steps of LogFile that write nothing do to the current file. *)
LEMMA TouchedFile ==
  ASSUME TypeOK, TypeOK', NEW written, NEW disk, Touched(written, disk)
  PROVE  /\ TextsKept(files, files')
         /\ file' = files'[Len(files)] /\ file'.text = file.text /\ file'.name = file.name
         /\ file'.writtenBytes = written /\ file'.onDisk = disk
  <1>1. file' = [file EXCEPT !.writtenBytes = written, !.onDisk = disk]
    BY LastFile, LastFileNext DEF Touched
  <1>2. /\ file'.text = file.text /\ file'.name = file.name
        /\ file'.writtenBytes = written /\ file'.onDisk = disk
    BY <1>1, LastFile DEF File
  <1>3. file' = files'[Len(files)]
    BY LastFileNext DEF Touched
  <1> QED
    BY <1>2, <1>3, LastFile DEF Touched, TextsKept

LEMMA OpenedFile ==
  ASSUME TypeOK, TypeOK', Opened
  PROVE  /\ TextsKept(files, files')
         /\ file' = NewFile(now) /\ file' = files'[Len(files) + 1]
         /\ file'.text = <<>> /\ file'.name = now /\ file'.writtenBytes = 0 /\ file'.onDisk = 0
         /\ files'[Len(files)].text = file.text /\ files'[Len(files)].name = file.name
         /\ files'[Len(files)].onDisk = Len(file.text)
  <1>1. file' = NewFile(now) /\ file' = files'[Len(files) + 1]
    BY LastFileNext DEF Opened
  <1>2. /\ file'.text = <<>> /\ file'.name = now /\ file'.writtenBytes = 0 /\ file'.onDisk = 0
    BY <1>1 DEF NewFile
  <1>3. /\ files'[Len(files)].text = file.text /\ files'[Len(files)].name = file.name
        /\ files'[Len(files)].onDisk = Len(file.text)
    BY LastFile DEF Opened, Flushed, File
  <1>4. TextsKept(files, files')
    <2>1. \A f \in DOMAIN files : f \in DOMAIN files' /\ files'[f].text = files[f].text
      BY <1>3, LastFile DEF Opened
    <2>2. \A f \in DOMAIN files' : f \in DOMAIN files \/ f = Len(files) + 1
      BY LastFile DEF Opened
    <2> QED
      BY <1>1, <1>2, <2>1, <2>2 DEF TextsKept
  <1> QED
    BY <1>1, <1>2, <1>3, <1>4

LEMMA PartWrittenFile ==
  ASSUME TypeOK, TypeOK', NEW t \in Threads, NEW part \in Part, PartWritten(t, part)
  PROVE  /\ TextGrown(files, files', part)
         /\ file' = files'[Len(files)] /\ file'.text = Append(file.text, part)
         /\ file'.name = file.name /\ file'.writtenBytes = file.writtenBytes
         /\ file'.onDisk = file.onDisk
  <1>1. file' = [file EXCEPT !.text = Append(file.text, part)] /\ file' = files'[Len(files)]
    BY LastFile, LastFileNext DEF PartWritten
  <1>2. /\ file'.text = Append(file.text, part)
        /\ file'.name = file.name /\ file'.writtenBytes = file.writtenBytes
        /\ file'.onDisk = file.onDisk
    BY <1>1, LastFile DEF File
  <1> QED
    BY <1>1, <1>2, LastFile DEF PartWritten, TextGrown

LEMMA InitLines == Init => LinesInv
  <1> SUFFICES ASSUME Init PROVE LinesInv
    OBVIOUS
  <1>1. \A f \in DOMAIN files : files[f].text = <<>>
    BY FirstFile DEF NewFile
  <1>2. Known(files, count, line, call) /\ Joined(files) /\ Ordered(files)
    BY <1>1 DEF Known, Joined, Ordered
  <1>3. \A f \in DOMAIN files : Continued(files[f].text, line, remain)
    BY <1>1 DEF Continued
  <1>4. Begun(file.text, line, remain, call)
    BY FirstFile DEF Begun
  <1> QED
    BY <1>2, <1>3, <1>4 DEF LinesInv

LEMMA LinesStep == TypeOK /\ TypeOK' /\ Control /\ LinesInv /\ [Next]_vars => LinesInv'
  <1> SUFFICES ASSUME TypeOK, TypeOK', Control, LinesInv, [Next]_vars PROVE LinesInv'
    OBVIOUS
  <1>0. files \in Seq(File) /\ files' \in Seq(File)
    BY DEF TypeOK
  <1>1. ASSUME NEW t \in Threads, Statement(t) PROVE LinesInv'
    <2>1. /\ count' = [count EXCEPT ![t] = count[t] + 1]
          /\ call' = [call EXCEPT ![t] = "append"] /\ files' = files /\ stmt[t] = NoStatement
      BY <1>1, StatementEffect DEF SameFile
    <2>2. PICK n \in Nat :
            /\ line' = [line EXCEPT ![t] = [by |-> t, k |-> count[t] + 1, len |-> n]]
            /\ remain' = [remain EXCEPT ![t] = n]
      BY <1>1, StatementEffect
    <2>3. /\ line'[t].k = count[t] + 1 /\ call'[t] = "append" /\ remain[t] = 0
          /\ \A u \in Threads : u # t =>
               line'[u] = line[u] /\ remain'[u] = remain[u] /\ call'[u] = call[u]
      BY <2>1, <2>2 DEF TypeOK, Control
    <2>4. /\ Known(files, count', line', call')
          /\ \A f \in DOMAIN files : Continued(files[f].text, line', remain')
      <3>1. count \in [Threads -> Nat]
        BY DEF TypeOK
      <3>2. /\ Known(files, count, line, call)
            /\ \A f \in DOMAIN files : Continued(files[f].text, line, remain)
        BY DEF LinesInv
      <3> QED
        BY <1>0, <2>1, <2>3, <3>1, <3>2, LinesStated
    <2>5. Begun(file.text, line', remain', call')
      BY <2>3 DEF LinesInv, Begun
    <2>6. file' = file
      BY <2>1 DEF file
    <2> QED
      BY <2>1, <2>4, <2>5, <2>6 DEF LinesInv
  <1>2. ASSUME TextsKept(files, files'), UNCHANGED <<count, line, remain>>,
               \A u \in Threads : /\ call'[u] = "append" => call[u] = "append"
                                  /\ call'[u] = "write" => call[u] = "write" /\ file'.text = file.text
        PROVE  LinesInv'
    <2>1. /\ Known(files', count, line, call') /\ Joined(files') /\ Ordered(files')
          /\ \A f \in DOMAIN files' : Continued(files'[f].text, line, remain)
      <3>1. /\ Known(files, count, line, call) /\ Joined(files) /\ Ordered(files)
            /\ \A f \in DOMAIN files : Continued(files[f].text, line, remain)
        BY DEF LinesInv
      <3> QED
        BY <1>0, <1>2, <3>1, LinesKept
    <2>2. Begun(file'.text, line, remain, call')
      BY <1>2 DEF LinesInv, Begun
    <2> QED
      BY <1>2, <2>1, <2>2 DEF LinesInv
  <1>3. ASSUME NEW t \in Threads, InLogFile(t) PROVE LinesInv'
    <2>1. LogFileStep(t) /\ count' = count
      BY <1>3, InLogFileEffect
    <2>2. CASE AppendWrite(t)
      <3>1. PICK part \in Part : PartWritten(t, part)
        BY <2>2, WriteEffect
      <3>2. /\ \/ call[t] = "append"
               \/ call[t] = "write"
            /\ call' = [call EXCEPT ![t] = "write"] /\ line' = line
            /\ mutex_' = t
        BY <2>2, WriteEffect
      <3>3. /\ part.line = line[t] /\ part.line.by = t /\ part.line.k = count[t]
            /\ part.from = part.line.len - remain[t] /\ part.bytes \in Nat /\ part.line.len \in Nat
            /\ remain' = [remain EXCEPT ![t] = remain[t] - part.bytes]
            /\ call[t] = "append" => remain[t] = part.line.len
        <4>1. line[t] \in Line /\ line[t].by = t /\ line[t].k = count[t]
          BY <3>2 DEF Control
        <4> QED
          BY <3>1, <3>2, <4>1 DEF PartWritten, Control, Part, Line
      <3>4. call'[t] = "write" /\ \A u \in Threads : u # t => call'[u] = call[u]
        BY <3>2 DEF TypeOK
      <3>5. /\ TextGrown(files, files', part) /\ file' = files'[Len(files)]
        BY <3>1, PartWrittenFile
      <3>6. /\ Known(files, count, line, call) /\ Joined(files) /\ Ordered(files)
            /\ Begun(files[Len(files)].text, line, remain, call)
            /\ \A f \in DOMAIN files : Continued(files[f].text, line, remain)
            /\ files # <<>> /\ count \in [Threads -> Nat] /\ remain \in [Threads -> Nat]
        BY LastFile DEF LinesInv, TypeOK
      <3>7. /\ Known(files', count, line, call') /\ Joined(files') /\ Ordered(files')
            /\ \A f \in DOMAIN files' : Continued(files'[f].text, line, remain')
            /\ Last(files'[Len(files)].text) = part /\ files'[Len(files)].text # <<>>
        BY <1>0, <3>2, <3>3, <3>4, <3>5, <3>6, LinesGrown
      <3>8. Begun(file'.text, line, remain', call')
        <4>1. \A u \in Threads : call'[u] = "write" => u = t
          <5>1. \A u \in Threads : u # t => call[u] # "write"
            <6>1. mutex_ = t \/ mutex_ = NoOne
              BY <2>2, WriteEffect
            <6> QED
              BY <6>1, NoneOfThreads DEF Control
          <5> QED
            BY <3>4, <5>1
        <4>2. part.from + part.bytes + remain'[t] = part.line.len
          <5>1. remain'[t] = remain[t] - part.bytes /\ remain[t] \in Nat
            BY <3>3 DEF TypeOK
          <5> QED
            BY <3>3, <5>1
        <4> QED
          BY <3>3, <3>5, <3>7, <4>1, <4>2 DEF Begun
      <3> QED
        BY <2>1, <3>2, <3>7, <3>8 DEF LinesInv
    <2>3. CASE AppendOversize(t) \/ AppendCount(t) \/ AppendCheck(t)
      <3>1. /\ CountsOn(t) \/ RollsNext(t) \/ Checks(t)
            /\ UNCHANGED <<line, remain>>
        BY <2>3, EndEffect
      <3>2. PICK disk : Touched(InAll(t), disk)
        BY <3>1, Zenon DEF CountsOn, RollsNext, Checks
      <3>3. TextsKept(files, files') /\ file'.text = file.text
        BY <3>2, TouchedFile
      <3>4. \A u \in Threads : /\ call'[u] = "append" => call[u] = "append"
                               /\ call'[u] = "write" => call[u] = "write"
        BY <3>1 DEF CountsOn, RollsNext, Checks, Unlocks, TypeOK
      <3> QED
        BY <1>2, <2>1, <3>1, <3>3, <3>4
    <2>4. CASE RollFile(t)
      <3>1. /\ call[t] = "roll" /\ mutex_ = t
            /\ Opened \/ TooEarly
            /\ Unlocks(t) /\ UNCHANGED <<line, remain>>
        BY <2>4, RollEffect
      <3>2. \A u \in Threads : /\ call'[u] = "append" => call[u] = "append"
                               /\ call'[u] # "write"
        <4>1. \A u \in Threads : u # t => call[u] # "write" /\ call'[u] = call[u]
          <5>1. \A u \in Threads : u # t => call'[u] = call[u]
            BY <3>1 DEF Unlocks, TypeOK
          <5>2. \A u \in Threads : u # t => call[u] # "write"
            BY <3>1 DEF Control
          <5> QED
            BY <5>1, <5>2
        <4>2. call'[t] = "none"
          BY <3>1 DEF Unlocks, TypeOK
        <4> QED
          BY <4>1, <4>2
      <3>3. TextsKept(files, files')
        BY <3>1, OpenedFile DEF TooEarly, TextsKept
      <3> QED
        BY <1>2, <2>1, <3>1, <3>2, <3>3
    <2>5. CASE Flush(t)
      <3>1. /\ Touched(file.writtenBytes, Len(file.text))
            /\ call' = [call EXCEPT ![t] = "none"] /\ UNCHANGED <<line, remain>>
        BY <2>5, FlushEffect
      <3>2. TextsKept(files, files') /\ file'.text = file.text
        BY <3>1, TouchedFile
      <3>3. \A u \in Threads : /\ call'[u] = "append" => call[u] = "append"
                               /\ call'[u] = "write" => call[u] = "write"
        BY <3>1 DEF TypeOK
      <3> QED
        BY <1>2, <2>1, <3>1, <3>2, <3>3
    <2> QED
      BY <2>1, <2>2, <2>3, <2>4, <2>5 DEF LogFileStep
  <1>4. CASE Quiet
    <2>1. /\ UNCHANGED <<files, count, line, remain>>
          /\ \A u \in Threads : call'[u] = call[u] \/ call'[u] = "flush"
      BY <1>4, QuietEffect
    <2>2. TextsKept(files, files') /\ file' = file
      BY <2>1 DEF TextsKept, file
    <2> QED
      BY <1>2, <2>1, <2>2
  <1> QED
    BY <1>1, <1>3, <1>4, StepCases

LEMMA PartOf ==
  ASSUME TypeOK, NEW p \in Parts
  PROVE  /\ p[1] \in DOMAIN files /\ p[2] \in DOMAIN files[p[1]].text
         /\ PartAt(p) = files[p[1]].text[p[2]]
         /\ p = <<p[1], p[2]>>
  BY DEF Parts, PartAt

LEMMA LinesWhole == TypeOK /\ LinesInv => WholeLines
  <1> SUFFICES ASSUME TypeOK, LinesInv PROVE WholeLines
    OBVIOUS
  <1>1. ASSUME NEW p \in Parts, NEW q \in Parts, PartAt(p).line = PartAt(q).line
        PROVE  /\ p[1] = q[1]
               /\ \A i \in p[2] .. q[2] : PartAt(<<p[1], i>>).line = PartAt(p).line
    <2>1. /\ p[1] = q[1]
          /\ \A i \in p[2] .. q[2] : files[p[1]].text[i].line = files[p[1]].text[p[2]].line
      BY <1>1, PartOf DEF LinesInv, Joined
    <2>2. \A i : PartAt(<<p[1], i>>) = files[p[1]].text[i]
      BY DEF PartAt
    <2> QED
      BY <2>1, <2>2, PartOf
  <1>2. ASSUME NEW p \in Parts, NEW q \in Parts, Before(p, q), PartAt(p).line.by = PartAt(q).line.by
        PROVE  PartAt(p).line.k <= PartAt(q).line.k
    BY <1>2, PartOf DEF LinesInv, Ordered, Before
  <1>3. ASSUME NEW p \in Parts
        PROVE  LET text == files[p[1]].text
                   part == text[p[2]]
                   l == part.line
                   prev == text[p[2] - 1]
               IN  /\ part.from = IF Begins(text, p[2]) THEN 0 ELSE prev.from + prev.bytes
                   /\ Ends(text, p[2]) =>
                        part.from + part.bytes
                          = l.len - (IF line[l.by] = l THEN remain[l.by] ELSE 0)
    <2>1. p[1] \in DOMAIN files /\ p[2] \in DOMAIN files[p[1]].text
      BY PartOf
    <2>2. Continued(files[p[1]].text, line, remain)
      BY <2>1 DEF LinesInv
    <2> QED
      BY <2>1, <2>2 DEF Continued, Remaining
  <1> QED
    BY <1>1, <1>2, <1>3, Zenon DEF WholeLines

(* The lines of all threads are whole and in order in the files            *)
(* (logfile.cc:28-43, 73-93), for any number of threads, sizes and         *)
(* failing writes.                                                         *)
THEOREM LinesStayWhole == Spec => []WholeLines
  <1> DEFINE I == TypeOK /\ Control /\ LinesInv
  <1>1. Init => I
    BY InitType, InitLines
  <1>2. I /\ [Next]_vars => I'
    BY TypeStep, ControlStep, LinesStep
  <1>3. I => WholeLines
    BY LinesWhole
  <1> QED
    BY <1>1, <1>2, <1>3, PTL DEF Spec

-----------------------------------------------------------------------------
(* What is on the disk.                                                    *)

LEMMA OnDiskType ==
  ASSUME TypeOK, NEW f \in DOMAIN files
  PROVE  files[f].onDisk \in Nat /\ files[f].text \in Seq(Part) /\ Len(files[f].text) \in Nat
  <1>1. files[f] \in File
    BY LastFile
  <1> QED
    BY <1>1 DEF File

LEMMA ThereKept ==
  ASSUME NEW l, There(files, l), TextsKept(files, files')
  PROVE  There(files', l)
  BY DEF There, TextsKept

LEMMA ThereGrown ==
  ASSUME TypeOK, NEW part \in Part, TextGrown(files, files', part)
  PROVE  /\ There(files', part.line)
         /\ \A l : There(files, l) => There(files', l)
  <1> DEFINE n == Len(files)
  <1>1. n \in DOMAIN files /\ files[n].text \in Seq(Part) /\ Len(files[n].text) \in Nat
    BY LastFile, OnDiskType
  <1>2. files'[n].text = Append(files[n].text, part)
    BY DEF TextGrown
  <1> HIDE DEF n
  <1>3. /\ Len(files[n].text) + 1 \in DOMAIN files'[n].text
        /\ files'[n].text[Len(files[n].text) + 1] = part
        /\ \A i \in DOMAIN files[n].text :
             i \in DOMAIN files'[n].text /\ files'[n].text[i] = files[n].text[i]
    BY <1>1, <1>2
  <1>4. DOMAIN files' = DOMAIN files /\ \A f \in DOMAIN files : f # n => files'[f].text = files[f].text
    BY DEF TextGrown, n
  <1>5. There(files', part.line)
    BY <1>1, <1>3, <1>4 DEF There
  <1>6. ASSUME NEW l, There(files, l) PROVE There(files', l)
    <2>1. PICK f \in DOMAIN files : \E i \in DOMAIN files[f].text : files[f].text[i].line = l
      BY <1>6 DEF There
    <2>2. PICK i \in DOMAIN files[f].text : files[f].text[i].line = l
      BY <2>1
    <2>3. i \in DOMAIN files'[f].text /\ files'[f].text[i].line = l
      BY <1>3, <1>4, <2>2
    <2> QED
      BY <1>4, <2>3 DEF There
  <1> QED
    BY <1>5, <1>6

(* More of a file may be on the disk, of the current file at least what    *)
(* was.                                                                    *)
LEMMA TouchedDisk ==
  ASSUME TypeOK, TypeOK', Closed(files), NEW written, NEW disk, Touched(written, disk),
         disk \in {file.onDisk, Len(file.text)}
  PROVE  /\ Closed(files')
         /\ \A t, n : Saved(files, t, n) => Saved(files', t, n)
         /\ disk = Len(file.text) => \A t, n : Saved(files', t, n)
  <1>1. /\ TextsKept(files, files') /\ Len(files') = Len(files) /\ DOMAIN files' = DOMAIN files
        /\ file' = files'[Len(files)] /\ file'.text = file.text /\ file'.onDisk = disk
        /\ file = files[Len(files)] /\ Len(files) \in DOMAIN files
        /\ \A f \in DOMAIN files : f # Len(files) => files'[f] = files[f]
    BY TouchedFile, LastFile DEF Touched
  <1>2. \A f \in DOMAIN files : files[f].onDisk \in Nat /\ Len(files[f].text) \in Nat
    BY OnDiskType
  <1>3. \A f \in DOMAIN files : /\ files'[f].text = files[f].text
                                /\ files[f].onDisk <= files'[f].onDisk
                                /\ files'[f].onDisk <= Len(files[f].text)
                                /\ f < Len(files) => files'[f].onDisk = Len(files[f].text)
                                /\ disk = Len(file.text) => files'[f].onDisk = Len(files[f].text)
    <2> SUFFICES ASSUME NEW f \in DOMAIN files
                 PROVE  /\ files'[f].text = files[f].text
                        /\ files[f].onDisk <= files'[f].onDisk
                        /\ files'[f].onDisk <= Len(files[f].text)
                        /\ f < Len(files) => files'[f].onDisk = Len(files[f].text)
                        /\ disk = Len(file.text) => files'[f].onDisk = Len(files[f].text)
      OBVIOUS
    <2>1. /\ files[f].onDisk <= Len(files[f].text)
          /\ f < Len(files) => files[f].onDisk = Len(files[f].text)
      BY DEF Closed
    <2>2. f < Len(files) \/ f = Len(files)
      BY LastFile
    <2>3. CASE f < Len(files)
      BY <1>1, <1>2, <2>1, <2>3, LastFile
    <2>4. CASE f = Len(files)
      BY <1>1, <1>2, <2>1, <2>4, LastFile
    <2> QED
      BY <2>2, <2>3, <2>4
  <1>4. Closed(files')
    BY <1>1, <1>3 DEF Closed
  <1>5. ASSUME NEW f \in DOMAIN files', NEW i \in DOMAIN files'[f].text
        PROVE  /\ f \in DOMAIN files /\ files'[f].text = files[f].text
               /\ i \in Nat /\ i <= Len(files[f].text)
               /\ i <= files[f].onDisk => i <= files'[f].onDisk
    <2>1. f \in DOMAIN files /\ files'[f].text = files[f].text
      BY <1>1, <1>3
    <2>2. i \in Nat /\ i <= Len(files[f].text)
      BY <2>1, OnDiskType
    <2>3. files[f].onDisk <= files'[f].onDisk /\ files[f].onDisk \in Nat /\ files'[f].onDisk \in Nat
      BY <1>2, <1>3, <2>1, LastFileNext DEF File
    <2> QED
      BY <2>1, <2>2, <2>3
  <1>6. ASSUME NEW t, NEW n, Saved(files, t, n) PROVE Saved(files', t, n)
    BY <1>5, <1>6 DEF Saved
  <1>7. ASSUME disk = Len(file.text), NEW t, NEW n PROVE Saved(files', t, n)
    BY <1>3, <1>5, <1>7 DEF Saved
  <1> QED
    BY <1>4, <1>6, <1>7

LEMMA OpenedDisk ==
  ASSUME TypeOK, TypeOK', Closed(files), Opened
  PROVE  /\ Closed(files')
         /\ \A t, n : Saved(files, t, n) => Saved(files', t, n)
  <1>1. /\ Len(files') = Len(files) + 1 /\ DOMAIN files' = 1 .. Len(files) + 1
        /\ \A f \in DOMAIN files : f # Len(files) => files'[f] = files[f]
        /\ files'[Len(files)].text = files[Len(files)].text
        /\ files'[Len(files)].onDisk = Len(files[Len(files)].text)
        /\ files'[Len(files) + 1].text = <<>> /\ files'[Len(files) + 1].onDisk = 0
    BY OpenedFile, LastFile DEF Opened
  <1>2. \A f \in DOMAIN files : /\ files'[f].text = files[f].text
                                /\ files'[f].onDisk = Len(files[f].text)
    BY <1>1, LastFile DEF Closed
  <1>3. \A f \in DOMAIN files' : f \in DOMAIN files \/ f = Len(files) + 1
    BY <1>1, LastFile
  <1>4. Closed(files')
    <2>1. \A f \in DOMAIN files : Len(files[f].text) \in Nat /\ f \in Nat
      BY OnDiskType, LastFile
    <2>2. Len(<<>>) = 0
      OBVIOUS
    <2> QED
      BY <1>1, <1>2, <1>3, <2>1, <2>2, LastFile DEF Closed
  <1>5. ASSUME NEW t, NEW n, Saved(files, t, n) PROVE Saved(files', t, n)
    <2> SUFFICES ASSUME NEW f \in DOMAIN files', NEW i \in DOMAIN files'[f].text
                 PROVE  i <= files'[f].onDisk
      BY DEF Saved
    <2>1. f \in DOMAIN files
      BY <1>1, <1>3
    <2>2. files[f].text \in Seq(Part) /\ files'[f].text = files[f].text
      BY <1>2, <2>1, OnDiskType
    <2> QED
      BY <1>2, <2>1, <2>2
  <1> QED
    BY <1>4, <1>5

LEMMA GrownDisk ==
  ASSUME TypeOK, TypeOK', Closed(files), NEW t \in Threads, NEW part \in Part,
         PartWritten(t, part), part.line.by = t
  PROVE  /\ Closed(files')
         /\ \A u, n : u # t /\ Saved(files, u, n) => Saved(files', u, n)
  <1> DEFINE last == Len(files)
  <1>1. /\ last \in DOMAIN files /\ DOMAIN files' = DOMAIN files /\ Len(files') = last
        /\ \A f \in DOMAIN files : f # last => files'[f] = files[f]
        /\ files'[last].text = Append(files[last].text, part)
        /\ files'[last].onDisk = files[last].onDisk
    BY PartWrittenFile, LastFile DEF PartWritten
  <1>2. \A f \in DOMAIN files :
          files[f].onDisk \in Nat /\ files[f].text \in Seq(Part) /\ Len(files[f].text) \in Nat
    BY OnDiskType
  <1> HIDE DEF last
  <1>3. /\ Len(files'[last].text) = Len(files[last].text) + 1
        /\ DOMAIN files'[last].text = 1 .. Len(files[last].text) + 1
        /\ files'[last].text[Len(files[last].text) + 1] = part
        /\ \A i \in DOMAIN files[last].text : files'[last].text[i] = files[last].text[i]
    BY <1>1, <1>2
  <1>4. Closed(files')
    <2> SUFFICES ASSUME NEW f \in DOMAIN files
                 PROVE  /\ files'[f].onDisk <= Len(files'[f].text)
                        /\ f < last => files'[f].onDisk = Len(files'[f].text)
      BY <1>1 DEF Closed
    <2>1. /\ files[f].onDisk <= Len(files[f].text)
          /\ f < last => files[f].onDisk = Len(files[f].text)
      BY DEF Closed, last
    <2>2. CASE f = last
      BY <1>1, <1>2, <1>3, <2>1, <2>2, LastFile DEF last
    <2>3. CASE f # last
      BY <1>1, <2>1, <2>3
    <2> QED
      BY <2>2, <2>3
  <1>5. ASSUME NEW u, NEW n, u # t, Saved(files, u, n) PROVE Saved(files', u, n)
    <2> SUFFICES ASSUME NEW f \in DOMAIN files, NEW i \in DOMAIN files'[f].text,
                        files'[f].text[i].line.by = u, files'[f].text[i].line.k = n
                 PROVE  i <= files'[f].onDisk
      BY <1>1, Zenon DEF Saved
    <2>1. CASE f = last
      <3>1. i # Len(files[last].text) + 1
        BY <1>3, <1>5, <2>1
      <3>2. i \in DOMAIN files[last].text
        BY <1>1, <1>2, <1>3, <2>1, <3>1
      <3> QED
        BY <1>1, <1>3, <1>5, <2>1, <3>2 DEF Saved
    <2>2. CASE f # last
      BY <1>1, <1>5, <2>2 DEF Saved
    <2> QED
      BY <2>1, <2>2
  <1> QED
    BY <1>4, <1>5


LEMMA InitFatal == Init => FatalInv
  <1> SUFFICES ASSUME Init PROVE FatalInv
    OBVIOUS
  <1>1. Closed(files)
    <2>1. \A f \in DOMAIN files : f = 1 /\ files[f].text = <<>> /\ files[f].onDisk = 0
      BY FirstFile
    <2> QED
      BY <2>1, FirstFile DEF Closed
  <1> QED
    BY <1>1, FirstFile DEF FatalInv

LEMMA FatalStep == TypeOK /\ TypeOK' /\ Control /\ FatalInv /\ [Next]_vars => FatalInv'
  <1> SUFFICES ASSUME TypeOK, TypeOK', Control, FatalInv, [Next]_vars PROVE FatalInv'
    OBVIOUS
  <1>0. flushed \in SUBSET Threads /\ NoOne \notin Threads
    BY NoneOfThreads DEF TypeOK
  <1>1. ASSUME NEW t \in Threads, Statement(t) PROVE FatalInv'
    <2>1. /\ stmt[t] = NoStatement
          /\ \A u \in Threads : u # t => stmt'[u] = stmt[u]
          /\ count' = [count EXCEPT ![t] = count[t] + 1]
          /\ call' = [call EXCEPT ![t] = "append"]
          /\ UNCHANGED <<files, flushed, aborted>> /\ aborted = NoOne
      BY <1>1, StatementEffect DEF SameFile
    <2>2. \A u \in Threads : u # t => line'[u] = line[u]
      <3>1. PICK n \in Nat : line' = [line EXCEPT ![t] = [by |-> t, k |-> count[t] + 1, len |-> n]]
        BY <1>1, StatementEffect
      <3> QED
        BY <3>1 DEF TypeOK
    <2>3. call'[t] = "append" /\ \A u \in Threads : u # t => call'[u] = call[u] /\ count'[u] = count[u]
      BY <2>1 DEF TypeOK
    <2>4. t \notin flushed
      BY <2>1 DEF FatalInv
    <2>5. Closed(files')
      BY <2>1 DEF FatalInv
    <2>6. \A u \in Threads : count'[u] > 0 /\ call'[u] # "append" => There(files', line'[u])
      BY <2>1, <2>2, <2>3 DEF FatalInv
    <2>7. ASSUME NEW u \in flushed'
          PROVE  /\ stmt'[u] # NoStatement /\ call'[u] \in {"none", "flush"}
                 /\ call'[u] = "none" => Saved(files', u, count'[u])
      BY <1>0, <2>1, <2>3, <2>4 DEF FatalInv
    <2> QED
      BY <2>1, <2>5, <2>6, <2>7 DEF FatalInv
  <1>2. ASSUME NEW t \in Threads, InLogFile(t) PROVE FatalInv'
    <2>1. /\ aborted = NoOne /\ LogFileStep(t)
          /\ \A u \in Threads : \/ stmt'[u] = stmt[u]
                                \/ u = t /\ call[t] # "flush" /\ call'[t] = "none"
          /\ UNCHANGED <<count, flushed, aborted>>
      BY <1>2, InLogFileEffect
    <2>2. ASSUME t \notin flushed, \A u \in Threads : u # t => call'[u] = call[u], Closed(files'),
                 \A u \in flushed : Saved(files, u, count[u]) => Saved(files', u, count[u]),
                 \A u \in Threads : count[u] > 0 /\ call'[u] # "append" => There(files', line'[u])
          PROVE  FatalInv'
      <3>1. ASSUME NEW u \in flushed
            PROVE  /\ stmt'[u] # NoStatement /\ call'[u] \in {"none", "flush"}
                   /\ call'[u] = "none" => Saved(files', u, count[u])
        <4>1. u \in Threads /\ u # t
          BY <1>0, <2>2
        <4>2. stmt'[u] = stmt[u] /\ call'[u] = call[u]
          BY <2>1, <2>2, <4>1
        <4> QED
          BY <2>2, <4>2 DEF FatalInv
      <3> QED
        BY <2>1, <2>2, <3>1 DEF FatalInv
    <2>3. ASSUME t \in flushed PROVE call[t] \in {"none", "flush"}
      BY <2>3 DEF FatalInv
    <2>4. \A u \in Threads : count[u] > 0 /\ call[u] # "append" => There(files, line[u])
      BY DEF FatalInv
    <2>5. CASE AppendWrite(t)
      <3>1. PICK part \in Part : PartWritten(t, part)
        BY <2>5, WriteEffect
      <3>2. /\ call[t] = "append" \/ call[t] = "write"
            /\ call' = [call EXCEPT ![t] = "write"] /\ line' = line
        BY <2>5, WriteEffect
      <3>3. part.line = line[t] /\ part.line.by = t
        BY <3>1, <3>2 DEF PartWritten, Control
      <3>4. t \notin flushed /\ \A u \in Threads : u # t => call'[u] = call[u]
        BY <2>3, <3>2 DEF TypeOK
      <3>5. /\ Closed(files')
            /\ \A u \in flushed : Saved(files, u, count[u]) => Saved(files', u, count[u])
        <4>1. Closed(files)
          BY DEF FatalInv
        <4>2. /\ Closed(files')
              /\ \A u, n : u # t /\ Saved(files, u, n) => Saved(files', u, n)
          BY <3>1, <3>3, <4>1, GrownDisk
        <4> QED
          BY <3>4, <4>2
      <3>6. \A u \in Threads : count[u] > 0 /\ call'[u] # "append" => There(files', line'[u])
        <4>1. TextGrown(files, files', part)
          BY <3>1, PartWrittenFile
        <4>2. There(files', part.line) /\ \A l : There(files, l) => There(files', l)
          BY <4>1, ThereGrown
        <4> QED
          BY <2>4, <3>2, <3>3, <3>4, <4>2
      <3> QED
        BY <2>2, <3>4, <3>5, <3>6
    <2>6. CASE AppendOversize(t) \/ AppendCount(t) \/ AppendCheck(t)
      <3>1. /\ call[t] = "write"
            /\ CountsOn(t) \/ RollsNext(t) \/ Checks(t)
            /\ line' = line
        BY <2>6, EndEffect
      <3>2. PICK disk \in {file.onDisk, Len(file.text)} : Touched(InAll(t), disk)
        BY <3>1 DEF CountsOn, RollsNext, Checks
      <3>3. t \notin flushed /\ \A u \in Threads : u # t => call'[u] = call[u]
        BY <2>3, <3>1 DEF CountsOn, RollsNext, Checks, Unlocks, TypeOK
      <3>4. /\ Closed(files')
            /\ \A u \in flushed : Saved(files, u, count[u]) => Saved(files', u, count[u])
        <4>1. Closed(files)
          BY DEF FatalInv
        <4> QED
          BY <3>2, <4>1, TouchedDisk
      <3>5. \A u \in Threads : count[u] > 0 /\ call'[u] # "append" => There(files', line'[u])
        BY <2>4, <3>1, <3>2, <3>3, TouchedFile, ThereKept
      <3> QED
        BY <2>2, <3>3, <3>4, <3>5
    <2>7. CASE RollFile(t)
      <3>1. /\ call[t] = "roll"
            /\ Opened \/ TooEarly
            /\ Unlocks(t) /\ line' = line
        BY <2>7, RollEffect
      <3>2. t \notin flushed /\ \A u \in Threads : u # t => call'[u] = call[u]
        BY <2>3, <3>1 DEF Unlocks, TypeOK
      <3>3. TextsKept(files, files')
        BY <3>1, OpenedFile DEF TooEarly, TextsKept
      <3>4. /\ Closed(files')
            /\ \A u \in flushed : Saved(files, u, count[u]) => Saved(files', u, count[u])
        <4>1. Closed(files)
          BY DEF FatalInv
        <4>2. CASE Opened
          BY <4>1, <4>2, OpenedDisk
        <4>3. CASE TooEarly
          <5>1. files' = files
            BY <4>3 DEF TooEarly
          <5> QED
            BY <4>1, <5>1
        <4> QED
          BY <3>1, <4>2, <4>3
      <3>5. \A u \in Threads : count[u] > 0 /\ call'[u] # "append" => There(files', line'[u])
        BY <2>4, <3>1, <3>2, <3>3, ThereKept
      <3> QED
        BY <2>2, <3>2, <3>4, <3>5
    <2>8. CASE Flush(t)
      <3>1. /\ call[t] = "flush" /\ call' = [call EXCEPT ![t] = "none"] /\ line' = line
            /\ Touched(file.writtenBytes, Len(file.text))
        BY <2>8, FlushEffect
      <3>2. call'[t] = "none" /\ \A u \in Threads : u # t => call'[u] = call[u]
        BY <3>1 DEF TypeOK
      <3>3. Closed(files') /\ \A u, n : Saved(files', u, n)
        <4>1. Closed(files)
          BY DEF FatalInv
        <4> QED
          BY <3>1, <4>1, TouchedDisk
      <3>4. \A u \in Threads : count[u] > 0 /\ call'[u] # "append" => There(files', line'[u])
        BY <2>4, <3>1, <3>2, TouchedFile, ThereKept
      <3>5. ASSUME NEW u \in flushed
            PROVE  stmt'[u] # NoStatement /\ call'[u] \in {"none", "flush"}
        <4>1. u \in Threads
          BY <1>0
        <4> QED
          BY <2>1, <3>1, <3>2, <4>1 DEF FatalInv
      <3> QED
        BY <2>1, <3>3, <3>4, <3>5 DEF FatalInv
    <2> QED
      BY <2>1, <2>5, <2>6, <2>7, <2>8 DEF LogFileStep
  <1>3. CASE Quiet
    <2>1. /\ UNCHANGED <<files, line, count, stmt>>
          /\ \A u \in Threads : \/ call'[u] = call[u]
                                \/ call[u] = "none" /\ call'[u] = "flush" /\ stmt[u] # NoStatement
      BY <1>3, QuietEffect
    <2>2. /\ \A u \in flushed' : u \in flushed \/ (u \in Threads /\ call'[u] = "flush")
          /\ \/ aborted' = aborted /\ (aborted # NoOne => UNCHANGED call) /\ flushed \subseteq flushed'
             \/ aborted' \in flushed /\ call[aborted'] = "none" /\ UNCHANGED <<call, flushed>>
      <3>1. ASSUME NEW t \in Threads, CallFlush(t)
            PROVE  /\ aborted' = aborted /\ aborted = NoOne /\ flushed' = flushed \cup {t}
                   /\ call'[t] = "flush"
        BY <3>1 DEF CallFlush, Fatal, TypeOK
      <3>2. ASSUME NEW t \in Threads, Abort(t)
            PROVE  aborted' = t /\ t \in flushed /\ call[t] = "none" /\ UNCHANGED <<call, flushed>>
        BY <3>2 DEF Abort, Fatal, fileVars
      <3>3. CASE SetTimeZone \/ Tick \/ UNCHANGED vars
        BY <3>3 DEF SetTimeZone, Tick, Advance, vars, fileVars, loggerVars
      <3>4. ASSUME NEW t \in Threads, Construct(t) \/ FormatTime(t)
            PROVE  UNCHANGED <<call, flushed, aborted>>
        BY <3>4, Zenon DEF Construct, FormatTime, fileVars
      <3> QED
        BY <1>3, <3>1, <3>2, <3>3, <3>4 DEF Quiet
    <2>3. \A u \in Threads : count'[u] > 0 /\ call'[u] # "append" => There(files', line'[u])
      BY <2>1 DEF FatalInv
    <2>4. ASSUME NEW u \in flushed'
          PROVE  /\ stmt'[u] # NoStatement /\ call'[u] \in {"none", "flush"}
                 /\ call'[u] = "none" => Saved(files', u, count'[u])
      <3>1. u \in Threads /\ (u \in flushed \/ call'[u] = "flush")
        BY <1>0, <2>2
      <3>2. CASE call'[u] = call[u] /\ u \in flushed
        BY <2>1, <3>2 DEF FatalInv
      <3>3. CASE call'[u] = "flush" /\ call[u] = "none" /\ stmt[u] # NoStatement
        BY <2>1, <3>3
      <3>4. CASE call'[u] = call[u] /\ call'[u] = "flush"
        BY <2>1, <3>1, <3>4 DEF Control
      <3> QED
        BY <2>1, <3>1, <3>2, <3>3, <3>4
    <2>5. aborted' # NoOne => aborted' \in flushed' /\ call'[aborted'] = "none"
      BY <1>0, <2>2 DEF FatalInv
    <2> QED
      BY <2>1, <2>3, <2>4, <2>5 DEF FatalInv
  <1> QED
    BY <1>1, <1>2, <1>3, StepCases

LEMMA FatalSaved == TypeOK /\ Control /\ FatalInv => FatalOnDisk
  <1> SUFFICES ASSUME TypeOK, Control, FatalInv, aborted # NoOne
               PROVE  LET mine == {p \in Parts : PartAt(p).line.by = aborted
                                                 /\ PartAt(p).line.k = count[aborted]}
                      IN  /\ mine # {}
                          /\ \A p \in mine : \A q \in Parts : q = p \/ Before(q, p) => OnDisk(q)
    BY DEF FatalOnDisk
  <1> DEFINE a == aborted
             mine == {p \in Parts : PartAt(p).line.by = a /\ PartAt(p).line.k = count[a]}
  <1>1. a \in Threads /\ a \in flushed /\ call[a] = "none" /\ stmt[a] # NoStatement
    BY DEF FatalInv, TypeOK
  <1>2. count[a] > 0 /\ line[a].by = a /\ line[a].k = count[a]
    BY <1>1 DEF Control
  <1>3. Saved(files, a, count[a]) /\ Closed(files)
    BY <1>1 DEF FatalInv
  <1>4. mine # {}
    <2>1. There(files, line[a])
      BY <1>1, <1>2 DEF FatalInv
    <2>2. PICK f \in DOMAIN files : \E i \in DOMAIN files[f].text : files[f].text[i].line = line[a]
      BY <2>1 DEF There
    <2>3. PICK i \in DOMAIN files[f].text : files[f].text[i].line = line[a]
      BY <2>2
    <2>4. <<f, i>> \in Parts /\ PartAt(<<f, i>>) = files[f].text[i]
      BY <2>3 DEF Parts, PartAt
    <2> QED
      BY <1>2, <2>3, <2>4
  <1>5. ASSUME NEW p \in mine, NEW q \in Parts, q = p \/ Before(q, p)
        PROVE  OnDisk(q)
    <2>1. p \in Parts /\ p[2] <= files[p[1]].onDisk
      BY <1>3, PartOf DEF Saved
    <2>2. /\ p[1] \in DOMAIN files /\ q[1] \in DOMAIN files
          /\ p[2] \in DOMAIN files[p[1]].text /\ q[2] \in DOMAIN files[q[1]].text
      BY <2>1, PartOf
    <2>3. files[q[1]].onDisk \in Nat /\ q[2] \in Nat /\ q[2] <= Len(files[q[1]].text)
      BY <2>2, OnDiskType
    <2>4. files[p[1]].onDisk \in Nat /\ p[2] \in Nat /\ p[1] \in Nat /\ p[1] <= Len(files) /\ q[1] \in Nat
      BY <2>2, OnDiskType, LastFile
    <2>5. CASE q = p
      BY <2>1, <2>5 DEF OnDisk
    <2>6. CASE q[1] < p[1]
      <3>1. files[q[1]].onDisk = Len(files[q[1]].text)
        BY <1>3, <2>2, <2>4, <2>6, LastFile DEF Closed
      <3> QED
        BY <2>3, <3>1 DEF OnDisk
    <2>7. CASE q[1] = p[1] /\ q[2] < p[2]
      BY <2>1, <2>3, <2>4, <2>7 DEF OnDisk
    <2> QED
      BY <1>5, <2>5, <2>6, <2>7 DEF Before
  <1> QED
    BY <1>4, <1>5

(* When a FATAL statement aborts the program, its line and all that comes  *)
(* before it is on the disk, whoever rolled the file in the meantime       *)
(* (logging.cc:125-132).                                                   *)
THEOREM FatalLineOnDisk == Spec => []FatalOnDisk
  <1> DEFINE I == TypeOK /\ Control /\ FatalInv
  <1>1. Init => I
    BY InitType, InitFatal
  <1>2. I /\ [Next]_vars => I'
    BY TypeStep, ControlStep, FatalStep
  <1>3. I => FatalOnDisk
    BY FatalSaved
  <1> QED
    BY <1>1, <1>2, <1>3, PTL DEF Spec

-----------------------------------------------------------------------------
(* Rolling.                                                                *)

LEMMA Quotients ==
  ASSUME NEW a \in Int, NEW b \in Int, NEW k \in Nat \ {0}, a <= b
  PROVE  a \div k \in Int /\ b \div k \in Int /\ a \div k <= b \div k
  <1>1. /\ a \div k \in Int /\ a % k \in 0 .. k - 1 /\ a = k * (a \div k) + (a % k)
        /\ b \div k \in Int /\ b % k \in 0 .. k - 1 /\ b = k * (b \div k) + (b % k)
    OBVIOUS
  <1>2. ASSUME NEW x \in Int, NEW y \in Int, NEW r \in 0 .. k - 1, NEW s \in 0 .. k - 1,
               k * x + r <= k * y + s
        PROVE  x <= y
    <2> SUFFICES ASSUME x >= y + 1 PROVE FALSE
      OBVIOUS
    <2>1. k * x >= k * (y + 1)
      OBVIOUS
    <2>2. k * (y + 1) = k * y + k
      OBVIOUS
    <2> QED
      BY <1>2, <2>1, <2>2
  <1> QED
    BY <1>1, <1>2

LEMMA Periods ==
  ASSUME NEW a \in Int, NEW b \in Int, a <= b
  PROVE  StartOfPeriod(a) \in Int /\ StartOfPeriod(b) \in Int
         /\ StartOfPeriod(a) <= StartOfPeriod(b)
  <1>1. kRollPerSeconds_ \in Nat \ {0}
    BY LogFileAssumption
  <1> DEFINE x == a \div kRollPerSeconds_
             y == b \div kRollPerSeconds_
  <1>2. x \in Int /\ y \in Int /\ x <= y
    BY <1>1, Quotients
  <1> HIDE DEF x, y
  <1>3. x * kRollPerSeconds_ <= y * kRollPerSeconds_
    BY <1>1, <1>2
  <1> QED
    BY <1>1, <1>2, <1>3 DEF StartOfPeriod, x, y

LEMMA LateSet ==
  ASSUME TypeOK, NEW f \in DOMAIN files
  PROVE  /\ IsFiniteSet(Late(files[f])) /\ Cardinality(Late(files[f])) \in Nat
         /\ Late(files[f]) \subseteq DOMAIN files[f].text
  <1>1. Late(files[f]) \subseteq 1 .. Len(files[f].text)
    BY OnDiskType DEF Late, Starts
  <1>2. IsFiniteSet(1 .. Len(files[f].text))
    BY OnDiskType, FS_Interval
  <1>3. IsFiniteSet(Late(files[f]))
    BY <1>1, <1>2, FS_Subset
  <1> QED
    BY <1>1, <1>3, FS_CardinalityType, OnDiskType

LEMMA NoneLate ==
  ASSUME TypeOK, NEW f \in DOMAIN files, NEW time \in Int, Timed(files[f], time),
         StartOfPeriod(time) = StartOfPeriod(files[f].name)
  PROVE  Cardinality(Late(files[f])) = 0
  <1>1. ASSUME NEW i \in DOMAIN files[f].text
        PROVE  StartOfPeriod(files[f].text[i].at) = StartOfPeriod(files[f].name)
    <2> DEFINE a == files[f].text[i].at
    <2>1. files[f].text[i] \in Part /\ files[f].name \in Int
      BY OnDiskType, LastFile DEF File
    <2>2. a \in Int
      BY <2>1 DEF Part
    <2>3. files[f].name <= a /\ a <= time
      BY DEF Timed
    <2> HIDE DEF a
    <2>4. /\ StartOfPeriod(files[f].name) <= StartOfPeriod(a) /\ StartOfPeriod(a) <= StartOfPeriod(time)
          /\ StartOfPeriod(a) \in Int /\ StartOfPeriod(time) \in Int
      BY <2>1, <2>2, <2>3, Periods
    <2>5. StartOfPeriod(a) = StartOfPeriod(files[f].name)
      BY <2>4
    <2> QED
      BY <2>5 DEF a
  <1>2. Late(files[f]) = {}
    BY <1>1 DEF Late, Starts
  <1> QED
    BY <1>2, FS_EmptySet

LEMMA FilesTouched ==
  ASSUME TypeOK, TypeOK', NEW written, NEW disk, Touched(written, disk), FilesInv, now' = now
  PROVE  FilesInv' /\ Late(file') = Late(file)
  <1>1. DOMAIN files' = DOMAIN files /\ Len(files) \in DOMAIN files
    BY LastFile DEF Touched
  <1>2. \A f \in DOMAIN files : files'[f].text = files[f].text /\ files'[f].name = files[f].name
    BY TouchedFile, LastFile DEF Touched
  <1>3. ASSUME NEW f, NEW g, f.text = g.text, f.name = g.name
        PROVE  /\ Late(f) = Late(g) /\ (Timed(f, now) <=> Timed(g, now))
               /\ Sized(f) <=> Sized(g)
    BY <1>3 DEF Late, Timed, Sized
  <1>4. \A f \in DOMAIN files : /\ Late(files'[f]) = Late(files[f])
                                /\ Timed(files'[f], now) /\ Sized(files'[f])
    BY <1>2, <1>3 DEF FilesInv
  <1>5. Named(files')
    BY <1>1, <1>2 DEF FilesInv, Named
  <1>6. \A f \in DOMAIN files' : Cardinality(Late(files'[f])) <= checkEveryN_
    BY <1>1, <1>4 DEF FilesInv
  <1>7. Late(file') = Late(file)
    BY <1>3, TouchedFile
  <1> QED
    BY <1>1, <1>4, <1>5, <1>6, <1>7 DEF FilesInv

LEMMA NothingIn ==
  ASSUME NEW f, f.text = <<>>
  PROVE  /\ Cardinality(Late(f)) = 0 /\ Sized(f)
         /\ \A time : Timed(f, time) /\ Recent(f, time) /\ Cardinality(WaitingAfter(f, time)) = 0
  <1>1. Late(f) = {} /\ \A time : WaitingAfter(f, time) = {}
    BY DEF Late, Starts, WaitingAfter
  <1>2. Sized(f) /\ \A time : Timed(f, time) /\ Recent(f, time)
    BY DEF Sized, Timed, Recent
  <1> QED
    BY <1>1, <1>2, FS_EmptySet

LEMMA FilesOpened ==
  ASSUME TypeOK, TypeOK', Opened, FilesInv, now' = now, Clock
  PROVE  FilesInv'
  <1>1. /\ DOMAIN files' = 1 .. Len(files) + 1 /\ now > lastRoll_
        /\ files'[Len(files) + 1].text = <<>> /\ files'[Len(files) + 1].name = now
    BY OpenedFile DEF Opened
  <1>2. \A f \in DOMAIN files : files'[f].text = files[f].text /\ files'[f].name = files[f].name
    BY OpenedFile, LastFile DEF Opened
  <1>3. ASSUME NEW f, NEW g, f.text = g.text, f.name = g.name
        PROVE  /\ Late(f) = Late(g) /\ (Timed(f, now) <=> Timed(g, now))
               /\ Sized(f) <=> Sized(g)
    BY <1>3 DEF Late, Timed, Sized
  <1>4. \A f \in DOMAIN files' : f \in DOMAIN files \/ f = Len(files) + 1
    BY <1>1, LastFile
  <1>5. \A f \in DOMAIN files : /\ Late(files'[f]) = Late(files[f])
                                /\ Timed(files'[f], now) /\ Sized(files'[f])
    BY <1>2, <1>3 DEF FilesInv
  <1>6. Named(files')
    <2>1. \A f \in DOMAIN files : files[f].name <= lastRoll_ /\ files[f].name \in Int
      <3> SUFFICES ASSUME NEW f \in DOMAIN files
                   PROVE  files[f].name <= lastRoll_ /\ files[f].name \in Int
        OBVIOUS
      <3>1. files[f].name \in Int /\ lastRoll_ \in Int /\ files[Len(files)].name = lastRoll_
        BY LastFile DEF File, Clock, TypeOK
      <3>2. f < Len(files) \/ f = Len(files)
        BY LastFile
      <3> QED
        BY <3>1, <3>2, LastFile DEF FilesInv, Named
    <2> SUFFICES ASSUME NEW f \in DOMAIN files', NEW g \in DOMAIN files', f < g
                 PROVE  files'[f].name < files'[g].name
      BY DEF Named
    <2>2. f \in DOMAIN files
      BY <1>1, LastFile
    <2>3. CASE g \in DOMAIN files
      BY <1>2, <2>2, <2>3 DEF FilesInv, Named
    <2>4. CASE g = Len(files) + 1
      <3>1. files'[f].name = files[f].name /\ files[f].name <= lastRoll_ /\ files[f].name \in Int
        BY <1>2, <2>1, <2>2
      <3>2. files'[g].name = now /\ now > lastRoll_ /\ now \in Int /\ lastRoll_ \in Int
        BY <1>1, <2>4 DEF TypeOK
      <3> QED
        BY <3>1, <3>2
    <2> QED
      BY <1>4, <2>3, <2>4
  <1>7. \A f \in DOMAIN files' : /\ Timed(files'[f], now) /\ Sized(files'[f])
                                 /\ Cardinality(Late(files'[f])) <= checkEveryN_
    <2>1. checkEveryN_ \in Nat
      BY LogFileAssumption
    <2> QED
      BY <1>1, <1>4, <1>5, <2>1, NothingIn DEF FilesInv
  <1> QED
    BY <1>6, <1>7 DEF FilesInv


(* One part more: what begins and ends before it is as it was. *)
LEMMA BehindText ==
  ASSUME NEW text \in Seq(Part), NEW part \in Part
  PROVE  LET text2 == Append(text, part)
             m == Len(text) + 1
         IN  /\ m \in Nat /\ DOMAIN text2 = 1 .. m /\ DOMAIN text = 1 .. m - 1
             /\ text2[m] = part /\ Last(text2) = part /\ text2 # <<>>
             /\ Size(text2) = part.pos + part.bytes
             /\ \A i \in DOMAIN text : text2[i] = text[i] /\ (Begins(text2, i) <=> Begins(text, i))
             /\ text # <<>> => m # 1 /\ text2[m - 1] = Last(text)
  <1> DEFINE text2 == Append(text, part)
             m == Len(text) + 1
  <1>1. /\ m \in Nat /\ DOMAIN text2 = 1 .. m /\ DOMAIN text = 1 .. m - 1 /\ Len(text2) = m
        /\ text2[m] = part /\ text2 # <<>>
        /\ \A i \in 1 .. m - 1 : text2[i] = text[i]
    OBVIOUS
  <1>2. text # <<>> => m # 1 /\ m - 1 \in 1 .. m - 1 /\ Last(text) = text[m - 1]
    BY DEF Last
  <1> HIDE DEF text2, m
  <1>3. Last(text2) = part
    BY <1>1 DEF Last
  <1>4. Size(text2) = part.pos + part.bytes
    BY <1>1, <1>3 DEF Size
  <1>5. \A i \in 1 .. m - 1 : Begins(text2, i) <=> Begins(text, i)
    <2> SUFFICES ASSUME NEW i \in 1 .. m - 1 PROVE Begins(text2, i) <=> Begins(text, i)
      OBVIOUS
    <2>1. i = 1 \/ i - 1 \in 1 .. m - 1
      BY <1>1
    <2> QED
      BY <1>1, <2>1 DEF Begins
  <1> QED
    BY <1>1, <1>2, <1>3, <1>4, <1>5 DEF text2, m

LEMMA FilesGrown ==
  ASSUME TypeOK, TypeOK', Clock, NEW t \in Threads, NEW part \in Part, PartWritten(t, part),
         FilesInv, now' = now,
         \/ /\ Size(file.text) > rollSize_ => file.text # <<>> /\ Last(file.text).at = file.name
            /\ Cardinality(Late(file)) <= count_
         \/ /\ file.text # <<>> /\ Last(file.text).line = part.line
            /\ Cardinality(Late(file)) <= count_ + 1
  PROVE  /\ FilesInv' /\ Cardinality(Late(file')) <= count_ + 1
         /\ Size(file'.text) = Size(file.text) + part.bytes
  <1> DEFINE n == Len(files)
             text == file.text
             text2 == Append(text, part)
             m == Len(text) + 1
             old == Late(file)
             new == Late(file')
  <1>1. /\ n \in DOMAIN files /\ DOMAIN files' = DOMAIN files
        /\ file' = files'[n] /\ file'.text = text2 /\ file'.name = file.name /\ file = files[n]
        /\ \A f \in DOMAIN files : f # n => files'[f] = files[f]
    BY PartWrittenFile, LastFile DEF PartWritten
  <1>2. text \in Seq(Part) /\ file.name \in Int
    BY LastFile DEF File
  <1>3. /\ m \in Nat /\ DOMAIN text2 = 1 .. m /\ DOMAIN text = 1 .. m - 1
        /\ text2[m] = part /\ Size(text2) = part.pos + part.bytes
        /\ \A i \in DOMAIN text : text2[i] = text[i] /\ (Begins(text2, i) <=> Begins(text, i))
        /\ text # <<>> => m # 1 /\ text2[m - 1] = Last(text)
    <2> HIDE DEF text
    <2> QED
      BY <1>2, BehindText
  <1>4. part.pos = Size(text) /\ part.at = now /\ now \in Int /\ part.bytes \in Nat
    BY DEF PartWritten, TypeOK, Part
  <1> HIDE DEF n, text, text2, m
  <1>5. Timed(file', now)
    <2>1. file.name <= now
      BY <1>2, <1>4 DEF Clock, TypeOK
    <2>2. \A i \in 1 .. m - 1 : file.name <= text[i].at /\ text[i].at <= now
      BY <1>1, <1>3 DEF FilesInv, Timed, text
    <2>3. \A i \in 1 .. m : i \in 1 .. m - 1 \/ i = m
      BY <1>3
    <2> QED
      BY <1>1, <1>3, <1>4, <2>1, <2>2, <2>3 DEF Timed
  <1>6. \A i \in 1 .. m - 1 :
          Begins(text, i) /\ text[i].pos > rollSize_ => i # 1 /\ text[i - 1].at = file.name
    BY <1>1, <1>3 DEF FilesInv, Sized, text
  <1>7. Sized(file')
    <2> SUFFICES ASSUME NEW i \in 1 .. m, Begins(text2, i), text2[i].pos > rollSize_
                 PROVE  i # 1 /\ text2[i - 1].at = file.name
      BY <1>1, <1>3 DEF Sized
    <2>1. CASE i \in 1 .. m - 1
      <3>1. i # 1 /\ text[i - 1].at = file.name
        BY <1>3, <1>6, <2>1
      <3>2. i - 1 \in DOMAIN text
        BY <1>3, <2>1, <3>1
      <3> QED
        BY <1>3, <3>1, <3>2
    <2>2. CASE i = m
      <3>1. ASSUME text # <<>>, Last(text).line = part.line PROVE FALSE
        BY <1>3, <2>2, <3>1 DEF Begins
      <3>2. Size(text) > rollSize_ => text # <<>> /\ Last(text).at = file.name
        BY <3>1 DEF text
      <3> QED
        BY <1>3, <1>4, <2>2, <3>2
    <2>3. i \in 1 .. m - 1 \/ i = m
      BY <1>3
    <2> QED
      BY <2>1, <2>2, <2>3
  <1>8. new \subseteq old \cup {m}
    <2> SUFFICES ASSUME NEW i \in new, i # m PROVE i \in old
      OBVIOUS
    <2>1. i \in 1 .. m /\ Begins(text2, i) /\ StartOfPeriod(text2[i].at) # StartOfPeriod(file.name)
      BY <1>1, <1>3 DEF Late, Starts
    <2>2. i \in DOMAIN text
      BY <1>3, <2>1
    <2>3. Begins(text, i) /\ text2[i] = text[i]
      BY <1>3, <2>1, <2>2
    <2> QED
      BY <2>1, <2>2, <2>3 DEF Late, Starts, text
  <1>9. text # <<>> /\ Last(text).line = part.line => m \notin new
    <2> SUFFICES ASSUME text # <<>>, Last(text).line = part.line, m \in new PROVE FALSE
      OBVIOUS
    <2>1. Begins(text2, m)
      BY <1>1 DEF Late, Starts
    <2> QED
      BY <1>3, <2>1 DEF Begins
  <1>10. /\ IsFiniteSet(old) /\ Cardinality(old) \in Nat
         /\ IsFiniteSet(new) /\ Cardinality(new) \in Nat
         /\ m \notin old
    <2>1. /\ IsFiniteSet(old) /\ Cardinality(old) \in Nat /\ old \subseteq DOMAIN text
      BY <1>1, LateSet DEF text
    <2>2. IsFiniteSet(old \cup {m})
      BY <2>1, FS_AddElement
    <2>3. IsFiniteSet(new)
      BY <1>8, <2>2, FS_Subset
    <2>4. Cardinality(new) \in Nat
      BY <2>3, FS_CardinalityType
    <2> QED
      BY <1>3, <2>1, <2>3, <2>4
  <1> HIDE DEF old, new
  <1>11. Cardinality(new) <= count_ + 1
    <2>1. IsFiniteSet(old \cup {m}) /\ Cardinality(old \cup {m}) = Cardinality(old) + 1
      BY <1>10, FS_AddElement
    <2>2. Cardinality(new) <= Cardinality(old) + 1
      BY <1>8, <2>1, FS_Subset
    <2>3. count_ \in Nat
      BY LogFileAssumption DEF TypeOK
    <2>4. CASE Cardinality(old) <= count_
      BY <1>10, <2>2, <2>3, <2>4
    <2>5. CASE text # <<>> /\ Last(text).line = part.line /\ Cardinality(old) <= count_ + 1
      <3>1. new \subseteq old
        BY <1>8, <1>9, <2>5
      <3>2. Cardinality(new) <= Cardinality(old)
        BY <1>10, <3>1, FS_Subset
      <3> QED
        BY <1>10, <2>3, <2>5, <3>2
    <2> QED
      BY <2>4, <2>5 DEF old, text
  <1>12. Named(files')
    <2>1. \A f \in DOMAIN files : files'[f].name = files[f].name
      BY <1>1
    <2> QED
      BY <1>1, <2>1 DEF FilesInv, Named
  <1>13. ASSUME NEW f \in DOMAIN files'
         PROVE  /\ Timed(files'[f], now) /\ Sized(files'[f])
                /\ Cardinality(Late(files'[f])) <= checkEveryN_
    <2>1. CASE f = n
      <3>1. count_ + 1 <= checkEveryN_ /\ count_ \in Nat /\ checkEveryN_ \in Nat
        BY LogFileAssumption DEF TypeOK
      <3>2. Cardinality(new) <= checkEveryN_
        BY <1>10, <1>11, <3>1
      <3> QED
        BY <1>1, <1>5, <1>7, <2>1, <3>2 DEF new
    <2>2. CASE f # n
      BY <1>1, <2>2 DEF FilesInv
    <2> QED
      BY <2>1, <2>2
  <1> QED
    BY <1>1, <1>3, <1>4, <1>11, <1>12, <1>13 DEF FilesInv, new, text


LEMMA InitRoll == Init => RollInv
  <1> SUFFICES ASSUME Init PROVE RollInv
    OBVIOUS
  <1>1. \A f \in DOMAIN files : f = 1 /\ files[f] = file /\ files[f].text = <<>>
    BY FirstFile
  <1>2. Clock
    BY FirstFile, BoundsAssumption DEF Clock
  <1>3. file.text = <<>> /\ file.writtenBytes = 0 /\ Size(<<>>) = 0 /\ rollSize_ \in Nat
    BY FirstFile, LogFileAssumption DEF Size
  <1>4. checkEveryN_ \in Nat /\ count_ = 0
    BY FirstFile, LogFileAssumption
  <1>5. FilesInv
    <2>1. Named(files)
      BY <1>1 DEF Named
    <2> QED
      BY <1>1, <1>4, <2>1, NothingIn DEF FilesInv
  <1>6. Counted(file, line, remain, call, mutex_)
    BY <1>3, FirstFile DEF Counted
  <1>7. Allowed(Cardinality(Late(file)), mutex_, count_, call)
    BY <1>3, <1>4, NothingIn, FirstFile DEF Allowed
  <1> QED
    BY <1>2, <1>5, <1>6, <1>7 DEF RollInv

(* Only the thread that holds the mutex is between its first write and the *)
(* end of append.                                                          *)
LEMMA Holder ==
  ASSUME Control, NEW t \in Threads, NEW u \in Threads, u # t, mutex_ = t \/ mutex_ = NoOne
  PROVE  call[u] # "write" /\ call[u] # "roll"
  <1>1. mutex_ # u
    BY NoneOfThreads
  <1> QED
    BY <1>1 DEF Control

LEMMA RollStep == TypeOK /\ TypeOK' /\ Control /\ LinesInv /\ RollInv /\ [Next]_vars => RollInv'
  <1> SUFFICES ASSUME TypeOK, TypeOK', Control, LinesInv, RollInv, [Next]_vars PROVE RollInv'
    OBVIOUS
  <1>0. Clock /\ FilesInv /\ now \in Int /\ lastRoll_ \in Int /\ lastFlush_ \in Int
    BY DEF RollInv, TypeOK
  <1>1. file \in File /\ file.text \in Seq(Part) /\ file.writtenBytes \in Int /\ Size(file.text) \in Int
    BY LastFile, SizeType DEF File
  <1>2. ASSUME NEW t \in Threads, Statement(t) PROVE RollInv'
    <2>1. call' = [call EXCEPT ![t] = "append"] /\ SameFile
      BY <1>2, StatementEffect
    <2>2. PICK n \in Nat :
            /\ line' = [line EXCEPT ![t] = [by |-> t, k |-> count[t] + 1, len |-> n]]
            /\ remain' = [remain EXCEPT ![t] = n]
      BY <1>2, StatementEffect
    <2>3. /\ call'[t] = "append"
          /\ \A u \in Threads : u # t =>
               line'[u] = line[u] /\ remain'[u] = remain[u] /\ call'[u] = call[u]
      BY <2>1, <2>2 DEF TypeOK
    <2>4. file' = file
      BY <2>1 DEF SameFile, file
    <2>5. Counted(file, line', remain', call', mutex_)
      BY <2>3 DEF RollInv, Counted
    <2>6. Allowed(Cardinality(Late(file)), mutex_, count_, call')
      BY <2>3 DEF RollInv, Allowed
    <2>7. Clock' /\ FilesInv'
      BY <1>0, <2>1, <2>4 DEF SameFile, Clock, FilesInv
    <2> QED
      BY <2>1, <2>4, <2>5, <2>6, <2>7 DEF RollInv, SameFile
  <1>3. ASSUME NEW t \in Threads, InLogFile(t) PROVE RollInv'
    <2>1. LogFileStep(t)
      BY <1>3, InLogFileEffect
    <2>2. CASE AppendWrite(t)
      <3>1. PICK part \in Part : PartWritten(t, part)
        BY <2>2, WriteEffect
      <3>2. /\ \/ call[t] = "append" /\ mutex_ = NoOne
               \/ call[t] = "write" /\ mutex_ = t
            /\ mutex_' = t /\ call' = [call EXCEPT ![t] = "write"]
            /\ UNCHANGED <<now, count_, startOfPeriod_, lastRoll_, lastFlush_, line>>
        BY <2>2, WriteEffect
      <3>3. call'[t] = "write" /\ \A u \in Threads : u # t => call'[u] # "write" /\ call'[u] # "roll"
        <4>1. \A u \in Threads : u # t => call'[u] = call[u]
          BY <3>2 DEF TypeOK
        <4>2. call'[t] = "write"
          BY <3>2 DEF TypeOK
        <4> QED
          BY <3>2, <4>1, <4>2, Holder
      <3>4. \/ /\ Size(file.text) > rollSize_ => file.text # <<>> /\ Last(file.text).at = file.name
               /\ Cardinality(Late(file)) <= count_
            \/ /\ file.text # <<>> /\ Last(file.text).line = part.line
               /\ Cardinality(Late(file)) <= count_ + 1
        <4>1. CASE call[t] = "append" /\ mutex_ = NoOne
          BY <4>1 DEF RollInv, Counted, Allowed
        <4>2. CASE call[t] = "write" /\ mutex_ = t
          <5>1. file.text # <<>> /\ Last(file.text).line = line[t]
            BY <4>2 DEF LinesInv, Begun
          <5>2. Cardinality(Late(file)) <= count_ + 1
            BY <4>2 DEF RollInv, Allowed
          <5> QED
            BY <3>1, <5>1, <5>2 DEF PartWritten
        <4> QED
          BY <3>2, <4>1, <4>2
      <3>5. /\ FilesInv' /\ Cardinality(Late(file')) <= count_ + 1
            /\ Size(file'.text) = Size(file.text) + part.bytes
        BY <1>0, <3>1, <3>2, <3>4, FilesGrown
      <3>6. file'.name = file.name /\ file'.writtenBytes = file.writtenBytes
        BY <3>1, PartWrittenFile
      <3>7. Clock'
        BY <1>0, <3>2, <3>6 DEF Clock
      <3>8. Counted(file', line, remain', call', t)
        <4>1. file.writtenBytes + (line[t].len - remain[t]) = Size(file.text)
          <5>1. CASE call[t] = "append" /\ mutex_ = NoOne
            <6>1. file.writtenBytes = Size(file.text) /\ remain[t] = line[t].len
              BY <5>1 DEF RollInv, Counted, Control
            <6>2. remain[t] \in Nat
              BY DEF TypeOK
            <6> QED
              BY <1>1, <6>1, <6>2
          <5>2. CASE call[t] = "write" /\ mutex_ = t
            BY <5>2 DEF RollInv, Counted
          <5> QED
            BY <3>2, <5>1, <5>2
        <4>2. line[t].len \in Nat /\ remain[t] \in Nat /\ part.bytes \in Nat
          BY <3>2 DEF Control, Line, TypeOK, Part
        <4>3. remain'[t] = remain[t] - part.bytes
          BY <3>1 DEF PartWritten, TypeOK
        <4>4. file'.writtenBytes + (line[t].len - remain'[t]) = Size(file'.text)
          BY <1>1, <3>5, <3>6, <4>1, <4>2, <4>3
        <4> QED
          BY <3>3, <4>4, NoneOfThreads DEF Counted
      <3>9. Allowed(Cardinality(Late(file')), t, count_, call')
        BY <3>3, <3>5, NoneOfThreads DEF Allowed
      <3> QED
        BY <3>2, <3>5, <3>7, <3>8, <3>9 DEF RollInv
    <2>3. CASE AppendOversize(t) \/ AppendCount(t) \/ AppendCheck(t)
      <3>1. /\ call[t] = "write" /\ remain[t] = 0 /\ mutex_ = t
            /\ CountsOn(t) \/ RollsNext(t) \/ Checks(t)
            /\ UNCHANGED <<now, startOfPeriod_, lastRoll_, line, remain>>
        BY <2>3, EndEffect
      <3>2. PICK disk : Touched(InAll(t), disk)
        BY <3>1, Zenon DEF CountsOn, RollsNext, Checks
      <3>3. /\ file'.text = file.text /\ file'.name = file.name /\ file'.writtenBytes = InAll(t)
            /\ FilesInv' /\ Late(file') = Late(file)
        BY <1>0, <3>1, <3>2, TouchedFile, FilesTouched
      <3>4. Clock'
        <4>1. lastFlush_' = lastFlush_ \/ lastFlush_' = now
          BY <3>1 DEF CountsOn, RollsNext, Checks
        <4> QED
          BY <1>0, <3>1, <3>3, <4>1 DEF Clock
      <3>5. file'.writtenBytes = Size(file'.text)
        <4>1. file.writtenBytes + (line[t].len - remain[t]) = Size(file.text) /\ line[t].len \in Nat
          BY <3>1 DEF RollInv, Counted, Control, Line
        <4> QED
          BY <1>1, <3>1, <3>3, <4>1 DEF InAll
      <3>6. /\ \A u \in Threads : u # t => call'[u] # "write" /\ call'[u] # "roll"
            /\ call'[t] # "write"
        <4>1. \A u \in Threads : u # t => call'[u] = call[u]
          BY <3>1 DEF CountsOn, RollsNext, Checks, Unlocks, TypeOK
        <4>2. call'[t] # "write"
          BY <3>1 DEF CountsOn, RollsNext, Checks, Unlocks, TypeOK
        <4> QED
          BY <3>1, <4>1, <4>2, Holder
      <3>7. Counted(file', line, remain, call', mutex_')
        <4>1. mutex_' = NoOne => InAll(t) <= rollSize_
          BY <3>1, NoneOfThreads DEF CountsOn, RollsNext, Checks
        <4>2. InAll(t) \in Int /\ rollSize_ \in Nat
          BY <1>1, <3>3, <3>5, LogFileAssumption
        <4> QED
          BY <3>3, <3>5, <3>6, <4>1, <4>2 DEF Counted
      <3>8. Allowed(Cardinality(Late(file)), mutex_', count_', call')
        <4>1. mutex_' = NoOne => Cardinality(Late(file)) <= count_'
          <5>1. CASE CountsOn(t)
            <6>1. Cardinality(Late(file)) <= count_ + 1
              BY <3>1 DEF RollInv, Allowed
            <6> QED
              BY <5>1, <6>1 DEF CountsOn
          <5>2. CASE RollsNext(t)
            BY <3>1, <5>2, NoneOfThreads DEF RollsNext
          <5>3. CASE Checks(t)
            <6>1. StartOfPeriod(now) = StartOfPeriod(file.name) /\ count_' = 0
              BY <1>0, <5>3 DEF Checks, NewDay, Clock
            <6>2. Cardinality(Late(file)) = 0
              BY <1>0, <6>1, LastFile, NoneLate DEF FilesInv
            <6> QED
              BY <6>1, <6>2
          <5> QED
            BY <3>1, <5>1, <5>2, <5>3
        <4> QED
          BY <3>6, <4>1 DEF Allowed
      <3> QED
        BY <3>1, <3>3, <3>4, <3>7, <3>8 DEF RollInv
    <2>4. CASE RollFile(t)
      <3>1. /\ call[t] = "roll" /\ mutex_ = t
            /\ Opened \/ TooEarly
            /\ Unlocks(t) /\ UNCHANGED <<now, count_, line, remain>>
        BY <2>4, RollEffect
      <3>2. \A u \in Threads : call'[u] # "write" /\ call'[u] # "roll"
        <4>1. call'[t] = "none" /\ \A u \in Threads : u # t => call'[u] = call[u]
          BY <3>1 DEF Unlocks, TypeOK
        <4> QED
          BY <3>1, <4>1, Holder
      <3>3. count_ \in Nat /\ rollSize_ \in Nat /\ mutex_' = NoOne
        BY <3>1, LogFileAssumption DEF TypeOK, Unlocks
      <3>4. CASE Opened
        <4>1. FilesInv'
          BY <1>0, <3>1, <3>4, FilesOpened
        <4>2. file'.text = <<>> /\ file'.name = now /\ file'.writtenBytes = 0
          BY <3>4, OpenedFile
        <4>3. Clock'
          BY <1>0, <3>1, <3>4, <4>2 DEF Opened, Clock
        <4>4. Counted(file', line, remain, call', NoOne)
          BY <3>2, <3>3, <4>2 DEF Counted, Size
        <4>5. Allowed(Cardinality(Late(file')), NoOne, count_, call')
          BY <3>2, <3>3, <4>2, NothingIn DEF Allowed
        <4> QED
          BY <3>1, <3>3, <4>1, <4>3, <4>4, <4>5 DEF RollInv
      <3>5. CASE TooEarly
        <4>1. file' = file /\ UNCHANGED <<lastRoll_, lastFlush_, startOfPeriod_, files>> /\ now <= lastRoll_
          BY <3>5 DEF TooEarly, file
        <4>2. Clock' /\ FilesInv'
          BY <1>0, <3>1, <4>1 DEF Clock, FilesInv
        <4>3. now = file.name
          BY <1>0, <4>1 DEF Clock
        <4>4. file.text # <<>> => Last(file.text).at = file.name
          <5>1. ASSUME file.text # <<>>
                PROVE  Len(file.text) \in DOMAIN file.text /\ Last(file.text) = file.text[Len(file.text)]
            BY <1>1, <5>1 DEF Last
          <5>2. Timed(file, now)
            BY <1>0, LastFile DEF FilesInv
          <5>3. ASSUME file.text # <<>> PROVE Last(file.text).at \in Int
            <6>1. Last(file.text) \in Part
              BY <1>1, <5>1, <5>3
            <6> QED
              BY <6>1 DEF Part
          <5> QED
            BY <1>0, <4>3, <5>1, <5>2, <5>3 DEF Timed
        <4>5. Counted(file, line, remain, call', NoOne)
          <5>1. file.writtenBytes = Size(file.text)
            BY <3>1 DEF RollInv, Counted
          <5>2. Size(file.text) > rollSize_ => file.text # <<>>
            BY <3>3 DEF Size
          <5> QED
            BY <3>2, <4>4, <5>1, <5>2 DEF Counted
        <4>6. Allowed(Cardinality(Late(file)), NoOne, count_, call')
          <5>1. Cardinality(Late(file)) = 0
            BY <1>0, <4>3, LastFile, NoneLate DEF FilesInv
          <5> QED
            BY <3>2, <3>3, <5>1 DEF Allowed
        <4> QED
          BY <3>1, <3>3, <4>1, <4>2, <4>5, <4>6 DEF RollInv
      <3> QED
        BY <3>1, <3>4, <3>5
    <2>5. CASE Flush(t)
      <3>1. /\ call[t] = "flush" /\ mutex_ = NoOne
            /\ Touched(file.writtenBytes, Len(file.text))
            /\ call' = [call EXCEPT ![t] = "none"]
            /\ UNCHANGED <<now, count_, startOfPeriod_, lastRoll_, lastFlush_, mutex_, line, remain>>
        BY <2>5, FlushEffect
      <3>2. /\ file'.text = file.text /\ file'.name = file.name /\ file'.writtenBytes = file.writtenBytes
            /\ FilesInv' /\ Late(file') = Late(file)
        BY <1>0, <3>1, TouchedFile, FilesTouched
      <3>3. Clock'
        BY <1>0, <3>1, <3>2 DEF Clock
      <3>4. call'[t] = "none" /\ \A u \in Threads : u # t => call'[u] = call[u]
        BY <3>1 DEF TypeOK
      <3>5. Counted(file', line, remain, call', mutex_)
        BY <3>2, <3>4 DEF RollInv, Counted
      <3>6. Allowed(Cardinality(Late(file)), mutex_, count_, call')
        BY <3>4 DEF RollInv, Allowed
      <3> QED
        BY <3>1, <3>2, <3>3, <3>5, <3>6 DEF RollInv
    <2> QED
      BY <2>1, <2>2, <2>3, <2>4, <2>5 DEF LogFileStep
  <1>4. CASE Quiet
    <2>1. /\ UNCHANGED <<files, count_, startOfPeriod_, lastRoll_, lastFlush_, mutex_, line, remain>>
          /\ now' \in Int /\ now <= now'
          /\ \A u \in Threads : call'[u] = call[u] \/ call'[u] = "flush"
      BY <1>4, QuietEffect
    <2>2. file' = file
      BY <2>1 DEF file
    <2>3. Clock'
      BY <1>0, <2>1, <2>2 DEF Clock
    <2>4. FilesInv'
      <3>1. ASSUME NEW f \in DOMAIN files PROVE Timed(files[f], now')
        <4> SUFFICES ASSUME NEW i \in DOMAIN files[f].text
                     PROVE  files[f].name <= files[f].text[i].at /\ files[f].text[i].at <= now'
          BY DEF Timed
        <4>1. files[f].text[i].at \in Int
          <5>1. files[f].text[i] \in Part
            BY OnDiskType
          <5> QED
            BY <5>1 DEF Part
        <4>2. files[f].name <= files[f].text[i].at /\ files[f].text[i].at <= now
          BY <1>0 DEF FilesInv, Timed
        <4> QED
          BY <1>0, <2>1, <4>1, <4>2
      <3> QED
        BY <1>0, <2>1, <3>1 DEF FilesInv
    <2>5. Counted(file, line, remain, call', mutex_)
      BY <2>1 DEF RollInv, Counted
    <2>6. Allowed(Cardinality(Late(file)), mutex_, count_, call')
      BY <2>1 DEF RollInv, Allowed
    <2> QED
      BY <2>1, <2>2, <2>3, <2>4, <2>5, <2>6 DEF RollInv
  <1> QED
    BY <1>2, <1>3, <1>4, StepCases

LEMMA RollsInTime == TypeOK /\ RollInv => RolledInTime
  <1> SUFFICES ASSUME TypeOK, RollInv, NEW f \in DOMAIN files
               PROVE  /\ \A i \in Starts(files[f].text) :
                           files[f].text[i].pos > rollSize_ => files[f].text[i - 1].at = files[f].name
                      /\ LET late == Cardinality(Late(files[f]))
                         IN  \/ late < checkEveryN_
                             \/ late = checkEveryN_ /\ (mutex_ # NoOne \/ f < Len(files))
                      /\ \A g \in DOMAIN files : f < g => files[f].name < files[g].name
    BY Zenon DEF RolledInTime
  <1>1. \A i \in Starts(files[f].text) :
          files[f].text[i].pos > rollSize_ => files[f].text[i - 1].at = files[f].name
    BY DEF RollInv, FilesInv, Sized, Starts
  <1>2. \A g \in DOMAIN files : f < g => files[f].name < files[g].name
    BY DEF RollInv, FilesInv, Named
  <1>3. /\ Cardinality(Late(files[f])) \in Nat /\ Cardinality(Late(files[f])) <= checkEveryN_
        /\ f = Len(files) /\ mutex_ = NoOne => Cardinality(Late(files[f])) <= count_
    BY LateSet, LastFile DEF RollInv, FilesInv, Allowed
  <1>4. count_ < checkEveryN_ /\ count_ \in Nat /\ checkEveryN_ \in Nat
    BY LogFileAssumption DEF TypeOK
  <1>5. f < Len(files) \/ f = Len(files)
    BY LastFile
  <1> QED
    BY <1>1, <1>2, <1>3, <1>4, <1>5

(* A file is rolled when it has become too large or too old, as soon as    *)
(* the counter of checks and the guard against two files of one name allow *)
(* (logfile.cc:73-113).                                                    *)
THEOREM FilesRolledInTime == Spec => []RolledInTime
  <1> DEFINE I == TypeOK /\ Control /\ LinesInv /\ RollInv
  <1>1. Init => I
    BY InitType, InitLines, InitRoll
  <1>2. I /\ [Next]_vars => I'
    BY TypeStep, ControlStep, LinesStep, RollStep
  <1>3. I => RolledInTime
    BY RollsInTime
  <1> QED
    BY <1>1, <1>2, <1>3, PTL DEF Spec

-----------------------------------------------------------------------------
(* Flushing.                                                               *)

WaitTime == lastFlush_ + flushInterval_

Waiting == WaitingAfter(file, WaitTime)

LEMMA WaitingSet ==
  ASSUME TypeOK, NEW time
  PROVE  /\ IsFiniteSet(WaitingAfter(file, time)) /\ Cardinality(WaitingAfter(file, time)) \in Nat
         /\ WaitingAfter(file, time) \subseteq DOMAIN file.text
  <1>1. file.text \in Seq(Part) /\ DOMAIN file.text = 1 .. Len(file.text) /\ Len(file.text) \in Nat
    BY LastFile DEF File
  <1>2. WaitingAfter(file, time) \subseteq 1 .. Len(file.text)
    BY <1>1 DEF WaitingAfter, Starts
  <1>3. IsFiniteSet(1 .. Len(file.text))
    BY <1>1, FS_Interval
  <1>4. IsFiniteSet(WaitingAfter(file, time))
    BY <1>2, <1>3, FS_Subset
  <1> QED
    BY <1>1, <1>2, <1>4, FS_CardinalityType

(* All that is in the file is on the disk. *)
LEMMA NoneWaiting ==
  ASSUME NEW f, f.text \in Seq(Part), f.onDisk = Len(f.text)
  PROVE  \A time : Recent(f, time) /\ Cardinality(WaitingAfter(f, time)) = 0
  <1>1. \A i \in DOMAIN f.text : ~ i > f.onDisk
    OBVIOUS
  <1>2. \A time : Recent(f, time) /\ WaitingAfter(f, time) = {}
    BY <1>1 DEF Recent, WaitingAfter, Starts
  <1> QED
    BY <1>2, FS_EmptySet

(* No part is later than the clock. *)
LEMMA NoneLaterThanNow ==
  ASSUME TypeOK, Timed(file, now), NEW time \in Int, now <= time
  PROVE  Cardinality(WaitingAfter(file, time)) = 0
  <1>1. ASSUME NEW i \in DOMAIN file.text PROVE ~ file.text[i].at > time
    <2>1. file.text[i] \in Part
      BY LastFile, OnDiskType
    <2>2. file.text[i].at \in Int /\ now \in Int
      BY <2>1 DEF Part, TypeOK
    <2> QED
      BY <2>2 DEF Timed
  <1>2. WaitingAfter(file, time) = {}
    BY <1>1 DEF WaitingAfter, Starts
  <1> QED
    BY <1>2, FS_EmptySet

LEMMA WaitingSame ==
  ASSUME NEW f, NEW g, f.text = g.text, f.onDisk = g.onDisk
  PROVE  \A time : /\ WaitingAfter(f, time) = WaitingAfter(g, time)
                   /\ Recent(f, time) <=> Recent(g, time)
  BY DEF WaitingAfter, Recent, Starts

LEMMA WaitingGrown ==
  ASSUME TypeOK, TypeOK', Clock, NEW t \in Threads, NEW part \in Part, PartWritten(t, part),
         Recent(file, lastFlush_), UNCHANGED lastFlush_,
         \/ Cardinality(Waiting) <= count_
         \/ /\ file.text # <<>> /\ Last(file.text).line = part.line
            /\ Cardinality(Waiting) <= count_ + 1
  PROVE  /\ Recent(file', lastFlush_)
         /\ Cardinality(Waiting') <= count_ + 1
  <1> DEFINE text == file.text
             text2 == Append(text, part)
             m == Len(text) + 1
             old == Waiting
             new == Waiting'
  <1>1. file'.text = text2 /\ file'.onDisk = file.onDisk /\ WaitTime' = WaitTime
    BY PartWrittenFile DEF WaitTime
  <1>2. text \in Seq(Part) /\ lastFlush_ \in Int
    BY LastFile DEF File, TypeOK
  <1>3. /\ m \in Nat /\ DOMAIN text2 = 1 .. m /\ DOMAIN text = 1 .. m - 1
        /\ text2[m] = part
        /\ \A i \in DOMAIN text : text2[i] = text[i] /\ (Begins(text2, i) <=> Begins(text, i))
        /\ text # <<>> => m # 1 /\ text2[m - 1] = Last(text)
    <2> HIDE DEF text
    <2> QED
      BY <1>2, BehindText
  <1>4. part.at = now /\ now >= lastFlush_
    BY <1>2 DEF PartWritten, Clock, TypeOK
  <1> HIDE DEF text, text2, m
  <1>5. Recent(file', lastFlush_)
    <2>1. \A i \in 1 .. m - 1 : i > file.onDisk => text[i].at >= lastFlush_
      BY <1>3 DEF Recent, text
    <2>2. \A i \in 1 .. m : i \in 1 .. m - 1 \/ i = m
      BY <1>3
    <2> QED
      BY <1>1, <1>3, <1>4, <2>1, <2>2 DEF Recent
  <1>6. new \subseteq old \cup {m}
    <2> SUFFICES ASSUME NEW i \in new, i # m PROVE i \in old
      OBVIOUS
    <2>1. i \in 1 .. m /\ Begins(text2, i) /\ i > file.onDisk /\ text2[i].at > WaitTime
      BY <1>1, <1>3 DEF Waiting, WaitingAfter, Starts
    <2>2. i \in DOMAIN text
      BY <1>3, <2>1
    <2>3. Begins(text, i) /\ text2[i] = text[i]
      BY <1>3, <2>1, <2>2
    <2> QED
      BY <2>1, <2>2, <2>3 DEF Waiting, WaitingAfter, Starts, text
  <1>7. text # <<>> /\ Last(text).line = part.line => m \notin new
    <2> SUFFICES ASSUME text # <<>>, Last(text).line = part.line, m \in new PROVE FALSE
      OBVIOUS
    <2>1. Begins(text2, m)
      BY <1>1 DEF Waiting, WaitingAfter, Starts
    <2> QED
      BY <1>3, <2>1 DEF Begins
  <1>8. /\ IsFiniteSet(old) /\ Cardinality(old) \in Nat
        /\ IsFiniteSet(old \cup {m}) /\ Cardinality(old \cup {m}) = Cardinality(old) + 1
    <2>1. IsFiniteSet(old) /\ Cardinality(old) \in Nat /\ old \subseteq DOMAIN text
      BY WaitingSet DEF text, Waiting
    <2>2. m \notin old
      BY <1>3, <2>1
    <2> HIDE DEF old
    <2> QED
      BY <2>1, <2>2, FS_AddElement
  <1> HIDE DEF old, new
  <1>9. /\ IsFiniteSet(new) /\ Cardinality(new) \in Nat
        /\ Cardinality(new) <= Cardinality(old) + 1
    <2>1. IsFiniteSet(new) /\ Cardinality(new) <= Cardinality(old \cup {m})
      BY <1>6, <1>8, FS_Subset
    <2> QED
      BY <1>8, <2>1, FS_CardinalityType
  <1>10. Cardinality(new) <= count_ + 1
    <2>1. count_ \in Nat
      BY LogFileAssumption DEF TypeOK
    <2>2. CASE Cardinality(old) <= count_
      BY <1>8, <1>9, <2>1, <2>2
    <2>3. CASE text # <<>> /\ Last(text).line = part.line /\ Cardinality(old) <= count_ + 1
      <3>1. new \subseteq old
        BY <1>6, <1>7, <2>3
      <3>2. Cardinality(new) <= Cardinality(old)
        BY <1>8, <3>1, FS_Subset
      <3> QED
        BY <1>8, <1>9, <2>1, <2>3, <3>2
    <2> QED
      BY <2>2, <2>3 DEF old, text
  <1> QED
    BY <1>5, <1>10 DEF new

LEMMA InitFlush == Init => FlushInv
  <1> SUFFICES ASSUME Init PROVE FlushInv
    OBVIOUS
  <1>1. count_ = 0 /\ Recent(file, lastFlush_)
    BY FirstFile, NothingIn
  <1>2. Cardinality(WaitingAfter(file, lastFlush_ + flushInterval_)) = 0
    BY FirstFile, NothingIn
  <1>3. Allowed(Cardinality(WaitingAfter(file, lastFlush_ + flushInterval_)), mutex_, count_, call)
    BY <1>1, <1>2 DEF Allowed
  <1> QED
    BY <1>1, <1>3 DEF FlushInv

LEMMA FlushStep ==
  TypeOK /\ TypeOK' /\ Control /\ LinesInv /\ RollInv /\ FlushInv /\ [Next]_vars => FlushInv'
  <1> SUFFICES ASSUME TypeOK, TypeOK', Control, LinesInv, RollInv, FlushInv, [Next]_vars
               PROVE  FlushInv'
    OBVIOUS
  <1>0. Clock /\ now \in Int /\ lastRoll_ \in Int /\ lastFlush_ \in Int /\ flushInterval_ \in Nat
    BY LogFileAssumption DEF RollInv, TypeOK
  <1>1. /\ Recent(file, lastFlush_) /\ Allowed(Cardinality(Waiting), mutex_, count_, call)
        /\ Timed(file, now)
    BY LastFile DEF FlushInv, Waiting, WaitTime, RollInv, FilesInv
  <1>2. SUFFICES /\ Recent(file', lastFlush_')
                 /\ Allowed(Cardinality(Waiting'), mutex_', count_', call')
    BY DEF FlushInv, Waiting, WaitTime
  <1>3. ASSUME NEW t \in Threads, Statement(t)
        PROVE  /\ Recent(file', lastFlush_')
               /\ Allowed(Cardinality(Waiting'), mutex_', count_', call')
    <2>1. call' = [call EXCEPT ![t] = "append"] /\ SameFile
      BY <1>3, StatementEffect
    <2>2. call'[t] = "append" /\ \A u \in Threads : u # t => call'[u] = call[u]
      BY <2>1 DEF TypeOK
    <2>3. file' = file /\ Waiting' = Waiting /\ UNCHANGED <<lastFlush_, mutex_, count_>>
      BY <2>1 DEF SameFile, file, Waiting, WaitTime
    <2> QED
      BY <1>1, <2>2, <2>3 DEF Allowed
  <1>4. ASSUME NEW t \in Threads, InLogFile(t)
        PROVE  /\ Recent(file', lastFlush_')
               /\ Allowed(Cardinality(Waiting'), mutex_', count_', call')
    <2>1. LogFileStep(t)
      BY <1>4, InLogFileEffect
    <2>2. CASE AppendWrite(t)
      <3>1. PICK part \in Part : PartWritten(t, part)
        BY <2>2, WriteEffect
      <3>2. /\ \/ call[t] = "append" /\ mutex_ = NoOne
               \/ call[t] = "write" /\ mutex_ = t
            /\ mutex_' = t /\ call' = [call EXCEPT ![t] = "write"]
            /\ UNCHANGED <<now, count_, startOfPeriod_, lastRoll_, lastFlush_, line>>
        BY <2>2, WriteEffect
      <3>3. \A u \in Threads : u # t => call'[u] # "write" /\ call'[u] # "roll"
        <4>1. \A u \in Threads : u # t => call'[u] = call[u]
          BY <3>2 DEF TypeOK
        <4> QED
          BY <3>2, <4>1, Holder
      <3>4. \/ Cardinality(Waiting) <= count_
            \/ /\ file.text # <<>> /\ Last(file.text).line = part.line
               /\ Cardinality(Waiting) <= count_ + 1
        <4>1. CASE call[t] = "append" /\ mutex_ = NoOne
          BY <1>1, <4>1 DEF Allowed
        <4>2. CASE call[t] = "write" /\ mutex_ = t
          <5>1. file.text # <<>> /\ Last(file.text).line = line[t]
            BY <4>2 DEF LinesInv, Begun
          <5>2. Cardinality(Waiting) <= count_ + 1
            BY <1>1, <4>2 DEF Allowed
          <5> QED
            BY <3>1, <5>1, <5>2 DEF PartWritten
        <4> QED
          BY <3>2, <4>1, <4>2
      <3>5. Recent(file', lastFlush_) /\ Cardinality(Waiting') <= count_ + 1
        BY <1>0, <1>1, <3>1, <3>2, <3>4, WaitingGrown
      <3> QED
        BY <3>2, <3>3, <3>5, NoneOfThreads DEF Allowed
    <2>3. CASE AppendOversize(t) \/ AppendCount(t) \/ AppendCheck(t)
      <3>1. /\ call[t] = "write" /\ remain[t] = 0 /\ mutex_ = t
            /\ CountsOn(t) \/ RollsNext(t) \/ Checks(t)
            /\ UNCHANGED <<now, startOfPeriod_, lastRoll_, line, remain>>
        BY <2>3, EndEffect
      <3>2. /\ \A u \in Threads : u # t => call'[u] # "write"
            /\ call'[t] # "write"
        <4>1. \A u \in Threads : u # t => call'[u] = call[u]
          BY <3>1 DEF CountsOn, RollsNext, Checks, Unlocks, TypeOK
        <4>2. call'[t] # "write"
          BY <3>1 DEF CountsOn, RollsNext, Checks, Unlocks, TypeOK
        <4> QED
          BY <3>1, <4>1, <4>2, Holder
      <3>3. ASSUME Touched(InAll(t), file.onDisk), UNCHANGED lastFlush_
            PROVE  Recent(file', lastFlush_') /\ Waiting' = Waiting
        <4>1. file'.text = file.text /\ file'.onDisk = file.onDisk
          BY <3>3, TouchedFile
        <4>2. WaitTime' = WaitTime
          BY <3>3 DEF WaitTime
        <4> QED
          BY <1>1, <3>3, <4>1, <4>2, WaitingSame DEF Waiting
      <3>4. CASE CountsOn(t)
        <4>1. Cardinality(Waiting) <= count_ + 1
          BY <1>1, <3>1 DEF Allowed
        <4> QED
          BY <3>2, <3>3, <3>4, <4>1 DEF CountsOn, Allowed
      <3>5. CASE RollsNext(t)
        <4>1. mutex_' # NoOne
          BY <3>1, <3>5, NoneOfThreads DEF RollsNext
        <4> QED
          BY <3>2, <3>3, <3>5, <4>1 DEF RollsNext, Allowed
      <3>6. CASE Checks(t) /\ FlushDue
        <4>1. Touched(InAll(t), Len(file.text)) /\ count_' = 0
          <5>1. FlushDue => ~ ~FlushDue
            OBVIOUS
          <5> QED
            BY Zenon, <3>6, <5>1 DEF Checks
        <4>2. file'.text = file.text /\ file'.onDisk = Len(file.text)
          BY <4>1, TouchedFile
        <4>3. file'.text \in Seq(Part) /\ file'.onDisk = Len(file'.text)
          BY <4>2, LastFile DEF File
        <4>4. Recent(file', lastFlush_') /\ Cardinality(Waiting') = 0
          BY <4>3, NoneWaiting DEF Waiting
        <4> QED
          BY <3>2, <4>1, <4>4 DEF Allowed
      <3>7. CASE Checks(t) /\ ~FlushDue
        <4>1. Touched(InAll(t), file.onDisk) /\ UNCHANGED lastFlush_ /\ count_' = 0
          BY Zenon, <3>7 DEF Checks
        <4>2. WaitTime \in Int /\ now <= WaitTime
          BY <1>0, <3>7 DEF FlushDue, WaitTime
        <4>3. Cardinality(Waiting) = 0
          BY <1>1, <4>2, NoneLaterThanNow DEF Waiting
        <4> QED
          BY <3>2, <3>3, <4>1, <4>3 DEF Allowed
      <3> QED
        BY <3>1, <3>4, <3>5, <3>6, <3>7
    <2>4. CASE RollFile(t)
      <3>1. /\ call[t] = "roll" /\ mutex_ = t
            /\ Opened \/ TooEarly
            /\ Unlocks(t) /\ UNCHANGED <<now, count_, line, remain>>
        BY <2>4, RollEffect
      <3>2. \A u \in Threads : call'[u] # "write"
        <4>1. call'[t] = "none" /\ \A u \in Threads : u # t => call'[u] = call[u]
          BY <3>1 DEF Unlocks, TypeOK
        <4> QED
          BY <3>1, <4>1, Holder
      <3>3. count_ \in Nat /\ count_' = count_
        BY <3>1, LogFileAssumption DEF TypeOK
      <3>4. CASE Opened
        <4>1. file'.text = <<>>
          BY <3>4, OpenedFile
        <4>2. Recent(file', lastFlush_') /\ Cardinality(Waiting') = 0
          BY <4>1, NothingIn DEF Waiting
        <4> QED
          BY <3>2, <3>3, <4>2 DEF Allowed
      <3>5. CASE TooEarly
        <4>1. file' = file /\ UNCHANGED lastFlush_ /\ now <= lastRoll_ /\ Waiting' = Waiting
          BY <3>5 DEF TooEarly, file, Waiting, WaitTime
        <4>2. WaitTime \in Int /\ now <= WaitTime
          BY <1>0, <4>1 DEF Clock, WaitTime
        <4>3. Cardinality(Waiting) = 0
          BY <1>1, <4>2, NoneLaterThanNow DEF Waiting
        <4> QED
          BY <1>1, <3>2, <3>3, <4>1, <4>3 DEF Allowed
      <3> QED
        BY <3>1, <3>4, <3>5
    <2>5. CASE Flush(t)
      <3>1. /\ Touched(file.writtenBytes, Len(file.text))
            /\ call' = [call EXCEPT ![t] = "none"]
            /\ UNCHANGED <<count_, mutex_>>
        BY <2>5, FlushEffect
      <3>2. file'.text = file.text /\ file'.onDisk = Len(file.text)
        BY <3>1, TouchedFile
      <3>3. file'.text \in Seq(Part) /\ file'.onDisk = Len(file'.text)
        BY <3>2, LastFile DEF File
      <3>4. Recent(file', lastFlush_') /\ Cardinality(Waiting') = 0
        BY <3>3, NoneWaiting DEF Waiting
      <3>5. count_ \in Nat
        BY LogFileAssumption DEF TypeOK
      <3> QED
        BY <3>1, <3>4, <3>5 DEF Allowed
    <2> QED
      BY <2>1, <2>2, <2>3, <2>4, <2>5 DEF LogFileStep
  <1>5. ASSUME Quiet
        PROVE  /\ Recent(file', lastFlush_')
               /\ Allowed(Cardinality(Waiting'), mutex_', count_', call')
    <2>1. /\ UNCHANGED <<files, count_, lastFlush_, mutex_>>
          /\ \A u \in Threads : call'[u] = call[u] \/ call'[u] = "flush"
      BY <1>5, QuietEffect
    <2>2. file' = file /\ Waiting' = Waiting
      BY <2>1 DEF file, Waiting, WaitTime
    <2> QED
      BY <1>1, <2>1, <2>2 DEF Allowed
  <1> QED
    BY <1>3, <1>4, <1>5, StepCases

LEMMA FlushesSoon == TypeOK /\ FlushInv => FlushedSoon
  <1> SUFFICES ASSUME TypeOK, FlushInv, mutex_ = NoOne,
                      NEW first \in Starts(file.text), first > file.onDisk
               PROVE  Cardinality(WaitingAfter(file, file.text[first].at + flushInterval_)) < checkEveryN_
    BY Zenon DEF FlushedSoon
  <1> DEFINE some == WaitingAfter(file, file.text[first].at + flushInterval_)
  <1>1. first \in DOMAIN file.text
    BY DEF Starts
  <1>2. file.text[first] \in Part
    BY <1>1, LastFile, OnDiskType
  <1>3. /\ file.text[first].at \in Int /\ lastFlush_ \in Int /\ flushInterval_ \in Nat
        /\ file.text[first].at >= lastFlush_
    BY <1>1, <1>2, LogFileAssumption DEF Part, TypeOK, FlushInv, Recent
  <1>4. some \subseteq Waiting
    <2> SUFFICES ASSUME NEW i \in some PROVE i \in Waiting
      OBVIOUS
    <2>1. /\ i \in Starts(file.text) /\ i > file.onDisk
          /\ file.text[i].at > file.text[first].at + flushInterval_
      BY DEF WaitingAfter
    <2>2. file.text[i] \in Part
      BY <2>1, LastFile, OnDiskType DEF Starts
    <2>3. file.text[i].at \in Int
      BY <2>2 DEF Part
    <2>4. file.text[i].at > WaitTime
      BY <1>3, <2>1, <2>3 DEF WaitTime
    <2> QED
      BY <2>1, <2>4 DEF Waiting, WaitingAfter
  <1>5. IsFiniteSet(Waiting) /\ Cardinality(Waiting) \in Nat
    BY WaitingSet DEF Waiting
  <1>6. Cardinality(Waiting) <= count_
    BY DEF FlushInv, Allowed, Waiting, WaitTime
  <1> HIDE DEF some
  <1>7. IsFiniteSet(some) /\ Cardinality(some) <= Cardinality(Waiting)
    BY <1>4, <1>5, FS_Subset
  <1>8. Cardinality(some) \in Nat
    BY <1>7, FS_CardinalityType
  <1>9. count_ \in Nat /\ checkEveryN_ \in Nat /\ count_ < checkEveryN_
    BY LogFileAssumption DEF TypeOK
  <1>10. Cardinality(some) < checkEveryN_
    BY <1>5, <1>6, <1>7, <1>8, <1>9
  <1> QED
    BY <1>10 DEF some

(* Of the lines in stdio's buffer fewer than checkEveryN_ are later by     *)
(* more than flushInterval_ than the first (logfile.cc:80-91).             *)
THEOREM WritesOutInTime == Spec => []FlushedSoon
  <1> DEFINE I == TypeOK /\ Control /\ LinesInv /\ RollInv /\ FlushInv
  <1>1. Init => I
    BY InitType, InitLines, InitRoll, InitFlush
  <1>2. I /\ [Next]_vars => I'
    BY TypeStep, ControlStep, LinesStep, RollStep, FlushStep
  <1>3. I => FlushedSoon
    BY FlushesSoon
  <1> QED
    BY <1>1, <1>2, <1>3, PTL DEF Spec

-----------------------------------------------------------------------------
(* The text of an integer reads as its value.                              *)

Figure(c) == CHOOSE d \in 0 .. 9 : zero(d) = c

LEMMA Figures ==
  ASSUME NEW r \in -9 .. 9
  PROVE  Figure(zero(r)) = Magnitude(r)
  <1>1. \A d \in 0 .. 9, e \in 0 .. 9 : zero(d) = zero(e) => d = e
    BY SMTT(30) DEF zero, digits
  <1>2. Magnitude(r) \in 0 .. 9 /\ zero(Magnitude(r)) = zero(r)
    BY SMTT(30) DEF zero, digits, Magnitude
  <1> QED
    BY <1>1, <1>2 DEF Figure

LEMMA NotTheSign ==
  ASSUME NEW c \in Decimals
  PROVE  c # "-"
  BY SMTT(30) DEF Decimals, zero, digits

Values(g, s, n) ==
  g = [k \in 0 .. n |-> IF k = 0 THEN 0 ELSE 10 * g[k - 1] + Figure(s[k])]

LEMMA ValuesAre ==
  ASSUME NEW g, NEW s, NEW n \in Nat, Values(g, s, n)
  PROVE  g[0] = 0 /\ \A k \in 1 .. n : g[k] = 10 * g[k - 1] + Figure(s[k])
  <1>1. \A k \in 0 .. n : g[k] = IF k = 0 THEN 0 ELSE 10 * g[k - 1] + Figure(s[k])
    BY Zenon DEF Values
  <1>2. 0 \in 0 .. n /\ \A k \in 1 .. n : k \in 0 .. n /\ k # 0
    OBVIOUS
  <1> QED
    BY <1>1, <1>2

LEMMA ValuesExist ==
  ASSUME NEW s, NEW n \in Nat
  PROVE  \E g : Values(g, s, n)
  <1> DEFINE T == {k \in Nat : ~\E g : Values(g, s, k)}
  <1>1. ASSUME T # {} PROVE FALSE
    <2>1. PICK k \in T : \A l \in T : k <= l
      <3>1. T \in SUBSET Nat
        OBVIOUS
      <3> HIDE DEF T
      <3> QED
        BY <1>1, <3>1, NatMin
    <2>2. k \in Nat /\ ~\E g : Values(g, s, k)
      BY <2>1
    <2>3. CASE k = 0
      <3> DEFINE g == [i \in 0 .. 0 |-> 0]
      <3>1. g = [i \in 0 .. 0 |-> IF i = 0 THEN 0 ELSE 10 * g[i - 1] + Figure(s[i])]
        OBVIOUS
      <3> HIDE DEF g
      <3> QED
        BY <2>2, <2>3, <3>1 DEF Values
    <2>4. CASE k # 0
      <3>1. k - 1 \in Nat /\ \E g : Values(g, s, k - 1)
        <4>1. k - 1 \in Nat /\ k - 1 < k
          BY <2>2, <2>4
        <4>2. k - 1 \notin T
          <5> HIDE DEF T
          <5> QED
            BY <2>1, <2>2, <4>1
        <4> QED
          BY <4>1, <4>2
      <3>2. PICK g : Values(g, s, k - 1)
        BY <3>1
      <3>3. g[0] = 0 /\ \A i \in 1 .. k - 1 : g[i] = 10 * g[i - 1] + Figure(s[i])
        BY <3>1, <3>2, ValuesAre
      <3> DEFINE h == [i \in 0 .. k |-> IF i < k THEN g[i] ELSE 10 * g[k - 1] + Figure(s[k])]
      <3>4. /\ \A i \in 0 .. k - 1 : h[i] = g[i]
            /\ h[k] = 10 * g[k - 1] + Figure(s[k])
            /\ h = [i \in 0 .. k |-> h[i]]
        BY <2>2
      <3> HIDE DEF h
      <3>5. \A i \in 0 .. k : h[i] = IF i = 0 THEN 0 ELSE 10 * h[i - 1] + Figure(s[i])
        <4> SUFFICES ASSUME NEW i \in 0 .. k
                     PROVE  h[i] = IF i = 0 THEN 0 ELSE 10 * h[i - 1] + Figure(s[i])
          OBVIOUS
        <4>1. CASE i = 0
          <5>1. 0 \in 0 .. k - 1
            BY <3>1
          <5> QED
            BY <3>3, <3>4, <4>1, <5>1
        <4>2. CASE i # 0
          <5>1. i - 1 \in 0 .. k - 1 /\ (i = k \/ (i \in 1 .. k - 1 /\ i \in 0 .. k - 1))
            BY <2>2, <4>2
          <5> QED
            BY <3>3, <3>4, <4>2, <5>1
        <4> QED
          BY <4>1, <4>2
      <3>6. Values(h, s, k)
        BY <3>4, <3>5 DEF Values
      <3> QED
        BY <2>2, <3>6
    <2> QED
      BY <2>3, <2>4
  <1> QED
    BY <1>1

(* The digits of a number, the highest first. *)
HighFirst(v) == Reverse(LowFirst[v])

LEMMA HighFirstText ==
  ASSUME NEW v \in Int
  PROVE  LET n == Len(LowFirst[v])
             q == Quotient(v, 10)
         IN  /\ n \in Nat \ {0} /\ HighFirst(v) \in Seq(Decimals) /\ Len(HighFirst(v)) = n
             /\ HighFirst(v)[n] = zero(Remainder(v, 10))
             /\ q = 0 => n = 1
             /\ q # 0 => /\ Len(LowFirst[q]) = n - 1
                         /\ \A j \in 1 .. n - 1 : HighFirst(v)[j] = HighFirst(q)[j]
  <1> DEFINE q == Quotient(v, 10)
             c == zero(Remainder(v, 10))
             more == IF q = 0 THEN <<>> ELSE LowFirst[q]
             low == LowFirst[v]
             n == Len(low)
  <1>1. q \in Int /\ c \in Decimals
    BY Digit
  <1>2. low = <<c>> \o more /\ low \in Seq(Decimals) /\ more \in Seq(Decimals)
    <2>1. low = <<c>> \o more
      BY LowFirstText, Zenon
    <2>2. low \in Seq(Decimals) /\ LowFirst[q] \in Seq(Decimals)
      BY <1>1, LowFirstText
    <2>3. more \in Seq(Decimals)
      <3>1. <<>> \in Seq(Decimals)
        OBVIOUS
      <3> QED
        BY <2>2, <3>1, Zenon
    <2> QED
      BY <2>1, <2>2, <2>3
  <1>3. q = 0 => Len(more) = 0
    OBVIOUS
  <1>4. q # 0 => more = LowFirst[q]
    OBVIOUS
  <1> HIDE DEF q, c, more, low
  <1>5. /\ n = Len(more) + 1 /\ n \in Nat \ {0} /\ low[1] = c
        /\ \A k \in 1 .. Len(more) : low[k + 1] = more[k]
    BY <1>1, <1>2
  <1>6. HighFirst(v) = [j \in 1 .. n |-> low[(n - j) + 1]]
    BY DEF HighFirst, Reverse, low
  <1>7. HighFirst(v) \in Seq(Decimals) /\ Len(HighFirst(v)) = n /\ HighFirst(v)[n] = c
    <2>1. \A j \in 1 .. n : low[(n - j) + 1] \in Decimals
      BY <1>2, <1>5
    <2> QED
      BY <1>5, <1>6, <2>1
  <1>8. ASSUME q # 0, NEW j \in 1 .. n - 1 PROVE HighFirst(v)[j] = HighFirst(q)[j]
    <2>1. HighFirst(q) = [k \in 1 .. Len(more) |-> more[(Len(more) - k) + 1]]
      BY <1>4, <1>8 DEF HighFirst, Reverse
    <2>2. Len(more) = n - 1
      BY <1>2, <1>5
    <2>3. j \in 1 .. n /\ (n - j) \in 1 .. Len(more) /\ HighFirst(q)[j] = more[n - j]
      BY <1>5, <2>1, <2>2
    <2> QED
      BY <1>5, <1>6, <2>3
  <1> QED
    BY <1>2, <1>3, <1>4, <1>5, <1>7, <1>8 DEF q, c, low

LEMMA ReadsRight ==
  ASSUME NEW v \in Int, NEW g, Values(g, HighFirst(v), Len(HighFirst(v)))
  PROVE  g[Len(HighFirst(v))] = Magnitude(v)
  <1> DEFINE Wrong(i) == \E h : /\ Values(h, HighFirst(i), Len(HighFirst(i)))
                                /\ h[Len(HighFirst(i))] # Magnitude(i)
             T == {k \in Nat : \E i \in Int : Magnitude(i) = k /\ Wrong(i)}
  <1>1. ASSUME T # {} PROVE FALSE
    <2>1. PICK k \in T : \A l \in T : k <= l
      <3>1. T \in SUBSET Nat
        OBVIOUS
      <3> HIDE DEF T
      <3> QED
        BY <1>1, <3>1, NatMin
    <2>2. PICK i \in Int : Magnitude(i) = k /\ Wrong(i)
      BY <2>1
    <2> DEFINE s == HighFirst(i)
               n == Len(s)
               q == Quotient(i, 10)
               r == Remainder(i, 10)
    <2>3. PICK h : Values(h, s, n) /\ h[n] # Magnitude(i)
      BY <2>2
    <2>4. /\ n \in Nat \ {0} /\ s[n] = zero(r)
          /\ q = 0 => n = 1
          /\ q # 0 => /\ Len(HighFirst(q)) = n - 1
                      /\ \A j \in 1 .. n - 1 : s[j] = HighFirst(q)[j]
      <3>1. q \in Int
        BY Digit
      <3> QED
        BY <3>1, HighFirstText
    <2>5. q \in Int /\ r \in -9 .. 9 /\ Figure(zero(r)) = Magnitude(r)
      BY Digit, Figures
    <2>6. Magnitude(i) = 10 * Magnitude(q) + Magnitude(r)
      BY SMTT(30) DEF Magnitude, Quotient, Remainder
    <2>7. Magnitude(i) \in Nat /\ Magnitude(q) \in Nat /\ (q # 0 => Magnitude(q) < Magnitude(i))
      BY <2>5, Shrinks DEF Magnitude
    <2> HIDE DEF s, n, q, r, Wrong
    <2>8. h[0] = 0 /\ \A j \in 1 .. n : h[j] = 10 * h[j - 1] + Figure(s[j])
      BY <2>3, <2>4, ValuesAre
    <2>9. h[n] = 10 * h[n - 1] + Magnitude(r)
      <3>1. n \in 1 .. n
        BY <2>4
      <3> QED
        BY <2>4, <2>5, <2>8, <3>1
    <2>10. h[n - 1] = Magnitude(q)
      <3>1. CASE q = 0
        <4>1. n - 1 = 0 /\ Magnitude(q) = 0
          BY <2>4, <3>1 DEF Magnitude
        <4> QED
          BY <2>8, <4>1
      <3>2. CASE q # 0
        <4> DEFINE f == [j \in 0 .. n - 1 |-> h[j]]
        <4>1. /\ f[n - 1] = h[n - 1]
              /\ \A j \in 0 .. n - 1 : f[j] = h[j]
              /\ f = [j \in 0 .. n - 1 |-> f[j]]
          BY <2>4
        <4> HIDE DEF f
        <4>2. \A j \in 0 .. n - 1 : f[j] = IF j = 0 THEN 0 ELSE 10 * f[j - 1] + Figure(HighFirst(q)[j])
          <5> SUFFICES ASSUME NEW j \in 0 .. n - 1
                       PROVE  f[j] = IF j = 0 THEN 0 ELSE 10 * f[j - 1] + Figure(HighFirst(q)[j])
            OBVIOUS
          <5>1. CASE j = 0
            BY <2>8, <4>1, <5>1
          <5>2. CASE j # 0
            <6>1. j \in 1 .. n - 1 /\ j \in 1 .. n /\ j - 1 \in 0 .. n - 1
              BY <2>4, <5>2
            <6> QED
              BY <2>4, <2>8, <3>2, <4>1, <5>2, <6>1
          <5> QED
            BY <5>1, <5>2
        <4>3. Values(f, HighFirst(q), Len(HighFirst(q)))
          BY <2>4, <3>2, <4>1, <4>2 DEF Values
        <4>4. ~Wrong(q)
          <5>1. Magnitude(q) \in Nat /\ Magnitude(q) \notin T
            <6> HIDE DEF T
            <6> QED
              BY <2>1, <2>2, <2>7, <3>2
          <5> QED
            BY <2>5, <5>1
        <4> QED
          BY <2>4, <3>2, <4>1, <4>3, <4>4 DEF Wrong
      <3> QED
        BY <3>1, <3>2
    <2> QED
      BY <2>3, <2>6, <2>9, <2>10
  <1>2. Magnitude(v) \in Nat
    BY DEF Magnitude
  <1> QED
    BY <1>1, <1>2

LEMMA NumeralRight ==
  ASSUME NEW v \in Int
  PROVE  Numeral(convert(v)) = v
  <1> DEFINE low == LowFirst[v]
             n == Len(low)
             text == convert(v)
             digitsOf == IF text[1] = "-" THEN Tail(text) ELSE text
             value == CHOOSE g : Values(g, digitsOf, Len(digitsOf))
  <1>1. /\ n \in Nat \ {0} /\ low \in Seq(Decimals) /\ HighFirst(v) \in Seq(Decimals)
        /\ Len(HighFirst(v)) = n
    BY HighFirstText, LowFirstText
  <1>2. HighFirst(v) = [j \in 1 .. n |-> low[(n - j) + 1]]
    BY DEF HighFirst, Reverse
  <1>3. Numeral(text) = IF text[1] = "-" THEN -value[Len(digitsOf)] ELSE value[Len(digitsOf)]
    BY Zenon DEF Numeral, Values, Figure
  <1> HIDE DEF low, text
  <1>4. digitsOf = HighFirst(v) /\ (text[1] = "-" <=> v < 0)
    <2>1. CASE v >= 0
      <3>1. text = Reverse(low \o <<>>)
        <4>1. ~(v < 0)
          BY <2>1
        <4> QED
          BY <4>1, Zenon DEF convert, text, low
      <3>2. low \o <<>> = low
        BY <1>1
      <3>3. text = HighFirst(v)
        BY <3>1, <3>2 DEF HighFirst, low
      <3>4. text[1] \in Decimals
        BY <1>1, <3>3
      <3> QED
        BY <2>1, <3>3, <3>4, NotTheSign
    <2>2. CASE v < 0
      <3>1. text = Reverse(low \o <<"-">>)
        BY <2>2 DEF convert, text, low
      <3> DEFINE signed == low \o <<"-">>
      <3>2. /\ signed \in Seq(Decimals \cup {"-"}) /\ Len(signed) = n + 1 /\ signed[n + 1] = "-"
            /\ \A k \in 1 .. n : signed[k] = low[k]
        <4>1. low \in Seq(Decimals \cup {"-"}) /\ <<"-">> \in Seq(Decimals \cup {"-"})
          BY <1>1
        <4> QED
          BY <1>1, <4>1
      <3>3. text = [j \in 1 .. n + 1 |-> signed[((n + 1) - j) + 1]]
        BY <3>1, <3>2 DEF Reverse
      <3> HIDE DEF signed
      <3>4. text \in Seq(Decimals \cup {"-"}) /\ Len(text) = n + 1 /\ text[1] = "-"
        BY <1>1, <3>2, <3>3
      <3>5. Tail(text) \in Seq(Decimals \cup {"-"}) /\ Len(Tail(text)) = n
        BY <1>1, <3>4
      <3>6. ASSUME NEW j \in 1 .. n PROVE Tail(text)[j] = HighFirst(v)[j]
        <4>1. /\ j + 1 \in 1 .. n + 1 /\ ((n + 1) - (j + 1)) + 1 = (n - j) + 1
              /\ (n - j) + 1 \in 1 .. n
          BY <1>1
        <4>2. Tail(text)[j] = text[j + 1]
          BY <1>1, <3>4, <4>1
        <4> QED
          BY <1>2, <3>2, <3>3, <4>1, <4>2
      <3>7. /\ Tail(text) = [j \in 1 .. n |-> Tail(text)[j]]
            /\ HighFirst(v) = [j \in 1 .. n |-> HighFirst(v)[j]]
        <4>1. \A C : \A q \in Seq(C) : q = [j \in 1 .. Len(q) |-> q[j]]
          OBVIOUS
        <4> QED
          BY <1>1, <3>5, <4>1, Zenon
      <3>8. Tail(text) = HighFirst(v)
        BY <3>6, <3>7
      <3> QED
        BY <2>2, <3>4, <3>8
    <2> QED
      BY <2>1, <2>2
  <1> HIDE DEF digitsOf
  <1>5. Values(value, digitsOf, Len(digitsOf))
    <2>1. Len(digitsOf) \in Nat
      BY <1>1, <1>4
    <2> QED
      BY <2>1, ValuesExist
  <1> HIDE DEF value
  <1>6. value[Len(digitsOf)] = Magnitude(v)
    BY <1>4, <1>5, ReadsRight
  <1>7. Numeral(text) = v
    BY <1>3, <1>4, <1>6 DEF Magnitude
  <1> QED
    BY <1>7 DEF text

(* Each of the pieces of a line that has room for all of them is that of   *)
(* its argument.                                                           *)
LEMMA LineRight ==
  ASSUME NEW s \in Statements
  PROVE  TextRight(LineArgs(s), PutAll(EmptyBuffer, LineArgs(s)))
  <1> DEFINE args == LineArgs(s)
             b == PutAll(EmptyBuffer, args)
  <1>1. args \in Seq(Arguments) /\ \A i \in DOMAIN args : Fits(args[i])
    BY LineArgsType
  <1> HIDE DEF args
  <1>2. /\ b.top <= kSmallBuffer
        /\ (\A i \in DOMAIN args : b.len + Room(args[i]) < kSmallBuffer) =>
             /\ Len(b.pieces) = Len(args)
             /\ \A i \in DOMAIN args : b.pieces[i] = PieceOf(args[i])
    BY <1>1, PutAllRight
  <1>3. ASSUME NEW i \in DOMAIN args, args[i].type = "integer"
        PROVE  Numeral(PieceOf(args[i])) = args[i].value
    <2>1. args[i] \in Arguments
      BY <1>1
    <2>2. args[i].value \in Int
      BY <1>3, <2>1 DEF Arguments
    <2>3. PieceOf(args[i]) = convert(args[i].value)
      BY <1>3 DEF PieceOf, NumberText, Numbers
    <2> QED
      BY <2>2, <2>3, NumeralRight
  <1> HIDE DEF b
  <1>4. TextRight(args, b)
    BY <1>2, <1>3, Zenon DEF TextRight
  <1> QED
    BY <1>4 DEF args, b

(* What a thread keeps of the text of the second: text without 'Z' is of a *)
(* zone, and unless it is of the zone there is, it is no later than the    *)
(* second in which the zone was set.                                       *)
Kept(t) ==
  /\ t_lastsecond[t] \in Int /\ t_lastsecond[t] <= now
  /\ t_time[t].second = t_lastsecond[t]
  /\ t_time[t].zone = g_logTimeZone \/ t_lastsecond[t] <= zoneSince
  /\ g_logTimeZone = Invalid => t_time[t].zone = Invalid

(* The time a Logger took, for which the text is kept from formatTime on.  *)
Took(t) ==
  impl[t] # NoStatement =>
    /\ impl[t].second \in Int /\ impl[t].second <= now
    /\ impl[t].dated => t_lastsecond[t] = impl[t].second

Told(t) == stmt[t] # NoStatement => stmt[t].second \in Int /\ stmt[t].second <= now

StampInv ==
  /\ zoneSince \in Int /\ zoneSince <= now
  /\ DOMAIN t_lastsecond = Threads /\ DOMAIN t_time = Threads
  /\ \A t \in Threads : Kept(t) /\ Took(t) /\ Told(t)

(* The steps that change none of it.                                       *)
LEMMA StampSame ==
  ASSUME TypeOK, TypeOK', StampInv, LineText, now <= now',
         UNCHANGED <<g_logTimeZone, zoneSince, t_lastsecond, t_time, impl>>,
         \A t \in Threads : stmt'[t] = stmt[t] \/ stmt'[t] = NoStatement
  PROVE  StampInv' /\ LineText'
  <1>1. now \in Int /\ now' \in Int
    BY DEF TypeOK
  <1>2. zoneSince' \in Int /\ zoneSince' <= now'
    BY <1>1 DEF StampInv
  <1>3. ASSUME NEW t \in Threads PROVE Kept(t)' /\ Took(t)' /\ Told(t)'
    <2>1. Kept(t) /\ Took(t) /\ Told(t)
      BY DEF StampInv
    <2>2. Kept(t)'
      BY <1>1, <2>1 DEF Kept
    <2>3. Took(t)'
      BY <1>1, <2>1 DEF Took
    <2>4. Told(t)'
      BY <1>1, <2>1 DEF Told
    <2> QED
      BY <2>2, <2>3, <2>4
  <1>4. StampInv'
    BY <1>2, <1>3, Zenon DEF StampInv
  <1>5. ASSUME NEW t \in Threads, stmt'[t] # NoStatement
        PROVE  StampRight(stmt[t])' /\ TextRight(stmt'[t].args, stmt'[t].buffer)
    <2>1. stmt'[t] = stmt[t] /\ stmt[t] # NoStatement
      BY <1>5
    <2>2. StampRight(stmt[t]) /\ TextRight(stmt[t].args, stmt[t].buffer)
      BY <2>1, Zenon DEF LineText
    <2>3. StampRight(stmt[t])'
      BY <2>1, <2>2, Zenon DEF StampRight
    <2> QED
      BY <2>1, <2>2, <2>3, Zenon
  <1>6. LineText'
    BY <1>5, Zenon DEF LineText
  <1> QED
    BY <1>4, <1>6

(* The constructor takes the time.                                         *)
LEMMA ConstructStamp ==
  ASSUME TypeOK, StampInv, NEW t \in Threads, Construct(t)
  PROVE  StampInv'
  <1>1. PICK s \in Statements :
          impl' = [impl EXCEPT ![t] =
                    [level |-> s.level, args |-> s.args, second |-> now, dated |-> FALSE]]
    BY Zenon DEF Construct
  <1>2. UNCHANGED <<now, g_logTimeZone, zoneSince, t_lastsecond, t_time, stmt>>
    BY Zenon DEF Construct, fileVars
  <1>3. DOMAIN impl = Threads /\ now \in Int
    BY Zenon DEF TypeOK, Constructed
  <1>4. impl'[t].second = now /\ impl'[t].dated = FALSE /\ \A u \in Threads : u # t => impl'[u] = impl[u]
    BY <1>1, <1>3
  <1>5. ASSUME NEW u \in Threads PROVE Kept(u)' /\ Took(u)' /\ Told(u)'
    <2>1. Kept(u) /\ Took(u) /\ Told(u)
      BY DEF StampInv
    <2>2. Kept(u)' /\ Told(u)'
      BY <1>2, <2>1, Zenon DEF Kept, Told
    <2>3. Took(u)'
      BY <1>2, <1>3, <1>4, <2>1 DEF Took
    <2> QED
      BY <2>2, <2>3
  <1> QED
    BY <1>2, <1>5, Zenon DEF StampInv

(* formatTime leaves the text of the second the Logger took.               *)
LEMMA FormatStamp ==
  ASSUME TypeOK, StampInv, NEW t \in Threads, FormatTime(t)
  PROVE  StampInv'
  <1> DEFINE second == impl[t].second
  <1>1. impl[t] # NoStatement /\ ~impl[t].dated
    BY Zenon DEF FormatTime
  <1>2. UNCHANGED <<now, g_logTimeZone, zoneSince, stmt>>
    BY Zenon DEF FormatTime, fileVars
  <1>3. DOMAIN impl = Threads /\ now \in Int
    BY Zenon DEF TypeOK, Constructed
  <1>4. impl' = [impl EXCEPT ![t] = [impl[t] EXCEPT !.dated = TRUE]]
    BY <1>3 DEF FormatTime
  <1>5. impl'[t] = [impl[t] EXCEPT !.dated = TRUE] /\ \A u \in Threads : u # t => impl'[u] = impl[u]
    BY <1>3, <1>4
  <1>6. impl'[t].second = second
    <2>1. PICK s \in Statements, sec \in Int, dated \in BOOLEAN :
            impl[t] = [level |-> s.level, args |-> s.args, second |-> sec, dated |-> dated]
      BY <1>1 DEF TypeOK, Constructed
    <2> QED
      BY <1>5, <2>1
  <1>7. second \in Int /\ second <= now
    BY <1>1 DEF StampInv, Took
  <1> HIDE DEF second
  <1>8. /\ DOMAIN t_lastsecond' = Threads /\ DOMAIN t_time' = Threads
        /\ t_lastsecond'[t] = second
        /\ \A u \in Threads : u # t => t_lastsecond'[u] = t_lastsecond[u] /\ t_time'[u] = t_time[u]
        /\ \/ t_time'[t] = [second |-> second, zone |-> g_logTimeZone]
           \/ t_time'[t] = t_time[t] /\ t_lastsecond[t] = second
    <2>1. CASE NewSecond(t)
      <3>1. /\ t_lastsecond' = [t_lastsecond EXCEPT ![t] = second]
            /\ t_time' = [t_time EXCEPT ![t] = [second |-> second, zone |-> g_logTimeZone]]
        BY <2>1, Zenon DEF FormatTime, second
      <3> QED
        BY <3>1 DEF StampInv
    <2>2. CASE ~NewSecond(t)
      <3>1. UNCHANGED <<t_lastsecond, t_time>>
        BY <2>2, Zenon DEF FormatTime
      <3>2. t_lastsecond[t] = second
        BY <2>2 DEF NewSecond, second
      <3> QED
        BY <3>1, <3>2 DEF StampInv
    <2> QED
      BY <2>1, <2>2
  <1>9. ASSUME NEW u \in Threads PROVE Kept(u)' /\ Took(u)' /\ Told(u)'
    <2>1. Kept(u) /\ Took(u) /\ Told(u)
      BY DEF StampInv
    <2>2. Told(u)'
      BY <1>2, <2>1, Zenon DEF Told
    <2>3. CASE u # t
      <3>1. t_lastsecond'[u] = t_lastsecond[u] /\ t_time'[u] = t_time[u] /\ impl'[u] = impl[u]
        BY <1>5, <1>8, <2>3
      <3>2. Kept(u)' /\ Took(u)'
        BY <1>2, <2>1, <3>1, Zenon DEF Kept, Took
      <3> QED
        BY <2>2, <3>2
    <2>4. CASE u = t
      <3>1. Took(t)'
        BY <1>2, <1>6, <1>7, <1>8 DEF Took
      <3>2. CASE t_time'[t] = [second |-> second, zone |-> g_logTimeZone]
        <4>1. t_time'[t].second = second /\ t_time'[t].zone = g_logTimeZone
          BY <3>2
        <4>2. Kept(t)'
          BY <1>2, <1>7, <1>8, <4>1 DEF Kept
        <4> QED
          BY <2>2, <2>4, <3>1, <4>2
      <3>3. CASE t_time'[t] = t_time[t] /\ t_lastsecond[t] = second
        <4>1. Kept(t)'
          BY <1>2, <1>8, <2>1, <2>4, <3>3, Zenon DEF Kept
        <4> QED
          BY <2>2, <2>4, <3>1, <4>1
      <3> QED
        BY <1>8, <3>2, <3>3
    <2> QED
      BY <2>3, <2>4
  <1>10. zoneSince' \in Int /\ zoneSince' <= now'
    BY <1>2 DEF StampInv
  <1> QED
    BY <1>8, <1>9, <1>10 DEF StampInv

(* The line is completed from the text that is kept and the zone there is. *)
LEMMA StatementText ==
  ASSUME TypeOK, StampInv, NEW t \in Threads, Statement(t)
  PROVE  StampInv' /\ StampRight(stmt[t])' /\ TextRight(stmt'[t].args, stmt'[t].buffer)
  <1>1. PICK s \in Statements :
          stmt' = [stmt EXCEPT ![t] =
                    [level |-> s.level, args |-> LineArgs(s),
                     buffer |-> PutAll(EmptyBuffer, LineArgs(s)),
                     second |-> impl[t].second, stamp |-> t_time[t], zone |-> g_logTimeZone]]
    BY StatementEffect
  <1> DEFINE args == LineArgs(s)
             buffer == PutAll(EmptyBuffer, LineArgs(s))
             stamp == t_time[t]
             second == impl[t].second
  <1>2. TextRight(args, buffer)
    BY LineRight
  <1>3. UNCHANGED <<now, g_logTimeZone, zoneSince, t_lastsecond, t_time>>
    BY Zenon DEF Statement
  <1>4. impl' = [impl EXCEPT ![t] = NoStatement] /\ impl[t] # NoStatement /\ impl[t].dated
    BY Zenon DEF Statement
  <1>5. Kept(t) /\ Took(t) /\ zoneSince \in Int
    BY DEF StampInv
  <1>6. /\ second \in Int /\ second <= now /\ stamp.second = second
        /\ stamp.zone = g_logTimeZone \/ second <= zoneSince
        /\ g_logTimeZone = Invalid => stamp.zone = Invalid
    BY <1>4, <1>5 DEF Kept, Took
  <1>7. stmt' = [stmt EXCEPT ![t] =
                   [level |-> s.level, args |-> args, buffer |-> buffer, second |-> second,
                    stamp |-> stamp, zone |-> g_logTimeZone]]
    BY <1>1, Zenon
  <1> HIDE DEF args, buffer, stamp, second
  <1>8. /\ stmt'[t].args = args /\ stmt'[t].buffer = buffer /\ stmt'[t].second = second
        /\ stmt'[t].stamp = stamp /\ stmt'[t].zone = g_logTimeZone
        /\ \A u \in Threads : u # t => stmt'[u] = stmt[u]
    BY <1>7 DEF TypeOK
  <1>9. StampRight(stmt[t])'
    <2>1. zoneSince < second => stamp.zone = g_logTimeZone
      BY <1>5, <1>6
    <2> QED
      BY <1>3, <1>6, <1>8, <2>1, Zenon DEF StampRight
  <1>10. ASSUME NEW u \in Threads PROVE Kept(u)' /\ Took(u)' /\ Told(u)'
    <2>1. Kept(u) /\ Took(u) /\ Told(u)
      BY DEF StampInv
    <2>2. Kept(u)'
      BY <1>3, <2>1, Zenon DEF Kept
    <2>3. impl'[u] = NoStatement \/ impl'[u] = impl[u]
      BY <1>4 DEF TypeOK, Constructed
    <2>4. Took(u)'
      BY <1>3, <2>1, <2>3, Zenon DEF Took
    <2>5. Told(u)'
      BY <1>3, <1>6, <1>8, <2>1 DEF Told
    <2> QED
      BY <2>2, <2>4, <2>5
  <1>11. StampInv'
    BY <1>3, <1>10, Zenon DEF StampInv
  <1> QED
    BY <1>2, <1>8, <1>9, <1>11

(* Whatever is kept is of no later second than the one in which the zone   *)
(* is set.                                                                 *)
LEMMA ZoneStamp ==
  ASSUME TypeOK, StampInv, LineText, SetTimeZone
  PROVE  StampInv' /\ LineText'
  <1>1. /\ g_logTimeZone' = "zone" /\ zoneSince' = now
        /\ UNCHANGED <<now, t_lastsecond, t_time, impl, stmt>>
    BY Zenon DEF SetTimeZone, fileVars
  <1>2. now \in Int /\ g_logTimeZone' # Invalid
    BY <1>1 DEF TypeOK, Invalid
  <1>3. ASSUME NEW t \in Threads PROVE Kept(t)' /\ Took(t)' /\ Told(t)'
    <2>1. Kept(t) /\ Took(t) /\ Told(t)
      BY DEF StampInv
    <2>2. Kept(t)'
      BY <1>1, <1>2, <2>1 DEF Kept
    <2>3. Took(t)' /\ Told(t)'
      BY <1>1, <2>1, Zenon DEF Took, Told
    <2> QED
      BY <2>2, <2>3
  <1>4. StampInv'
    <2>1. zoneSince' \in Int /\ zoneSince' <= now'
      BY <1>1, <1>2
    <2> QED
      BY <1>1, <1>3, <2>1, Zenon DEF StampInv
  <1>5. ASSUME NEW t \in Threads, stmt'[t] # NoStatement
        PROVE  StampRight(stmt[t])' /\ TextRight(stmt'[t].args, stmt'[t].buffer)
    <2>1. stmt'[t] = stmt[t] /\ StampRight(stmt[t]) /\ TextRight(stmt[t].args, stmt[t].buffer)
      BY <1>1, <1>5, Zenon DEF LineText
    <2>2. Told(t)
      BY DEF StampInv
    <2>3. ~(zoneSince' < stmt[t].second)
      BY <1>1, <1>2, <1>5, <2>2 DEF Told
    <2>4. StampRight(stmt[t])'
      BY <2>1, <2>3, Zenon DEF StampRight
    <2> QED
      BY <2>1, <2>4, Zenon
  <1>6. LineText'
    BY <1>5, Zenon DEF LineText
  <1> QED
    BY <1>4, <1>6

LEMMA InitText == Init => StampInv /\ LineText
  <1> SUFFICES ASSUME Init PROVE StampInv /\ LineText
    OBVIOUS
  <1>1. /\ now = StartTime /\ g_logTimeZone = Invalid /\ zoneSince = 0
        /\ t_lastsecond = [t \in Threads |-> 0]
        /\ t_time = [t \in Threads |-> [second |-> 0, zone |-> Invalid]]
        /\ impl = [t \in Threads |-> NoStatement] /\ stmt = [t \in Threads |-> NoStatement]
    BY DEF Init, LogFileInit
  <1>2. StampInv
    BY <1>1, BoundsAssumption DEF StampInv, Kept, Took, Told
  <1>3. LineText
    BY <1>1 DEF LineText
  <1> QED
    BY <1>2, <1>3

LEMMA TextStep == TypeOK /\ TypeOK' /\ StampInv /\ LineText /\ [Next]_vars => StampInv' /\ LineText'
  <1> SUFFICES ASSUME TypeOK, TypeOK', StampInv, LineText, [Next]_vars
               PROVE  StampInv' /\ LineText'
    OBVIOUS
  <1>1. ASSUME NEW t \in Threads, UNCHANGED <<g_logTimeZone, zoneSince>>,
               \A u \in Threads : u # t => stmt'[u] = stmt[u],
               \/ stmt'[t] = stmt[t]
               \/ StampRight(stmt[t])' /\ TextRight(stmt'[t].args, stmt'[t].buffer)
        PROVE  LineText'
    <2> SUFFICES ASSUME NEW u \in Threads, stmt'[u] # NoStatement
                 PROVE  StampRight(stmt[u])' /\ TextRight(stmt'[u].args, stmt'[u].buffer)
      BY Zenon DEF LineText
    <2>1. CASE stmt'[u] = stmt[u]
      <3>1. StampRight(stmt[u]) /\ TextRight(stmt[u].args, stmt[u].buffer)
        BY <2>1, Zenon DEF LineText
      <3>2. StampRight(stmt[u])'
        BY <1>1, <2>1, <3>1, Zenon DEF StampRight
      <3> QED
        BY <2>1, <3>1, <3>2, Zenon
    <2>2. CASE stmt'[u] # stmt[u]
      BY <1>1, <2>2, Zenon
    <2> QED
      BY <2>1, <2>2
  <1>2. ASSUME NEW t \in Threads, Statement(t) PROVE StampInv' /\ LineText'
    <2>1. /\ StampInv' /\ StampRight(stmt[t])'
          /\ TextRight(stmt'[t].args, stmt'[t].buffer)
      BY <1>2, StatementText
    <2>2. \A u \in Threads : u # t => stmt'[u] = stmt[u]
      BY <1>2, StatementEffect
    <2>3. UNCHANGED <<g_logTimeZone, zoneSince>>
      BY <1>2, Zenon DEF Statement
    <2> QED
      BY <1>1, <2>1, <2>2, <2>3, Zenon
  <1>3. ASSUME NEW t \in Threads, InLogFile(t) PROVE StampInv' /\ LineText'
    <2>1. /\ LogFileStep(t)
          /\ UNCHANGED <<g_logTimeZone, zoneSince, t_lastsecond, t_time, impl>>
          /\ stmt' = stmt \/ stmt' = [stmt EXCEPT ![t] = NoStatement]
      BY <1>3, Zenon DEF InLogFile
    <2>2. \A u \in Threads : stmt'[u] = stmt[u] \/ stmt'[u] = NoStatement
      BY <2>1 DEF TypeOK
    <2>3. now' = now
      BY <2>1 DEF LogFileStep, AppendWrite, AppendOversize, AppendCount, AppendCheck, RollFile, Flush
    <2>4. now <= now'
      BY <2>3 DEF TypeOK
    <2> QED
      BY <2>1, <2>2, <2>4, StampSame
  <1>4. ASSUME NEW t \in Threads, CallFlush(t) \/ Abort(t) PROVE StampInv' /\ LineText'
    <2>1. UNCHANGED <<now, g_logTimeZone, zoneSince, t_lastsecond, t_time, impl, stmt>>
      BY <1>4, Zenon DEF CallFlush, Abort, fileVars
    <2>2. now <= now'
      BY <2>1 DEF TypeOK
    <2> QED
      BY <2>1, <2>2, StampSame
  <1>5. ASSUME NEW t \in Threads, Construct(t) \/ FormatTime(t) PROVE StampInv' /\ LineText'
    <2>1. StampInv'
      BY <1>5, ConstructStamp, FormatStamp
    <2>2. UNCHANGED <<g_logTimeZone, zoneSince, stmt>>
      BY <1>5, Zenon DEF Construct, FormatTime
    <2> QED
      BY <1>1, <2>1, <2>2, Zenon
  <1>6. CASE Tick
    <2>1. now' = now + 1 /\ UNCHANGED <<g_logTimeZone, zoneSince, t_lastsecond, t_time, impl, stmt>>
      BY <1>6 DEF Tick, Advance, loggerVars
    <2>2. now <= now'
      BY <2>1 DEF TypeOK
    <2> QED
      BY <2>1, <2>2, StampSame
  <1>7. CASE UNCHANGED vars
    <2>1. UNCHANGED <<now, g_logTimeZone, zoneSince, t_lastsecond, t_time, impl, stmt>>
      BY <1>7, Zenon DEF vars, fileVars, loggerVars
    <2>2. now <= now'
      BY <2>1 DEF TypeOK
    <2> QED
      BY <2>1, <2>2, StampSame
  <1> QED
    BY <1>2, <1>3, <1>4, <1>5, <1>6, <1>7, ZoneStamp, StepCases DEF Quiet

(* A line shows the second in which it was begun, its 'Z' is never wrong,  *)
(* and from the second after the one in which the time zone was set on it  *)
(* shows that zone and has no 'Z'; nothing is written beyond the buffer,   *)
(* and integers read as their values (logging.cc:72-114,                   *)
(* logstream.cc:10-54).                                                    *)
THEOREM TextOfLines == Spec => []LineText
  <1> DEFINE I == TypeOK /\ Control /\ StampInv /\ LineText
  <1>1. Init => I
    BY InitType, InitText
  <1>2. I /\ [Next]_vars => I'
    BY TypeStep, ControlStep, TextStep
  <1> QED
    BY <1>1, <1>2, PTL DEF Spec

=============================================================================
