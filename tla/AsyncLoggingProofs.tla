--------------------------- MODULE AsyncLoggingProofs ---------------------------
(***************************************************************************)
(* Proofs about AsyncLogging, for every size of the buffers, every length  *)
(* of the list at which it is cut and any number of lines: the assertions  *)
(* of the code hold, and the front finds a spare buffer unless a full one  *)
(* waits.                                                                  *)
(***************************************************************************)
EXTENDS AsyncLogging, SequenceTheorems, TLAPS

(* The logging thread is started once, by start(). *)
LatchFirst == pc = "latch" => running /\ user = "latch"
StartedOnce == pc = "none" <=> user = "none"

(* Before the swap the thread has both its spares, empty, and nothing to   *)
(* write.                                                                  *)
SparesReady ==
  /\ pc \in {"none", "latch"} => toWrite = <<>>
  /\ pc \in {"test", "lock", "waiting", "woken", "done"}
     => new1 = <<>> /\ new2 = <<>> /\ toWrite = <<>>

(* After it, what it took is enough to replace the spares it left: there   *)
(* are two buffers if it left two.                                         *)
SparesCovered ==
  /\ pc \in {"backlog", "write", "recycle"}
     => /\ new1 = Null /\ new2 \in {Null, <<>>}
        /\ Len(toWrite) >= 1
        /\ new2 = Null => Len(toWrite) >= 2
  /\ pc = "backlog" => k = 0

HandOver ==
  LatchFirst /\ StartedOnce /\ SparesReady /\ SparesCovered /\ SpareUnlessBacklog

Inv == TypeOK /\ HandOver

-----------------------------------------------------------------------------

LEMMA NullIsNoBuffer == Null \notin Seq(Nat) /\ Null # <<>>
  <1>1. <<>> \in Seq(Nat)
    OBVIOUS
  <1> QED
    BY <1>1, NullAssumption DEF NullAssumption

LEMMA KeptBuffers ==
  ASSUME NEW bs \in Seq(Seq(Nat)), Len(bs) > DropLimit
  PROVE  /\ SubSeq(bs, 1, Kept) \in Seq(Seq(Nat))
         /\ Len(SubSeq(bs, 1, Kept)) = 2
         /\ SubSeq(bs, Kept + 1, Len(bs)) \in Seq(Seq(Nat))
  BY LimitAssumption DEF LimitAssumption, Kept

(* The lines of a list of buffers are numbers. *)
LEMMA LinesType == \A bs \in Seq(Seq(Nat)) : Lines(bs) \subseteq Nat
  BY DEF Lines, ToSet

LEMMA InitialInv == Init => Inv
  <1> SUFFICES ASSUME Init PROVE Inv
    OBVIOUS
  <1> USE NullIsNoBuffer DEF Init
  <1>a. running \in BOOLEAN
    BY Zenon
  <1>1. TypeOK
    BY <1>a DEF TypeOK, Pointer, UserPC, ThreadPC
  <1>b. LatchFirst /\ StartedOnce
    BY Zenon DEF LatchFirst, StartedOnce
  <1>2. HandOver
    BY <1>b DEF HandOver, SparesReady, SparesCovered, SpareUnlessBacklog
  <1> QED
    BY <1>1, <1>2 DEF Inv

(* The type invariant needs to know that only null spares are handed over  *)
(* when the code says so.                                                  *)
LEMMA TypeStep == Inv /\ [Next]_vars => TypeOK'
  <1> SUFFICES ASSUME Inv, [Next]_vars PROVE TypeOK'
    OBVIOUS
  <1> USE NullIsNoBuffer
      DEF Inv, TypeOK, Pointer, UserPC, ThreadPC, front, own, control
  <1>1. CASE Start  BY <1>1 DEF Start
  <1>2. CASE Started  BY <1>2 DEF Started
  <1>3. CASE Stop  BY <1>3 DEF Stop
  <1>4. CASE StopNotify  BY <1>4 DEF StopNotify, Notified
  <1>5. CASE Join  BY <1>5 DEF Join
  <1>6. CASE AppendFits  BY <1>6 DEF AppendFits
  <1>7. CASE AppendFull
    <2>1. IF next # Null THEN next \in Seq(Nat) ELSE <<>> \in Seq(Nat)
      OBVIOUS
    <2> QED
      BY <1>7, <2>1 DEF AppendFull, Notified
  <1>8. CASE CountDown  BY <1>8 DEF CountDown
  <1>9. CASE Test  BY <1>9 DEF Test
  <1>10. CASE Wait  BY <1>10 DEF Wait
  <1>11. CASE WaitEnds  BY <1>11 DEF WaitEnds
  <1>12. CASE Swap
    <2>1. new1 = <<>> /\ new2 = <<>>
      BY <1>12 DEF Swap, HandOver, SparesReady
    <2> QED
      BY <1>12, <2>1 DEF Swap
  <1>13. CASE Backlog
    <2>1. CASE Len(toWrite) > DropLimit
      <3>1. k' \in 0..Len(toWrite')
        BY <1>13, <2>1, KeptBuffers DEF Backlog, HandOver, SparesCovered
      <3>2. dropped' \subseteq Nat
        BY <1>13, <2>1, KeptBuffers, LinesType DEF Backlog
      <3>3. toWrite' \in Seq(Seq(Nat))
        BY <1>13, <2>1, KeptBuffers DEF Backlog
      <3>4. Append(file, Notice) \in Seq(Nat)
        BY AppendProperties DEF Notice
      <3>5. file' = Append(file, Notice) /\ pc' = "write"
        BY <1>13, <2>1 DEF Backlog
      <3>6. UNCHANGED <<front, control, new1, new2>>
        BY <1>13 DEF Backlog
      <3> HIDE DEF Notice
      <3> QED
        BY <3>1, <3>2, <3>3, <3>4, <3>5, <3>6
    <2>2. CASE ~(Len(toWrite) > DropLimit)
      BY <1>13, <2>2 DEF Backlog
    <2> QED
      BY <2>1, <2>2
  <1>14. CASE WriteNext
    <2>1. CASE k < Len(toWrite)
      <3>1. toWrite[k + 1] \in Seq(Nat)
        BY <2>1
      <3>2. file' \in Seq(Nat)
        <4>1. file' = file \o toWrite[k + 1]
          BY <1>14, <2>1 DEF WriteNext
        <4> QED
          BY <3>1, <4>1, ConcatProperties
      <3> QED
        BY <1>14, <2>1, <3>2 DEF WriteNext
    <2>2. CASE ~(k < Len(toWrite))
      BY <1>14, <2>2 DEF WriteNext
    <2> QED
      BY <2>1, <2>2
  <1>15. CASE Recycle  BY <1>15 DEF Recycle
  <1>16. CASE UNCHANGED vars  BY <1>16 DEF vars
  <1> QED
    BY <1>1, <1>2, <1>3, <1>4, <1>5, <1>6, <1>7, <1>8, <1>9, <1>10, <1>11,
       <1>12, <1>13, <1>14, <1>15, <1>16 DEF Next, UserStep, ThreadStep

(* Append takes the spare only when it puts a full buffer on the list, and *)
(* the swap hands the second spare over only when the first is gone, which *)
(* is when there is a full buffer besides the current one.                 *)
LEMMA HandOverStep == Inv /\ [Next]_vars => HandOver'
  <1> SUFFICES ASSUME Inv, [Next]_vars PROVE HandOver'
    OBVIOUS
  <1> USE NullIsNoBuffer
      DEF Inv, TypeOK, Pointer, HandOver, LatchFirst, StartedOnce, SparesReady,
          SparesCovered, SpareUnlessBacklog, front, own, control
  <1>1. CASE Start  BY <1>1 DEF Start
  <1>2. CASE Started  BY <1>2 DEF Started
  <1>3. CASE Stop  BY <1>3 DEF Stop
  <1>4. CASE StopNotify  BY <1>4 DEF StopNotify, Notified
  <1>5. CASE Join  BY <1>5 DEF Join
  <1>6. CASE AppendFits  BY <1>6 DEF AppendFits
  <1>7. CASE AppendFull
    <2>1. Len(Append(buffers, current)) = Len(buffers) + 1
      BY AppendProperties
    <2>2. Append(buffers, current) # <<>>
      <3>1. Len(Append(buffers, current)) # Len(<<>>)
        BY <2>1
      <3> QED
        BY ONLY <3>1
    <2> QED
      BY <1>7, <2>2 DEF AppendFull, Notified
  <1>8. CASE CountDown  BY <1>8 DEF CountDown
  <1>9. CASE Test  BY <1>9 DEF Test
  <1>10. CASE Wait  BY <1>10 DEF Wait
  <1>11. CASE WaitEnds  BY <1>11 DEF WaitEnds
  <1>12. CASE Swap
    <2>1. Len(Append(buffers, current)) = Len(buffers) + 1
      BY AppendProperties
    <2>2. next = Null => Len(buffers) >= 1
      BY EmptySeq
    <2>3. new1 = <<>> /\ new2 = <<>>
      BY <1>12 DEF Swap
    <2> QED
      BY SMTT(30), <1>12, <2>1, <2>2, <2>3 DEF Swap
  <1>13. CASE Backlog  BY SMTT(30), <1>13, KeptBuffers DEF Backlog
  <1>14. CASE WriteNext  BY <1>14 DEF WriteNext
  <1>15. CASE Recycle  BY <1>15 DEF Recycle
  <1>16. CASE UNCHANGED vars  BY <1>16 DEF vars
  <1> QED
    BY <1>1, <1>2, <1>3, <1>4, <1>5, <1>6, <1>7, <1>8, <1>9, <1>10, <1>11,
       <1>12, <1>13, <1>14, <1>15, <1>16 DEF Next, UserStep, ThreadStep

LEMMA InvHolds == Spec => []Inv
  <1>1. Inv /\ [Next]_vars => Inv'
    BY TypeStep, HandOverStep DEF Inv
  <1> QED
    BY InitialInv, <1>1, PTL DEF Spec

-----------------------------------------------------------------------------

(* Every variable of the logger keeps to its type; the pointer to the      *)
(* current buffer is never empty (asynclogging.cc:47-61, 88-94).           *)
THEOREM TypeCorrect == Spec => []TypeOK
  <1>1. Inv => TypeOK
    BY DEF Inv
  <1> QED
    BY InvHolds, <1>1, PTL

(* The assertions of threadFunc (asynclogging.cc:67, 77-79, 97, 123, 130)  *)
(* never fail.                                                             *)
THEOREM AssertionsNeverFail == Spec => []AssertsHold
  <1>1. Inv => AssertsHold
    BY NullIsNoBuffer
    DEF Inv, TypeOK, Pointer, HandOver, LatchFirst, SparesReady, SparesCovered,
        AssertsHold, Missing
  <1> QED
    BY InvHolds, <1>1, PTL

(* Without a spare there is a full buffer waiting, and a spare is empty    *)
(* (asynclogging.cc:54-60, 89-94).                                         *)
THEOREM SpareAvailable == Spec => []SpareUnlessBacklog
  <1>1. Inv => SpareUnlessBacklog
    BY DEF Inv, HandOver
  <1> QED
    BY InvHolds, <1>1, PTL

-----------------------------------------------------------------------------
(* The order of the lines.                                                 *)

(* When the spares are put back, all that was taken is written.            *)
AllWritten == pc = "recycle" => k = Len(toWrite)

OrderInv == Inv /\ AllWritten /\ OnceInOrder

LEMMA LinesMember ==
  ASSUME NEW bs, NEW n
  PROVE  n \in Lines(bs) <=> \E i \in DOMAIN bs : n \in ToSet(bs[i])
  BY DEF Lines, ToSet

(* The ways in which the list is put together.                             *)
LEMMA PutLast ==
  ASSUME NEW S, NEW s \in Seq(S), NEW t \in Seq(S), NEW x \in S
  PROVE  /\ s \o t \in Seq(S)
         /\ s \o t \o <<x>> = Append(s \o t, x) /\ s \o t \o <<x>> \in Seq(S)
  <1>1. s \o t \in Seq(S)
    BY ConcatProperties
  <1> QED
    BY <1>1, AppendIsConcat, AppendProperties

LEMMA PutTwo ==
  \A s, t \in Seq(Seq(Nat)) : \A x, y \in Seq(Nat) :
    s \o Append(t, x) \o <<y>> = Append(s \o t \o <<x>>, y)
  <1> DEFINE S == Seq(Nat)
  <1> SUFFICES ASSUME NEW s \in Seq(S), NEW t \in Seq(S), NEW x \in S, NEW y \in S
               PROVE  s \o Append(t, x) \o <<y>> = Append(s \o t \o <<x>>, y)
    OBVIOUS
  <1> HIDE DEF S
  <1>1. <<x>> \in Seq(S)
    OBVIOUS
  <1>2. Append(t, x) = t \o <<x>> /\ Append(t, x) \in Seq(S)
    BY AppendIsConcat, AppendProperties
  <1>3. s \o Append(t, x) = s \o t \o <<x>>
    BY <1>1, <1>2, ConcatAssociative
  <1> QED
    BY <1>2, <1>3, PutLast

LEMMA TakeNext ==
  ASSUME NEW s \in Seq(Seq(Nat)), NEW t \in Seq(Seq(Nat)), NEW x \in Seq(Nat),
         NEW i \in Nat, i < Len(s)
  PROVE  /\ s[i + 1] \in Seq(Nat)
         /\ SubSeq(s, i + 1, Len(s)) \o t \o <<x>>
            = <<s[i + 1]>> \o (SubSeq(s, i + 1 + 1, Len(s)) \o t \o <<x>>)
         /\ SubSeq(s, i + 1 + 1, Len(s)) \o t \o <<x>> \in Seq(Seq(Nat))
  <1> DEFINE S == Seq(Nat)
             rest == SubSeq(s, i + 1 + 1, Len(s))
  <1>0. s \in Seq(S) /\ t \in Seq(S) /\ x \in S
    OBVIOUS
  <1> HIDE DEF S
  <1>1. s[i + 1] \in S /\ rest \in Seq(S) /\ <<s[i + 1]>> \in Seq(S) /\ <<x>> \in Seq(S)
    BY <1>0
  <1>2. SubSeq(s, i + 1, Len(s)) = <<s[i + 1]>> \o rest
    <2>1. i + 1 \in 1..Len(s) /\ Len(s) \in i + 1..Len(s)
      BY <1>0, LenProperties
    <2> QED
      BY <1>0, <2>1, SubSeqRecursiveFirst
  <1> HIDE DEF rest
  <1>3. rest \o t \in Seq(S) /\ rest \o t \o <<x>> \in Seq(S)
    BY <1>0, <1>1, PutLast
  <1>4. <<s[i + 1]>> \o rest \o t = <<s[i + 1]>> \o (rest \o t)
    BY <1>0, <1>1, ConcatAssociative
  <1>5. <<s[i + 1]>> \o (rest \o t) \o <<x>> = <<s[i + 1]>> \o (rest \o t \o <<x>>)
    BY SMTT(30), <1>1, <1>3, ConcatAssociative
  <1> QED
    BY ZenonT(30), <1>1, <1>2, <1>3, <1>4, <1>5 DEF rest, S

(* The last buffer of the list takes a line greater than all.              *)
LEMMA PutLine ==
  ASSUME NEW bs \in Seq(Seq(Nat)), NEW b \in Seq(Nat), NEW n \in Nat,
         InOrder(Append(bs, b)), \A m \in Lines(Append(bs, b)) : m < n
  PROVE  /\ InOrder(Append(bs, Append(b, n)))
         /\ Lines(Append(bs, Append(b, n))) = Lines(Append(bs, b)) \cup {n}
  <1> DEFINE old == Append(bs, b)
             new == Append(bs, Append(b, n))
             last == Len(bs) + 1
             put == Append(b, n)
  <1>1. /\ DOMAIN old = 1..last /\ DOMAIN new = 1..last
        /\ \A i \in 1..Len(bs) : old[i] = bs[i] /\ new[i] = bs[i]
        /\ old[last] = b /\ new[last] = put
        /\ last \in Nat /\ last > Len(bs) /\ Len(bs) \in Nat
        /\ \A i \in 1..last : i = last \/ i \in 1..Len(bs)
    OBVIOUS
  <1>h. InOrder(old) /\ \A m \in Lines(old) : m < n
    OBVIOUS
  <1>2. /\ DOMAIN b = 1..Len(b) /\ DOMAIN put = 1..Len(b) + 1 /\ Len(b) \in Nat
        /\ \A i \in 1..Len(b) : put[i] = b[i]
        /\ put[Len(b) + 1] = n
        /\ \A i \in 1..Len(b) + 1 : i = Len(b) + 1 \/ i \in 1..Len(b)
    OBVIOUS
  <1> HIDE DEF old, new, last, put
  <1>3. ToSet(put) = ToSet(b) \cup {n}
    <2>1. ASSUME NEW i \in 1..Len(b) + 1  PROVE put[i] \in ToSet(b) \cup {n}
      BY <1>2, <2>1 DEF ToSet
    <2>2. ASSUME NEW i \in 1..Len(b)  PROVE b[i] \in ToSet(put)
      <3>1. i \in DOMAIN put /\ put[i] = b[i]
        BY <1>2
      <3> QED
        BY <3>1 DEF ToSet
    <2>3. n \in ToSet(put)
      <3>1. Len(b) + 1 \in DOMAIN put
        BY <1>2
      <3> QED
        BY <1>2, <3>1 DEF ToSet
    <2>4. ToSet(put) \subseteq ToSet(b) \cup {n}
      BY <1>2, <2>1 DEF ToSet
    <2>5. ToSet(b) \subseteq ToSet(put)
      BY <1>2, <2>2 DEF ToSet
    <2> QED
      BY <2>3, <2>4, <2>5
  <1>4. \A m \in ToSet(b) : m < n
    BY <1>1, <1>h, LinesMember
  <1>5. \A i \in 1..Len(bs) : \A m \in ToSet(bs[i]) : m < n
    BY <1>1, <1>h, LinesMember
  <1>6. Increasing(put)
    <2>1. Increasing(b)
      BY <1>1, <1>h DEF InOrder
    <2>2. \A i \in 1..Len(b) : b[i] < n
      BY <1>4 DEF ToSet
    <2>3. ASSUME NEW i \in DOMAIN put, NEW j \in DOMAIN put, i < j,
                 Notice \notin {put[i], put[j]}
          PROVE  put[i] < put[j]
      <3>1. i \in 1..Len(b)
        BY <1>2, <2>3
      <3>2. CASE j = Len(b) + 1
        BY <1>2, <2>2, <3>1, <3>2
      <3>3. CASE j \in 1..Len(b)
        BY <1>2, <2>1, <2>3, <3>1, <3>3 DEF Increasing
      <3> QED
        BY <1>2, <2>3, <3>2, <3>3
    <2> QED
      BY <2>3 DEF Increasing
  <1>7. \A i \in 1..last : Increasing(new[i])
    BY <1>1, <1>h, <1>6 DEF InOrder
  <1>8. ASSUME NEW i \in 1..last, NEW j \in 1..last, i < j,
               NEW l \in ToSet(new[i]), NEW m \in ToSet(new[j])
        PROVE  l < m
    <2>1. i \in 1..Len(bs) /\ new[i] = bs[i] /\ old[i] = bs[i]
      BY <1>8, <1>1
    <2>2. CASE j = last
      <3>1. m = n \/ m \in ToSet(b)
        BY <1>1, <1>3, <1>8, <2>2
      <3>2. m = n => l < m
        BY <1>5, <1>8, <2>1
      <3>3. m \in ToSet(b) => l < m
        <4>1. i \in DOMAIN old /\ last \in DOMAIN old /\ i < last
          BY <1>1, <1>8, <2>2
        <4> QED
          BY <1>1, <1>h, <1>8, <2>1, <4>1 DEF InOrder
      <3> QED
        BY <3>1, <3>2, <3>3
    <2>3. CASE j # last
      BY <1>1, <1>h, <1>8, <2>1, <2>3 DEF InOrder
    <2> QED
      BY <2>2, <2>3
  <1>9. InOrder(new)
    BY <1>1, <1>7, <1>8 DEF InOrder
  <1>10. ASSUME NEW m PROVE m \in Lines(new) <=> m \in Lines(old) \cup {n}
    <2>1. m \in Lines(new) <=> \E i \in 1..last : m \in ToSet(new[i])
      BY <1>1, LinesMember
    <2>2. m \in Lines(old) <=> \E i \in 1..last : m \in ToSet(old[i])
      BY <1>1, LinesMember
    <2>3. ASSUME NEW i \in 1..last, m \in ToSet(new[i])
          PROVE  m = n \/ m \in ToSet(old[i])
      BY <1>1, <1>3, <2>3
    <2>4. \A i \in 1..last : ToSet(old[i]) \subseteq ToSet(new[i])
      BY <1>1, <1>3
    <2>5. last \in 1..last /\ n \in ToSet(new[last])
      BY <1>1, <1>3
    <2> QED
      BY <2>1, <2>2, <2>3, <2>4, <2>5
  <1> QED
    BY <1>9, <1>10 DEF old, new, put

(* An empty buffer at the end of the list changes nothing.                 *)
LEMMA PutEmpty ==
  ASSUME NEW bs \in Seq(Seq(Nat)), InOrder(bs)
  PROVE  InOrder(Append(bs, <<>>)) /\ Lines(Append(bs, <<>>)) = Lines(bs)
  <1> DEFINE new == Append(bs, <<>>)
             last == Len(bs) + 1
             none == <<>>
  <1>1. /\ DOMAIN bs = 1..Len(bs) /\ DOMAIN new = 1..last
        /\ \A i \in 1..Len(bs) : i \in 1..last /\ new[i] = bs[i]
        /\ new[last] = none
        /\ last \in Nat /\ last > Len(bs) /\ Len(bs) \in Nat
        /\ \A i \in 1..last : i = last \/ i \in 1..Len(bs)
    OBVIOUS
  <1>2. ToSet(none) = {} /\ Increasing(none)
    BY DEF ToSet, Increasing
  <1> HIDE DEF new, last, none
  <1>3. InOrder(new)
    BY <1>1, <1>2 DEF InOrder
  <1>4. ASSUME NEW m PROVE m \in Lines(new) <=> m \in Lines(bs)
    <2>1. m \in Lines(new) <=> \E i \in 1..last : m \in ToSet(new[i])
      BY <1>1, LinesMember
    <2>2. m \in Lines(bs) <=> \E i \in 1..Len(bs) : m \in ToSet(bs[i])
      BY <1>1, LinesMember
    <2>3. \A i \in 1..Len(bs) : i \in 1..last /\ ToSet(new[i]) = ToSet(bs[i])
      BY <1>1
    <2>4. ASSUME NEW i \in 1..last, m \in ToSet(new[i])
          PROVE  i \in 1..Len(bs) /\ m \in ToSet(bs[i])
      <3>1. i # last
        BY <1>1, <1>2, <2>4
      <3> QED
        BY <1>1, <2>3, <2>4, <3>1
    <2> QED
      BY <2>1, <2>2, <2>3, <2>4
  <1> QED
    BY <1>3, <1>4 DEF new

(* The first buffer is taken off the list.                                 *)
LEMMA TakeFirst ==
  ASSUME NEW b \in Seq(Nat), NEW bs \in Seq(Seq(Nat)), InOrder(<<b>> \o bs)
  PROVE  /\ Increasing(b) /\ InOrder(bs)
         /\ \A m \in ToSet(b), n \in Lines(bs) : m < n
         /\ Lines(<<b>> \o bs) = ToSet(b) \cup Lines(bs)
  <1> DEFINE all == <<b>> \o bs
  <1>1. /\ DOMAIN bs = 1..Len(bs) /\ DOMAIN all = 1..Len(bs) + 1
        /\ all[1] = b
        /\ \A i \in 1..Len(bs) : all[i + 1] = bs[i]
        /\ \A i \in 2..Len(bs) + 1 : all[i] = bs[i - 1]
    OBVIOUS
  <1>h. InOrder(all)
    OBVIOUS
  <1> HIDE DEF all
  <1>2. Increasing(b)
    BY <1>1, <1>h DEF InOrder
  <1>3. InOrder(bs)
    <2>1. ASSUME NEW i \in 1..Len(bs)  PROVE Increasing(bs[i])
      <3>1. i + 1 \in DOMAIN all /\ all[i + 1] = bs[i]
        BY <1>1
      <3> QED
        BY <1>h, <3>1 DEF InOrder
    <2>2. ASSUME NEW i \in 1..Len(bs), NEW j \in 1..Len(bs), i < j,
                 NEW l \in ToSet(bs[i]), NEW m \in ToSet(bs[j])
          PROVE  l < m
      <3>1. i + 1 \in DOMAIN all /\ j + 1 \in DOMAIN all /\ i + 1 < j + 1
        BY <1>1, <2>2
      <3> QED
        BY <1>1, <1>h, <2>2, <3>1 DEF InOrder
    <2> QED
      BY <1>1, <2>1, <2>2 DEF InOrder
  <1>4. ASSUME NEW m \in ToSet(b), NEW n \in Lines(bs)  PROVE m < n
    <2>1. PICK i \in 1..Len(bs) : n \in ToSet(bs[i])
      BY <1>1, LinesMember
    <2>2. 1 \in DOMAIN all /\ i + 1 \in DOMAIN all /\ 1 < i + 1
      BY <1>1
    <2> QED
      BY <1>1, <1>h, <2>1, <2>2 DEF InOrder
  <1>5. ASSUME NEW m PROVE m \in Lines(all) <=> m \in ToSet(b) \cup Lines(bs)
    <2>1. m \in Lines(all) <=> \E i \in 1..Len(bs) + 1 : m \in ToSet(all[i])
      BY <1>1, LinesMember
    <2>2. m \in Lines(bs) <=> \E i \in 1..Len(bs) : m \in ToSet(bs[i])
      BY <1>1, LinesMember
    <2>3. \A i \in 1..Len(bs) : i + 1 \in 1..Len(bs) + 1 /\ all[i + 1] = bs[i]
      BY <1>1
    <2>4. \A i \in 1..Len(bs) + 1 : i = 1 \/ (i - 1 \in 1..Len(bs) /\ all[i] = bs[i - 1])
      BY <1>1
    <2>5. m \in ToSet(b) \cup Lines(bs) => m \in Lines(all)
      <3>1. 1 \in 1..Len(bs) + 1
        BY <1>1
      <3>2. m \in ToSet(b) => m \in Lines(all)
        BY <1>1, <2>1, <3>1
      <3>3. ASSUME NEW i \in 1..Len(bs), m \in ToSet(bs[i])  PROVE m \in Lines(all)
        BY <2>1, <2>3, <3>3
      <3> QED
        BY <2>2, <3>2, <3>3
    <2>6. ASSUME NEW i \in 1..Len(bs) + 1, m \in ToSet(all[i])
          PROVE  m \in ToSet(b) \cup Lines(bs)
      BY <1>1, <2>2, <2>4, <2>6
    <2> QED
      BY <2>1, <2>5, <2>6
  <1> QED
    BY <1>2, <1>3, <1>4, <1>5 DEF all

(* A buffer is written behind what the file has.                           *)
LEMMA WriteBuffer ==
  ASSUME NEW f \in Seq(Nat), NEW b \in Seq(Nat), Increasing(f), Increasing(b),
         \A m \in ToSet(f) \ {Notice}, n \in ToSet(b) : m < n
  PROVE  Increasing(f \o b) /\ ToSet(f \o b) = ToSet(f) \cup ToSet(b)
  <1> DEFINE all == f \o b
  <1>1. /\ DOMAIN f = 1..Len(f) /\ DOMAIN b = 1..Len(b)
        /\ DOMAIN all = 1..Len(f) + Len(b)
        /\ \A i \in 1..Len(f) : all[i] = f[i]
        /\ \A i \in 1..Len(b) : all[Len(f) + i] = b[i]
        /\ Len(f) \in Nat /\ Len(b) \in Nat
    OBVIOUS
  <1> HIDE DEF all
  <1>2. \A i \in DOMAIN all : \/ i \in 1..Len(f) /\ all[i] = f[i]
                             \/ /\ i - Len(f) \in 1..Len(b)
                                /\ all[i] = b[i - Len(f)] /\ i > Len(f)
    <2> SUFFICES ASSUME NEW i \in DOMAIN all, i \notin 1..Len(f)
                 PROVE  /\ i - Len(f) \in 1..Len(b)
                        /\ all[i] = b[i - Len(f)] /\ i > Len(f)
      BY <1>1
    <2>1. i - Len(f) \in 1..Len(b) /\ i > Len(f) /\ Len(f) + (i - Len(f)) = i
      BY <1>1
    <2> QED
      BY <1>1, <2>1
  <1>3. ASSUME NEW i \in DOMAIN all, NEW j \in DOMAIN all, i < j,
               Notice \notin {all[i], all[j]}
        PROVE  all[i] < all[j]
    <2>1. CASE j \in 1..Len(f)
      <3>1. i \in 1..Len(f)
        BY <1>1, <1>3, <2>1
      <3> QED
        BY <1>1, <1>3, <2>1, <3>1 DEF Increasing
    <2>2. CASE i \in 1..Len(f) /\ j - Len(f) \in 1..Len(b) /\ all[j] = b[j - Len(f)]
      <3>1. all[i] \in ToSet(f) /\ all[j] \in ToSet(b)
        BY <1>1, <2>2 DEF ToSet
      <3> QED
        BY <1>3, <3>1
    <2>3. CASE /\ i - Len(f) \in 1..Len(b) /\ j - Len(f) \in 1..Len(b)
               /\ all[i] = b[i - Len(f)] /\ all[j] = b[j - Len(f)]
      <3>1. i - Len(f) < j - Len(f)
        BY <1>1, <1>3
      <3> QED
        BY <1>1, <1>3, <2>3, <3>1 DEF Increasing
    <2> QED
      BY <1>2, <1>3, <2>1, <2>2, <2>3
  <1>4. Increasing(all)
    BY <1>3 DEF Increasing
  <1>5. ToSet(all) \subseteq ToSet(f) \cup ToSet(b)
    BY <1>1, <1>2 DEF ToSet
  <1>6. ToSet(f) \subseteq ToSet(all)
    <2>1. \A i \in 1..Len(f) : i \in DOMAIN all
      BY <1>1
    <2> QED
      BY <1>1, <2>1 DEF ToSet
  <1>7. ToSet(b) \subseteq ToSet(all)
    <2>1. \A i \in 1..Len(b) : Len(f) + i \in DOMAIN all
      BY <1>1
    <2> QED
      BY <1>1, <2>1 DEF ToSet
  <1> QED
    BY <1>4, <1>5, <1>6, <1>7 DEF all

(* Cutting the list leaves the order, and what is cut is nowhere else.     *)
LEMMA CutList ==
  ASSUME NEW t \in Seq(Seq(Nat)), NEW r \in Seq(Seq(Nat)), Len(t) > Kept,
         InOrder(t \o r)
  PROVE  LET left == SubSeq(t, 1, Kept) \o r
             cut == SubSeq(t, Kept + 1, Len(t))
         IN  /\ InOrder(left)
             /\ Lines(left) \cap Lines(cut) = {}
             /\ Lines(left) \cup Lines(cut) = Lines(t \o r)
  <1> DEFINE all == t \o r
             left == SubSeq(t, 1, Kept) \o r
             cut == SubSeq(t, Kept + 1, Len(t))
             gap == Len(t) - 2
             old(i) == IF i <= 2 THEN i ELSE i + gap
  <1>1. /\ gap \in Nat \ {0} /\ Len(r) \in Nat
        /\ DOMAIN all = 1..2 + gap + Len(r)
        /\ DOMAIN left = 1..2 + Len(r) /\ DOMAIN cut = 1..gap
    <2>1. Len(t) \in Nat /\ Len(t) > 2 /\ Len(r) \in Nat
      BY DEF Kept
    <2>2. /\ SubSeq(t, 1, 2) \in Seq(Seq(Nat)) /\ Len(SubSeq(t, 1, 2)) = 2
          /\ cut \in Seq(Seq(Nat)) /\ Len(cut) = gap
      BY <2>1 DEF Kept
    <2>3. /\ all \in Seq(Seq(Nat)) /\ Len(all) = Len(t) + Len(r)
          /\ left \in Seq(Seq(Nat)) /\ Len(left) = 2 + Len(r)
      BY <2>2, ConcatProperties DEF Kept
    <2>4. Len(t) + Len(r) = 2 + gap + Len(r)
      BY <2>1
    <2>5. DOMAIN all = 1..Len(all) /\ DOMAIN left = 1..Len(left) /\ DOMAIN cut = 1..Len(cut)
      BY <2>2, <2>3, LenProperties
    <2>6. gap \in Nat \ {0}
      <3>1. \A n \in Nat : n > 2 => n - 2 \in Nat \ {0}
        OBVIOUS
      <3> QED
        BY <2>1, <3>1
    <2> HIDE DEF all, left, cut, gap
    <2> QED
      BY <2>1, <2>2, <2>3, <2>4, <2>5, <2>6
  <1>2. /\ \A i \in 1..2 : left[i] = all[i]
        /\ \A i \in 3..2 + Len(r) : left[i] = all[i + gap]
        /\ \A i \in 1..gap : cut[i] = all[i + 2]
    BY DEF Kept
  <1>h. InOrder(all)
    OBVIOUS
  <1>t. \A i \in DOMAIN all : ToSet(all[i]) \subseteq Nat
    <2>1. all \in Seq(Seq(Nat))
      BY ConcatProperties
    <2> HIDE DEF all
    <2>2. \A i \in DOMAIN all : all[i] \in Seq(Nat)
      BY <2>1
    <2> QED
      BY <2>2 DEF ToSet
  <1> HIDE DEF all, left, cut, gap
  <1>3. /\ \A i \in DOMAIN left : old(i) \in DOMAIN all /\ left[i] = all[old(i)]
                                 /\ old(i) \notin 3..2 + gap
        /\ \A i, j \in DOMAIN left : i < j => old(i) < old(j)
        /\ \A i \in DOMAIN cut : i + 2 \in DOMAIN all /\ i + 2 \in 3..2 + gap
    <2>1. ASSUME NEW i \in DOMAIN left
          PROVE  old(i) \in DOMAIN all /\ left[i] = all[old(i)] /\ old(i) \notin 3..2 + gap
      BY <1>1, <1>2
    <2>2. ASSUME NEW i \in DOMAIN left, NEW j \in DOMAIN left, i < j
          PROVE  old(i) < old(j)
      BY <1>1, <2>2
    <2>3. ASSUME NEW i \in DOMAIN cut  PROVE i + 2 \in DOMAIN all /\ i + 2 \in 3..2 + gap
      BY <1>1
    <2> QED
      BY <2>1, <2>2, <2>3
  <1>4. \A i \in DOMAIN all : \/ i - 2 \in DOMAIN cut /\ all[i] = cut[i - 2]
                             \/ \E j \in DOMAIN left : all[i] = left[j]
    <2> SUFFICES ASSUME NEW i \in DOMAIN all, i - 2 \notin DOMAIN cut
                 PROVE  \E j \in DOMAIN left : all[i] = left[j]
      BY <1>1, <1>2
    <2>1. i <= 2 => i \in DOMAIN left /\ all[i] = left[i]
      BY <1>1, <1>2
    <2>2. i > 2 => /\ i - gap \in DOMAIN left /\ i - gap \in 3..2 + Len(r)
                   /\ (i - gap) + gap = i
      <3>1. i \in 1..2 + gap + Len(r) /\ i - 2 \notin 1..gap
        BY <1>1
      <3>2. ASSUME NEW g \in Nat, NEW c \in Nat, i \in 1..2 + g + c, i - 2 \notin 1..g, i > 2
            PROVE  i - g \in 1..2 + c /\ i - g \in 3..2 + c /\ (i - g) + g = i
        BY <3>2
      <3> QED
        BY <1>1, <3>1, <3>2
    <2>3. i > 2 => all[i] = left[i - gap]
      BY <1>2, <2>2
    <2> QED
      BY <1>1, <2>1, <2>2, <2>3
  <1> HIDE DEF old
  <1>5. InOrder(left)
    BY <1>3, <1>h DEF InOrder
  <1>6. ASSUME NEW m \in Lines(left), NEW n \in Lines(cut)  PROVE m # n
    <2>1. PICK i \in DOMAIN left : m \in ToSet(left[i])
      BY LinesMember
    <2>2. PICK j \in DOMAIN cut : n \in ToSet(cut[j])
      BY LinesMember
    <2>3. old(i) \in Nat /\ j + 2 \in Nat /\ (old(i) < j + 2 \/ j + 2 < old(i))
      BY <1>1, <1>3
    <2>4. m \in ToSet(all[old(i)]) /\ n \in ToSet(all[j + 2])
      BY <1>1, <1>2, <1>3, <2>1, <2>2
    <2>5. m < n \/ n < m
      BY <1>3, <1>h, <2>3, <2>4 DEF InOrder
    <2>6. m \in Nat /\ n \in Nat
      <3>1. ToSet(all[old(i)]) \subseteq Nat /\ ToSet(all[j + 2]) \subseteq Nat
        BY <1>t, <1>3, <2>1, <2>2
      <3> QED
        BY <2>4, <3>1
    <2> QED
      BY <2>5, <2>6
  <1>7. Lines(left) \subseteq Lines(all) /\ Lines(cut) \subseteq Lines(all)
    <2>1. \A i \in DOMAIN cut : cut[i] = all[i + 2]
      BY <1>1, <1>2
    <2> QED
      BY <1>3, <2>1, LinesMember
  <1>8. Lines(all) \subseteq Lines(left) \cup Lines(cut)
    BY <1>4, LinesMember
  <1> QED
    BY <1>5, <1>6, <1>7, <1>8 DEF all, left, cut

-----------------------------------------------------------------------------

LEMMA OrderInitial == Init => AllWritten /\ OnceInOrder
  <1> SUFFICES ASSUME Init PROVE AllWritten /\ OnceInOrder
    OBVIOUS
  <1>1. Written = {} /\ Increasing(file)
    BY DEF Init, Written, ToSet, Increasing
  <1>a. Coming = <<<<>>>>
    <2>1. <<>> \in Seq(Seq(Nat)) /\ <<<<>>>> \in Seq(Seq(Nat))
      OBVIOUS
    <2>2. SubSeq(toWrite, k + 1, Len(toWrite)) = <<>>
      BY DEF Init
    <2> QED
      BY <2>1, <2>2, ConcatEmptySeq DEF Init, Coming
  <1>2. ToSet(<<>>) = {} /\ Increasing(<<>>)
    BY DEF ToSet, Increasing
  <1>3. InOrder(<<<<>>>>)
    BY <1>2 DEF InOrder
  <1>4. Lines(<<<<>>>>) = {}
    BY <1>2, LinesMember
  <1> QED
    BY <1>1, <1>a, <1>3, <1>4 DEF Init, OnceInOrder, AllWritten

LEMMA AppendFitsOrder == OrderInv /\ AppendFits => OnceInOrder'
  <1> SUFFICES ASSUME OrderInv, AppendFits PROVE OnceInOrder'
    OBVIOUS
  <1> DEFINE before == SubSeq(toWrite, k + 1, Len(toWrite)) \o buffers
  <1>1. /\ current \in Seq(Nat) /\ count \in Nat /\ Append(current, count + 1) \in Seq(Nat)
        /\ buffers \in Seq(Seq(Nat)) /\ SubSeq(toWrite, k + 1, Len(toWrite)) \in Seq(Seq(Nat))
    BY DEF OrderInv, Inv, TypeOK
  <1>a. before \in Seq(Seq(Nat))
    BY <1>1, PutLast
  <1>b. Coming = before \o <<current>> /\ Coming' = before \o <<Append(current, count + 1)>>
    BY DEF Coming, AppendFits, own
  <1>2. Coming = Append(before, current) /\ Coming' = Append(before, Append(current, count + 1))
    BY <1>1, <1>a, <1>b, AppendIsConcat
  <1>3. /\ OnceInOrder /\ count' = count + 1
        /\ UNCHANGED <<file, dropped, Written>>
    BY DEF OrderInv, AppendFits, own, Written
  <1> HIDE DEF before
  <1>4. \A m \in Written \cup Lines(Coming) \cup dropped : m < count + 1
    BY <1>1, <1>3 DEF OnceInOrder
  <1>5. InOrder(Coming') /\ Lines(Coming') = Lines(Coming) \cup {count + 1}
    BY <1>1, <1>a, <1>2, <1>3, <1>4, PutLine DEF OnceInOrder
  <1>6. 1..count + 1 = 1..count \cup {count + 1}
    BY <1>1
  <1>7. count + 1 \notin dropped
    BY <1>1, <1>4
  <1> QED
    BY <1>3, <1>4, <1>5, <1>6, <1>7 DEF OnceInOrder

LEMMA AppendFullOrder == OrderInv /\ AppendFull => OnceInOrder'
  <1> SUFFICES ASSUME OrderInv, AppendFull PROVE OnceInOrder'
    OBVIOUS
  <1> DEFINE before == SubSeq(toWrite, k + 1, Len(toWrite)) \o buffers
  <1>1. /\ before \in Seq(Seq(Nat)) /\ current \in Seq(Nat) /\ count \in Nat
        /\ buffers \in Seq(Seq(Nat)) /\ SubSeq(toWrite, k + 1, Len(toWrite)) \in Seq(Seq(Nat))
    BY DEF OrderInv, Inv, TypeOK
  <1>2. current' = Append(<<>>, count + 1)
    BY DEF AppendFull, OrderInv, Inv, HandOver, SpareUnlessBacklog
  <1>3. /\ Coming \in Seq(Seq(Nat))
        /\ Coming' = Append(Coming, Append(<<>>, count + 1))
    <2>1. Append(<<>>, count + 1) \in Seq(Nat)
      BY <1>1
    <2>2. Coming' = SubSeq(toWrite, k + 1, Len(toWrite)) \o Append(buffers, current)
                    \o <<Append(<<>>, count + 1)>>
      BY <1>2 DEF Coming, AppendFull, own
    <2> DEFINE unwritten == SubSeq(toWrite, k + 1, Len(toWrite))
               line == Append(<<>>, count + 1)
    <2>3. Coming = unwritten \o buffers \o <<current>>
      BY DEF Coming
    <2> HIDE DEF unwritten, line
    <2>4. Coming \in Seq(Seq(Nat))
      BY <1>1, <2>3, PutLast DEF unwritten
    <2>5. unwritten \o Append(buffers, current) \o <<line>>
          = Append(unwritten \o buffers \o <<current>>, line)
      <3>1. /\ unwritten \in Seq(Seq(Nat)) /\ buffers \in Seq(Seq(Nat))
            /\ current \in Seq(Nat) /\ line \in Seq(Nat)
        BY <1>1, <2>1 DEF unwritten, line
      <3> QED
        BY <3>1, PutTwo
    <2> QED
      BY <2>2, <2>3, <2>4, <2>5 DEF unwritten, line
  <1>4. /\ OnceInOrder /\ count' = count + 1
        /\ UNCHANGED <<file, dropped, Written>>
    BY DEF OrderInv, AppendFull, own, Written
  <1>5. \A m \in Written \cup Lines(Coming) \cup dropped : m < count + 1
    BY <1>1, <1>4 DEF OnceInOrder
  <1>6. InOrder(Append(Coming, <<>>)) /\ Lines(Append(Coming, <<>>)) = Lines(Coming)
    BY <1>3, <1>4, PutEmpty DEF OnceInOrder
  <1>7. InOrder(Coming') /\ Lines(Coming') = Lines(Coming) \cup {count + 1}
    <2>1. <<>> \in Seq(Nat) /\ count + 1 \in Nat
      BY <1>1
    <2> QED
      <3> DEFINE n == count + 1
                 b == <<>>
      <3>1. /\ b \in Seq(Nat) /\ n \in Nat /\ Coming \in Seq(Seq(Nat))
            /\ InOrder(Append(Coming, b)) /\ \A m \in Lines(Append(Coming, b)) : m < n
        BY <1>3, <1>5, <1>6, <2>1
      <3>2. Coming' = Append(Coming, Append(b, n)) /\ Lines(Append(Coming, b)) = Lines(Coming)
        BY <1>3, <1>6
      <3> HIDE DEF n, b
      <3>3. /\ InOrder(Append(Coming, Append(b, n)))
            /\ Lines(Append(Coming, Append(b, n))) = Lines(Append(Coming, b)) \cup {n}
        BY <3>1, PutLine
      <3> QED
        BY <3>2, <3>3 DEF n
  <1>8. 1..count + 1 = 1..count \cup {count + 1}
    BY <1>1
  <1>9. count + 1 \notin dropped
    BY <1>1, <1>5
  <1> QED
    BY <1>4, <1>5, <1>7, <1>8, <1>9 DEF OnceInOrder

LEMMA SwapOrder == OrderInv /\ Swap => OnceInOrder'
  <1> SUFFICES ASSUME OrderInv, Swap PROVE OnceInOrder'
    OBVIOUS
  <1>1. /\ toWrite = <<>> /\ k = 0 /\ new1 = <<>>
        /\ buffers \in Seq(Seq(Nat)) /\ current \in Seq(Nat)
    BY DEF OrderInv, Inv, TypeOK, HandOver, SparesReady, Swap
  <1>2. Coming \in Seq(Seq(Nat)) /\ Coming' = Append(Coming, <<>>)
    <2>1. SubSeq(toWrite, k + 1, Len(toWrite)) = <<>> /\ <<>> \in Seq(Nat) /\ <<>> \in Seq(Seq(Nat))
      BY <1>1
    <2>2. Coming = <<>> \o buffers \o <<current>>
      BY <2>1 DEF Coming
    <2>3. Append(buffers, current) \in Seq(Seq(Nat))
      BY <1>1, AppendProperties
    <2>4. SubSeq(toWrite', k' + 1, Len(toWrite')) = Append(buffers, current)
      BY <2>3, SubSeqFull DEF Swap
    <2>5. Coming' = Append(buffers, current) \o <<>> \o <<<<>>>>
      BY <1>1, <2>4 DEF Coming, Swap
    <2>6. Coming' = <<>> \o Append(buffers, current) \o <<<<>>>>
      BY <2>3, <2>5, ConcatEmptySeq
    <2> QED
      BY <1>1, <2>1, <2>2, <2>6, PutLast, PutTwo
  <1>3. OnceInOrder /\ UNCHANGED <<file, dropped, Written, count>>
    BY DEF OrderInv, Swap, Written
  <1> QED
    BY <1>2, <1>3, PutEmpty DEF OnceInOrder

LEMMA BacklogOrder == OrderInv /\ Backlog => OnceInOrder'
  <1> SUFFICES ASSUME OrderInv, Backlog PROVE OnceInOrder'
    OBVIOUS
  <1>1. CASE ~(Len(toWrite) > DropLimit)
    <2>1. UNCHANGED <<file, dropped, Written, count, Coming>>
      BY <1>1 DEF Backlog, front, Written, Coming
    <2> QED
      BY <2>1 DEF OrderInv, OnceInOrder
  <1>2. CASE Len(toWrite) > DropLimit
    <2> DEFINE rest == buffers \o <<current>>
               cut == SubSeq(toWrite, Kept + 1, Len(toWrite))
    <2>1. /\ k = 0 /\ toWrite \in Seq(Seq(Nat)) /\ rest \in Seq(Seq(Nat))
          /\ file \in Seq(Nat) /\ Len(toWrite) > Kept
      BY <1>2, LimitAssumption
      DEF OrderInv, Inv, TypeOK, HandOver, SparesCovered, Backlog, LimitAssumption, Kept
    <2>2. /\ Coming = toWrite \o rest
          /\ Coming' = SubSeq(toWrite, 1, Kept) \o rest
      <3>1. /\ buffers \in Seq(Seq(Nat)) /\ <<current>> \in Seq(Seq(Nat))
            /\ SubSeq(toWrite, 1, Kept) \in Seq(Seq(Nat)) /\ Len(SubSeq(toWrite, 1, Kept)) = Kept
        BY <2>1, KeptBuffers, <1>2 DEF OrderInv, Inv, TypeOK, Kept
      <3>2. SubSeq(toWrite, k + 1, Len(toWrite)) = toWrite
        BY <2>1, SubSeqFull
      <3>3. SubSeq(toWrite', k' + 1, Len(toWrite')) = SubSeq(toWrite, 1, Kept)
        BY <1>2, <2>1, <3>1, SubSeqFull DEF Backlog
      <3> QED
        <4>1. Coming = toWrite \o buffers \o <<current>>
          BY <3>2 DEF Coming
        <4>2. Coming' = SubSeq(toWrite, 1, Kept) \o buffers \o <<current>>
          BY <3>3 DEF Coming, Backlog, front
        <4>3. ASSUME NEW s \in Seq(Seq(Nat))
              PROVE  s \o buffers \o <<current>> = s \o (buffers \o <<current>>)
          <5> DEFINE S == Seq(Nat)
                     last == <<current>>
          <5>1. s \in Seq(S) /\ buffers \in Seq(S) /\ last \in Seq(S)
            BY <3>1, <4>3
          <5> HIDE DEF S, last
          <5>2. s \o buffers \o last = s \o (buffers \o last)
            BY <5>1, ConcatAssociative
          <5> QED
            BY <5>2 DEF last
        <4> QED
          BY <2>1, <3>1, <4>1, <4>2, <4>3
    <2>3. /\ OnceInOrder /\ file' = Append(file, Notice)
          /\ dropped' = dropped \cup Lines(cut) /\ count' = count
      BY <1>2 DEF OrderInv, Backlog, front
    <2> HIDE DEF rest, cut
    <2>4. /\ InOrder(Coming')
          /\ Lines(Coming') \cap Lines(cut) = {}
          /\ Lines(Coming') \cup Lines(cut) = Lines(Coming)
      BY <2>1, <2>2, <2>3, CutList DEF OnceInOrder, cut
    <2>5. Increasing(file') /\ Written' = Written
      <3>1. /\ DOMAIN file = 1..Len(file) /\ DOMAIN file' = 1..Len(file) + 1
            /\ \A i \in 1..Len(file) : file'[i] = file[i]
            /\ file'[Len(file) + 1] = Notice
            /\ \A i \in 1..Len(file) + 1 : i = Len(file) + 1 \/ i \in 1..Len(file)
            /\ \A i \in 1..Len(file) : i \in 1..Len(file) + 1
        BY <2>1, <2>3
      <3>2. Increasing(file')
        BY <2>3, <3>1 DEF Increasing, OnceInOrder
      <3>3. Written' = Written
        BY <3>1 DEF Written, ToSet
      <3> QED
        BY <3>2, <3>3
    <2>6. \A n \in Lines(cut) : n \notin Written
      <3>1. \A m \in Written : m \in Nat
        BY <2>1 DEF Written, ToSet
      <3> QED
        BY <2>3, <2>4, <3>1 DEF OnceInOrder
    <2> QED
      BY <2>3, <2>4, <2>5, <2>6 DEF OnceInOrder
  <1> QED
    BY <1>1, <1>2

LEMMA WriteNextOrder == OrderInv /\ WriteNext => OnceInOrder'
  <1> SUFFICES ASSUME OrderInv, WriteNext PROVE OnceInOrder'
    OBVIOUS
  <1>1. CASE ~(k < Len(toWrite))
    <2>1. UNCHANGED <<file, dropped, Written, count, Coming>>
      BY <1>1 DEF WriteNext, front, Written, Coming
    <2> QED
      BY <2>1 DEF OrderInv, OnceInOrder
  <1>2. CASE k < Len(toWrite)
    <2> DEFINE b == toWrite[k + 1]
    <2>a. /\ toWrite \in Seq(Seq(Nat)) /\ buffers \in Seq(Seq(Nat)) /\ current \in Seq(Nat)
          /\ k \in Nat /\ file \in Seq(Nat)
      BY DEF OrderInv, Inv, TypeOK
    <2>b. Coming' = SubSeq(toWrite, k + 1 + 1, Len(toWrite)) \o buffers \o <<current>>
      BY <1>2 DEF Coming, WriteNext, front
    <2>1. b \in Seq(Nat) /\ Coming' \in Seq(Seq(Nat)) /\ file \in Seq(Nat)
      BY <1>2, <2>a, <2>b, TakeNext
    <2>2. Coming = <<b>> \o Coming'
      <3>1. Coming = SubSeq(toWrite, k + 1, Len(toWrite)) \o buffers \o <<current>>
        BY DEF Coming
      <3> QED
        BY <1>2, <2>a, <2>b, <3>1, TakeNext
    <2>3. OnceInOrder /\ file' = file \o b /\ UNCHANGED <<dropped, count>>
      BY <1>2 DEF OrderInv, WriteNext, front
    <2> HIDE DEF b
    <2>4. /\ Increasing(b) /\ InOrder(Coming')
          /\ \A m \in ToSet(b), n \in Lines(Coming') : m < n
          /\ Lines(Coming) = ToSet(b) \cup Lines(Coming')
      BY <2>1, <2>2, <2>3, TakeFirst DEF OnceInOrder
    <2>5. \A m \in ToSet(file) \ {Notice}, n \in ToSet(b) : m < n
      BY <2>3, <2>4 DEF OnceInOrder, Written
    <2>6. Increasing(file') /\ ToSet(file') = ToSet(file) \cup ToSet(b)
      BY <2>1, <2>3, <2>4, <2>5, WriteBuffer DEF OnceInOrder
    <2>7. Notice \notin ToSet(b)
      BY <2>3, <2>4 DEF OnceInOrder, Notice
    <2>8. Written' = Written \cup ToSet(b)
      BY <2>6, <2>7 DEF Written
    <2> QED
      BY <2>3, <2>4, <2>6, <2>8 DEF OnceInOrder
  <1> QED
    BY <1>1, <1>2

LEMMA OrderStep == OrderInv /\ [Next]_vars => (AllWritten /\ OnceInOrder)'
  <1> SUFFICES ASSUME OrderInv, [Next]_vars PROVE AllWritten' /\ OnceInOrder'
    OBVIOUS
  <1> USE DEF front, own, control
  <1>1. ASSUME UNCHANGED <<file, toWrite, k, buffers, current, count, dropped>>
        PROVE  OnceInOrder'
    <2>1. UNCHANGED <<Written, Coming>>
      BY <1>1 DEF Written, Coming
    <2> QED
      BY <1>1, <2>1 DEF OrderInv, OnceInOrder
  <1>2. ASSUME pc' # "recycle" \/ UNCHANGED <<pc, k, toWrite>>  PROVE AllWritten'
    BY <1>2 DEF OrderInv, AllWritten
  <1>3. CASE Start \/ Started \/ Stop \/ Join
    BY <1>1, <1>2, <1>3 DEF Start, Started, Stop, Join
  <1>4. CASE StopNotify
    BY <1>1, <1>2, <1>4 DEF StopNotify, Notified
  <1>5. CASE AppendFits
    BY <1>2, <1>5, AppendFitsOrder DEF AppendFits
  <1>6. CASE AppendFull
    BY <1>2, <1>6, AppendFullOrder DEF AppendFull, Notified
  <1>7. CASE CountDown \/ Test \/ Wait \/ WaitEnds
    BY <1>1, <1>2, <1>7 DEF CountDown, Test, Wait, WaitEnds
  <1>8. CASE Swap
    BY <1>2, <1>8, SwapOrder DEF Swap
  <1>9. CASE Backlog
    BY <1>2, <1>9, BacklogOrder DEF Backlog
  <1>10. CASE WriteNext
    <2>1. k \in 0..Len(toWrite) /\ toWrite \in Seq(Seq(Nat))
      BY DEF OrderInv, Inv, TypeOK
    <2>2. AllWritten'
      BY <1>10, <2>1 DEF WriteNext, AllWritten
    <2> QED
      BY <1>10, <2>2, WriteNextOrder
  <1>11. CASE Recycle
    <2>1. k = Len(toWrite) /\ toWrite \in Seq(Seq(Nat)) /\ buffers \in Seq(Seq(Nat))
      BY <1>11 DEF OrderInv, AllWritten, Recycle, Inv, TypeOK
    <2>2. SubSeq(toWrite, k + 1, Len(toWrite)) = <<>>
      BY <2>1
    <2>3. SubSeq(toWrite', k' + 1, Len(toWrite')) = <<>>
      BY <1>11 DEF Recycle
    <2>4. UNCHANGED <<file, dropped, count, Written, Coming>>
      BY <1>11, <2>2, <2>3 DEF Recycle, Written, Coming
    <2> QED
      BY <1>2, <1>11, <2>4 DEF OrderInv, OnceInOrder, Recycle
  <1>12. CASE UNCHANGED vars
    BY <1>1, <1>2, <1>12 DEF vars
  <1> QED
    BY <1>3, <1>4, <1>5, <1>6, <1>7, <1>8, <1>9, <1>10, <1>11, <1>12
    DEF Next, UserStep, ThreadStep

(* Every line appended is in the file, on its way, or cut, once and in     *)
(* order (asynclogging.cc:47-61, 88-94, 109-136).                          *)
THEOREM LinesOnceInOrder == Spec => []OnceInOrder
  <1>1. OrderInv /\ [Next]_vars => OrderInv'
    BY TypeStep, HandOverStep, OrderStep DEF OrderInv, Inv
  <1>2. Init => OrderInv
    BY InitialInv, OrderInitial DEF OrderInv
  <1>3. OrderInv => OnceInOrder
    BY DEF OrderInv
  <1> QED
    BY <1>1, <1>2, <1>3, PTL DEF Spec
=============================================================================
