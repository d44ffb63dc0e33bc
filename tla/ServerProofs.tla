----------------------------- MODULE ServerProofs -----------------------------
(***************************************************************************)
(* Proofs about Server, for any number of loops, descriptors and           *)
(* connections and any limit: the tables of a loop agree with one another  *)
(* and with what its epoll instance has registered, the acceptor's edge is *)
(* not lost, and every open descriptor is in one place.                    *)
(***************************************************************************)
EXTENDS Server, TLAPS

(* Each loop has its tables, whatever is in them. *)
Shape ==
  /\ http = [l \in Loops |-> http[l]]
  /\ chan = [l \in Loops |-> chan[l]]
  /\ reg = [l \in Loops |-> reg[l]]

Inv == Shape /\ TablesAgree

-----------------------------------------------------------------------------

LEMMA InitialInv == Init => Inv
BY DEF Init, Inv, Shape, TablesAgree

(* The acceptor touches no table. *)
LEMMA AcceptorKeepsTables ==
  ASSUME ClientConnects \/ AcceptorStep \/ UNCHANGED vars
  PROVE  UNCHANGED <<http, chan, reg>>
BY DEF ClientConnects, AcceptorStep, ListenReady, Accept, GiveToLoop, SetupFails,
       AcceptEnds, HandleThisConn, tables, vars

LEMMA LoopKeepsTables ==
  ASSUME Inv, NEW l \in Loops, LoopStep(l)
  PROVE  Inv'
<1>1. CASE NewEvent(l)
  <2> DEFINE fd == Head(pending[l])
  <2> HIDE DEF fd
  <2>1. /\ http' = [http EXCEPT ![l] = @ \cup {fd}]
        /\ \/ /\ chan' = [chan EXCEPT ![l] = @ \cup {fd}]
              /\ reg' = [reg EXCEPT ![l] = @ \cup {fd}]
           \/ chan' = [chan EXCEPT ![l] = @ \ {fd}] /\ reg' = reg
    BY <1>1 DEF NewEvent, fd
  <2>2. Shape'
    BY <2>1 DEF Inv, Shape
  <2>3. ASSUME NEW k \in Loops
        PROVE  chan'[k] \subseteq reg'[k] /\ reg'[k] \subseteq http'[k]
    <3>1. chan[k] \subseteq reg[k] /\ reg[k] \subseteq http[k]
      BY DEF Inv, TablesAgree
    <3>2. CASE k = l
      BY <2>1, <3>1, <3>2 DEF Inv, Shape
    <3>3. CASE k # l
      BY <2>1, <3>1, <3>3 DEF Inv, Shape
    <3>4. QED
      BY <3>2, <3>3
  <2>4. QED
    BY <2>2, <2>3 DEF Inv, TablesAgree
<1>2. CASE \E fd \in Fds : ModFails(l, fd)
  <2>1. PICK fd \in Fds : ModFails(l, fd)
    BY <1>2
  <2>2. QED
    BY <2>1 DEF ModFails, Inv, Shape, TablesAgree
<1>3. CASE \E fd \in Fds : EpollDel(l, fd)
  <2>1. PICK fd \in Fds : EpollDel(l, fd)
    BY <1>3
  <2>2. QED
    BY <2>1 DEF EpollDel, Inv, Shape, TablesAgree
<1>4. CASE \/ CloseFile(l) \/ OpenFile(l)
           \/ \E fd \in Fds : CloseFd(l, fd)
  <2>1. UNCHANGED <<http, chan, reg>>
    BY <1>4 DEF CloseFile, OpenFile, CloseFd, tables
  <2>2. QED
    BY <2>1 DEF Inv, Shape, TablesAgree
<1>5. QED
  BY <1>1, <1>2, <1>3, <1>4 DEF LoopStep

(* At every moment the channels a loop's epoll instance can report are     *)
(* registered, and what is registered has its HttpData in the table,       *)
(* although registrations fail and descriptors are reused.                 *)
THEOREM TablesAlwaysAgree == Spec => []TablesAgree
<1>1. Inv /\ [Next]_vars => Inv'
  <2> SUFFICES ASSUME Inv, [Next]_vars PROVE Inv'
    OBVIOUS
  <2>1. CASE ClientConnects \/ AcceptorStep \/ UNCHANGED vars
    <3>1. UNCHANGED <<http, chan, reg>>
      BY <2>1, AcceptorKeepsTables
    <3>2. QED
      BY <3>1 DEF Inv, Shape, TablesAgree
  <2>2. CASE \E l \in Loops : LoopStep(l)
    BY <2>2, LoopKeepsTables
  <2>3. QED
    BY <2>1, <2>2 DEF Next
<1>2. Inv => TablesAgree
  BY DEF Inv
<1>3. QED
  BY InitialInv, <1>1, <1>2, PTL DEF Spec

-----------------------------------------------------------------------------

(* The acceptor: its item is disarmed only by a failed fcntl, and then     *)
(* idle for good; a client that comes after accept found no more raises an *)
(* edge before the round is over.                                          *)
AcceptorInv ==
  /\ armed \in BOOLEAN /\ edge \in BOOLEAN
  /\ armed = FALSE => errno = "fcntl" /\ acc = "idle"
  /\ acc = "conn" /\ errno = "EAGAIN" /\ backlog > 0 => edge = TRUE
  /\ acc = "idle" /\ backlog > 0 => edge = TRUE \/ errno # "EAGAIN"

LEMMA AcceptorStepInv ==
  ASSUME AcceptorInv, ClientConnects \/ AcceptorStep
  PROVE  AcceptorInv'
<1> USE DEF AcceptorInv
<1>1. CASE ClientConnects
  <2>1. edge' = (edge \/ armed) /\ armed' = armed /\ errno' = errno /\ acc' = acc
    BY <1>1 DEF ClientConnects
  <2>2. edge' \in BOOLEAN /\ (armed = TRUE => edge' = TRUE)
    BY <2>1, Zenon
  <2>3. QED
    BY <2>1, <2>2
<1>2. CASE ListenReady
  BY <1>2 DEF ListenReady
<1>3. CASE Accept \/ GiveToLoop
  BY <1>3 DEF Accept, GiveToLoop
<1>4. CASE SetupFails \/ AcceptEnds
  BY <1>4 DEF SetupFails, AcceptEnds
<1>5. CASE HandleThisConn
  <2>1. acc = "conn" /\ acc' = "idle" /\ armed' = (armed /\ errno # "fcntl")
        /\ backlog' = backlog /\ edge' = edge /\ errno' = errno
    BY <1>5 DEF HandleThisConn
  <2>2. armed' \in BOOLEAN /\ (armed' = FALSE => errno = "fcntl")
    BY <2>1, Zenon
  <2>3. QED
    BY <2>1, <2>2
<1>6. QED
  BY <1>1, <1>2, <1>3, <1>4, <1>5 DEF AcceptorStep

(* A connection waits in the backlog without an edge to come only after    *)
(* accept has failed.                                                      *)
THEOREM BacklogNotForgotten == Spec => []NoBacklogForgotten
<1>1. Init => AcceptorInv
  <2> SUFFICES ASSUME Init PROVE AcceptorInv
    OBVIOUS
  <2>1. armed \in BOOLEAN /\ edge \in BOOLEAN /\ armed # FALSE
    BY Zenon DEF Init
  <2>2. acc # "conn" /\ ~(backlog > 0)
    <3>1. acc = "idle" /\ backlog = 0
      BY Zenon DEF Init
    <3>2. QED
      BY ONLY <3>1
  <2>3. QED
    BY <2>1, <2>2, Zenon DEF AcceptorInv
<1>2. AcceptorInv /\ [Next]_vars => AcceptorInv'
  <2> SUFFICES ASSUME AcceptorInv, [Next]_vars PROVE AcceptorInv'
    OBVIOUS
  <2>1. CASE ClientConnects \/ AcceptorStep
    BY <2>1, AcceptorStepInv
  <2>2. CASE (\E l \in Loops : LoopStep(l)) \/ UNCHANGED vars
    <3>1. UNCHANGED <<backlog, edge, armed, acc, errno>>
      BY <2>2 DEF LoopStep, NewEvent, ModFails, EpollDel, CloseFd, OpenFile,
                  CloseFile, acceptor, vars
    <3>2. QED
      BY <3>1 DEF AcceptorInv
  <2>3. QED
    BY <2>1, <2>2 DEF Next
<1>3. AcceptorInv => NoBacklogForgotten
  BY DEF AcceptorInv, NoBacklogForgotten
<1>4. QED
  BY <1>1, <1>2, <1>3, PTL DEF Spec

-----------------------------------------------------------------------------

(* Who has a descriptor.                                                   *)
OwnersShape ==
  /\ pending \in [Loops -> Seq(Fds)]
  /\ http \in [Loops -> SUBSET Fds] /\ closing \in [Loops -> SUBSET Fds]
  /\ open \subseteq Fds /\ hand \subseteq Fds
  /\ next \in Loops

(* The acceptor has one descriptor at a time.                              *)
OneInHand ==
  /\ acc # "setup" => hand = {}
  /\ \A fd, other \in hand : fd = other

OwnerInv == OwnersShape /\ OneInHand /\ DescriptorOwned

LEMMA AppendedOnce ==
  ASSUME NEW s \in Seq(Fds), NEW fd \in Fds, IsInjective(s), fd \notin ToSet(s)
  PROVE  IsInjective(Append(s, fd)) /\ ToSet(Append(s, fd)) = ToSet(s) \cup {fd}
<1> DEFINE put == Append(s, fd)
<1>1. /\ DOMAIN s = 1..Len(s) /\ DOMAIN put = 1..Len(s) + 1 /\ Len(s) \in Nat
      /\ \A i \in 1..Len(s) : put[i] = s[i]
      /\ put[Len(s) + 1] = fd
      /\ \A i \in 1..Len(s) + 1 : i = Len(s) + 1 \/ i \in 1..Len(s)
      /\ \A i \in 1..Len(s) : i \in 1..Len(s) + 1
      /\ Len(s) + 1 \in 1..Len(s) + 1
  OBVIOUS
<1> HIDE DEF put
<1>2. ToSet(put) \subseteq ToSet(s) \cup {fd}
  BY <1>1 DEF ToSet
<1>3. ToSet(s) \cup {fd} \subseteq ToSet(put)
  BY <1>1 DEF ToSet
<1>4. \A i \in 1..Len(s) : put[i] # fd
  BY <1>1 DEF ToSet
<1>5. IsInjective(put)
  BY <1>1, <1>4 DEF IsInjective
<1>6. QED
  BY <1>2, <1>3, <1>5 DEF put

LEMMA TakenOnce ==
  ASSUME NEW s \in Seq(Fds), s # <<>>, IsInjective(s)
  PROVE  /\ Head(s) \in ToSet(s) /\ Head(s) \in Fds
         /\ IsInjective(Tail(s)) /\ ToSet(Tail(s)) = ToSet(s) \ {Head(s)}
<1> DEFINE rest == Tail(s)
<1>1. /\ DOMAIN s = 1..Len(s) /\ DOMAIN rest = 1..Len(s) - 1 /\ Len(s) \in Nat \ {0}
      /\ \A i \in 1..Len(s) - 1 : rest[i] = s[i + 1] /\ i + 1 \in 1..Len(s)
      /\ \A i \in 1..Len(s) : i = 1 \/ (i - 1 \in 1..Len(s) - 1 /\ rest[i - 1] = s[i])
      /\ 1 \in 1..Len(s) /\ Head(s) = s[1] /\ s[1] \in Fds
  OBVIOUS
<1> HIDE DEF rest
<1>2. ToSet(s) \ {Head(s)} \subseteq ToSet(rest)
  <2> SUFFICES ASSUME NEW i \in 1..Len(s), s[i] # s[1] PROVE s[i] \in ToSet(rest)
    BY <1>1 DEF ToSet
  <2>1. i - 1 \in DOMAIN rest /\ rest[i - 1] = s[i]
    BY <1>1
  <2>2. QED
    BY <2>1 DEF ToSet
<1>3. ToSet(rest) \subseteq ToSet(s)
  <2> SUFFICES ASSUME NEW i \in 1..Len(s) - 1 PROVE rest[i] \in ToSet(s)
    BY <1>1 DEF ToSet
  <2>1. i + 1 \in DOMAIN s /\ rest[i] = s[i + 1]
    BY <1>1
  <2>2. QED
    BY <2>1 DEF ToSet
<1>4. \A i \in 1..Len(s) - 1 : rest[i] # s[1]
  BY <1>1 DEF IsInjective
<1>5. Head(s) \notin ToSet(rest)
  BY <1>1, <1>4 DEF ToSet
<1>6. IsInjective(rest)
  BY <1>1 DEF IsInjective
<1>7. Head(s) \in ToSet(s)
  BY <1>1 DEF ToSet
<1>8. QED
  BY <1>1, <1>2, <1>3, <1>5, <1>6, <1>7 DEF rest

LEMMA OwnerInitial == Init => OwnerInv
<1> SUFFICES ASSUME Init PROVE OwnerInv
  OBVIOUS
<1>1. ToSet(<<>>) = {} /\ IsInjective(<<>>)
  BY DEF ToSet, IsInjective
<1>2. OwnersShape /\ OneInHand
  BY NumbersAssumption DEF Init, OwnersShape, OneInHand, Loops, NumbersAssumption
<1>3. \A l \in Loops : OfLoop(l) = {} /\ Waiting(l) = {} /\ IsInjective(pending[l])
  BY <1>1 DEF Init, OfLoop, Waiting
<1>4. QED
  BY <1>2, <1>3 DEF Init, OwnerInv, DescriptorOwned

(* A descriptor in nobody's hand is given to the acceptor, and what the    *)
(* loops have stays.                                                       *)
LEMMA AcceptOwner == OwnerInv /\ Accept => OwnerInv'
<1> SUFFICES ASSUME OwnerInv, Accept PROVE OwnerInv'
  OBVIOUS
<1> USE DEF OwnerInv, OwnersShape, OneInHand
<1>1. PICK fd \in Lowest :
        IF fd >= Limit
        THEN UNCHANGED <<acc, hand, open, file>>
        ELSE /\ hand' = {fd} /\ open' = open \cup {fd} /\ acc' = "setup"
  BY DEF Accept
<1>2. fd \in Fds /\ fd \notin open
  BY DEF Lowest, Free
<1>3. UNCHANGED <<next, lost, pending, http, closing>> /\ acc = "accept"
  BY DEF Accept, tables
<1>4. \A l \in Loops : UNCHANGED <<Waiting(l), OfLoop(l)>>
  BY <1>3 DEF Waiting, OfLoop
<1>5. CASE fd >= Limit
  BY <1>1, <1>3, <1>4, <1>5 DEF DescriptorOwned
<1>6. CASE ~(fd >= Limit)
  <2>1. hand = {} /\ hand' = {fd} /\ open' = open \cup {fd} /\ acc' = "setup"
    BY <1>1, <1>3, <1>6
  <2>2. OwnersShape' /\ OneInHand'
    BY <1>2, <1>3, <2>1
  <2>3. fd \notin lost /\ \A l \in Loops : fd \notin OfLoop(l)
    BY <1>2 DEF DescriptorOwned
  <2>4. DescriptorOwned'
    BY <1>3, <1>4, <2>1, <2>3 DEF DescriptorOwned
  <2>5. QED
    BY <2>2, <2>4
<1>7. QED
  BY <1>5, <1>6

(* A step after which only loop k's places are others: it got come out of  *)
(* the acceptor's hand and gave gone away.                                 *)
LEMMA MoveOwner ==
  ASSUME OwnerInv, NEW k \in Loops, NEW come, NEW gone,
         OwnersShape', OneInHand', UNCHANGED lost,
         come \subseteq hand, hand' = hand \ come, gone \subseteq OfLoop(k),
         open' = open \ gone,
         ToSet(pending'[k]) \cup http'[k] \cup closing'[k] = (OfLoop(k) \cup come) \ gone,
         IsInjective(pending'[k]),
         ToSet(pending'[k]) \cap http'[k] = {},
         (ToSet(pending'[k]) \cup http'[k]) \cap closing'[k] = {},
         \A m \in Loops \ {k} : UNCHANGED <<pending[m], http[m], closing[m]>>
  PROVE  OwnerInv'
<1> DEFINE own == [l \in Loops |-> OfLoop(l)]
           new == [l \in Loops |-> ToSet(pending'[l]) \cup http'[l] \cup closing'[l]]
           held == hand \cup lost
<1>1. /\ open = held \cup UNION {own[l] : l \in Loops} /\ hand \cap lost = {}
      /\ \A l \in Loops : held \cap own[l] = {}
      /\ \A l \in Loops : \A m \in Loops \ {l} : own[l] \cap own[m] = {}
  <2>1. \A l \in Loops : own[l] = OfLoop(l)
    OBVIOUS
  <2>2. UNION {own[l] : l \in Loops} = UNION {OfLoop(l) : l \in Loops}
    BY <2>1
  <2> HIDE DEF own
  <2>3. QED
    BY <2>1, <2>2 DEF OwnerInv, DescriptorOwned
<1>2. new[k] = (own[k] \cup come) \ gone /\ gone \subseteq own[k]
  OBVIOUS
<1>3. \A l \in Loops \ {k} : new[l] = own[l]
  BY DEF OfLoop, Waiting
<1>4. come \subseteq held /\ held \ come = hand' \cup lost'
  BY <1>1
<1>5. /\ open' = hand' \cup lost' \cup UNION {new[l] : l \in Loops}
      /\ \A l \in Loops : (hand' \cup lost') \cap new[l] = {}
      /\ \A l \in Loops : \A m \in Loops \ {l} : new[l] \cap new[m] = {}
  <2> HIDE DEF own, new, held
  <2> USE <1>1, <1>2, <1>3, <1>4
  <2>1. open \ gone \subseteq (held \ come) \cup UNION {new[l] : l \in Loops}
    <3> SUFFICES ASSUME NEW x \in open, x \notin gone, x \notin held \ come
                  PROVE  \E l \in Loops : x \in new[l]
      OBVIOUS
    <3>1. CASE x \in come
      BY <3>1
    <3>2. CASE x \notin come
      <4>1. PICK l \in Loops : x \in own[l]
        BY <3>2
      <4>2. CASE l = k
        BY <4>1, <4>2
      <4>3. CASE l # k
        BY <4>1, <4>3
      <4>4. QED
        BY <4>2, <4>3
    <3>3. QED
      BY <3>1, <3>2
  <2>2. (held \ come) \cup UNION {new[l] : l \in Loops} \subseteq open \ gone
    <3>1. held \subseteq open \ gone
      OBVIOUS
    <3>2. ASSUME NEW l \in Loops PROVE new[l] \subseteq open \ gone
      <4>1. own[l] \subseteq open
        OBVIOUS
      <4>2. CASE l = k
        BY <3>1, <4>1, <4>2
      <4>3. CASE l # k
        <5>1. new[l] = own[l] /\ own[l] \cap own[k] = {}
          BY <4>3
        <5>2. QED
          BY <4>1, <5>1
      <4>4. QED
        BY <4>2, <4>3
    <3>3. QED
      BY <3>1, <3>2
  <2>3. ASSUME NEW l \in Loops PROVE (held \ come) \cap new[l] = {}
    BY l = k \/ l # k
  <2>4. ASSUME NEW l \in Loops, NEW m \in Loops \ {l} PROVE new[l] \cap new[m] = {}
    <3>1. CASE l # k /\ m # k
      BY <3>1
    <3>2. CASE l = k
      BY <3>2
    <3>3. CASE m = k
      BY <3>3
    <3>4. QED
      BY <3>1, <3>2, <3>3
  <2>5. open \ gone = open' /\ held \ come = hand' \cup lost'
    OBVIOUS
  <2>6. QED
    BY <2>1, <2>2, <2>3, <2>4, <2>5
<1>6. ASSUME NEW l \in Loops
      PROVE  /\ IsInjective(pending'[l])
             /\ ToSet(pending'[l]) \cap http'[l] = {}
             /\ (ToSet(pending'[l]) \cup http'[l]) \cap closing'[l] = {}
  <2>1. CASE l = k
    BY <2>1
  <2>2. CASE l # k
    BY <2>2 DEF OwnerInv, DescriptorOwned, Waiting
  <2>3. QED
    BY <2>1, <2>2
<1>7. hand' \cap lost' = {}
  BY <1>1
<1>8. DescriptorOwned'
  <2>1. \A l \in Loops : new[l] = ToSet(pending'[l]) \cup http'[l] \cup closing'[l]
    OBVIOUS
  <2>2. UNION {new[l] : l \in Loops}
          = UNION {ToSet(pending'[l]) \cup http'[l] \cup closing'[l] : l \in Loops}
    BY <2>1
  <2> HIDE DEF new
  <2>3. open' = hand' \cup lost' \cup UNION {OfLoop(l) : l \in Loops}'
    BY <1>5, <2>2 DEF OfLoop, Waiting
  <2>4. \A l \in Loops :
          /\ IsInjective(pending'[l])
          /\ (hand' \cup lost') \cap (ToSet(pending'[l]) \cup http'[l] \cup closing'[l]) = {}
          /\ ToSet(pending'[l]) \cap http'[l] = {}
          /\ (ToSet(pending'[l]) \cup http'[l]) \cap closing'[l] = {}
          /\ \A m \in Loops \ {l} :
               (ToSet(pending'[l]) \cup http'[l] \cup closing'[l])
                 \cap (ToSet(pending'[m]) \cup http'[m] \cup closing'[m]) = {}
    BY <1>5, <1>6, <2>1
  <2>5. QED
    BY <1>7, <2>3, <2>4 DEF DescriptorOwned, OfLoop, Waiting
<1>9. QED
  BY <1>8 DEF OwnerInv

LEMMA GiveToLoopOwner == OwnerInv /\ GiveToLoop => OwnerInv'
<1> SUFFICES ASSUME OwnerInv, GiveToLoop PROVE OwnerInv'
  OBVIOUS
<1>1. PICK fd \in hand : pending' = [pending EXCEPT ![next] = Append(@, fd)]
  BY DEF GiveToLoop
<1>2. /\ hand = {fd} /\ hand' = {} /\ fd \in Fds /\ acc' = "accept"
      /\ UNCHANGED <<open, lost, http, closing>> /\ next \in Loops
  BY <1>1 DEF GiveToLoop, OwnerInv, OwnersShape, OneInHand
<1>3. /\ pending[next] \in Seq(Fds) /\ IsInjective(pending[next])
      /\ Waiting(next) \cap http[next] = {}
      /\ (Waiting(next) \cup http[next]) \cap closing[next] = {}
      /\ fd \notin OfLoop(next)
  BY <1>1, <1>2 DEF OwnerInv, OwnersShape, DescriptorOwned
<1>4. /\ IsInjective(Append(pending[next], fd))
      /\ ToSet(Append(pending[next], fd)) = Waiting(next) \cup {fd}
      /\ Append(pending[next], fd) \in Seq(Fds)
  BY <1>2, <1>3, AppendedOnce DEF Waiting, OfLoop
<1>5. /\ pending'[next] = Append(pending[next], fd)
      /\ \A l \in Loops \ {next} : pending'[l] = pending[l]
      /\ pending' \in [Loops -> Seq(Fds)]
  BY <1>1, <1>2, <1>4 DEF OwnerInv, OwnersShape
<1>6. next' \in Loops
  BY <1>2, NumbersAssumption DEF GiveToLoop, Loops, NumbersAssumption
<1>7. OwnersShape' /\ OneInHand'
  BY <1>2, <1>5, <1>6 DEF OwnerInv, OwnersShape, OneInHand
<1>8. /\ ToSet(pending'[next]) \cup http'[next] \cup closing'[next]
           = (OfLoop(next) \cup {fd}) \ {}
      /\ IsInjective(pending'[next])
      /\ ToSet(pending'[next]) \cap http'[next] = {}
      /\ (ToSet(pending'[next]) \cup http'[next]) \cap closing'[next] = {}
  BY <1>2, <1>3, <1>4, <1>5 DEF OfLoop
<1>9. /\ {fd} \subseteq hand /\ hand' = hand \ {fd} /\ {} \subseteq OfLoop(next)
      /\ open' = open \ {}
  BY <1>2
<1>10. \A m \in Loops \ {next} : UNCHANGED <<pending[m], http[m], closing[m]>>
  BY <1>2, <1>5
<1>11. QED
  BY <1>2, <1>7, <1>8, <1>9, <1>10, MoveOwner

LEMMA LoopOwner ==
  ASSUME OwnerInv, NEW l \in Loops, LoopStep(l)
  PROVE  OwnerInv'
<1>0. UNCHANGED <<hand, lost, next, acc>>
  BY DEF LoopStep, NewEvent, ModFails, EpollDel, CloseFd, OpenFile, CloseFile, acceptor
<1>a. /\ IsInjective(pending[l]) /\ Waiting(l) \cap http[l] = {}
      /\ (Waiting(l) \cup http[l]) \cap closing[l] = {} /\ pending[l] \in Seq(Fds)
  BY DEF OwnerInv, OwnersShape, DescriptorOwned
<1>b. OneInHand' /\ {} \subseteq hand /\ hand' = hand \ {} /\ {} \subseteq OfLoop(l)
  BY <1>0 DEF OwnerInv, OneInHand
<1>1. CASE NewEvent(l)
  <2> DEFINE fd == Head(pending[l])
  <2>1. /\ http' = [http EXCEPT ![l] = @ \cup {fd}] /\ pending[l] # <<>>
        /\ pending' = [pending EXCEPT ![l] = Tail(@)] /\ UNCHANGED <<open, closing>>
    BY <1>1 DEF NewEvent
  <2>2. /\ fd \in Waiting(l) /\ fd \in Fds /\ IsInjective(Tail(pending[l]))
        /\ ToSet(Tail(pending[l])) = Waiting(l) \ {fd} /\ Tail(pending[l]) \in Seq(Fds)
    BY <1>a, <2>1, TakenOnce DEF Waiting
  <2> HIDE DEF fd
  <2>3. http'[l] = http[l] \cup {fd} /\ pending'[l] = Tail(pending[l]) /\ closing'[l] = closing[l]
    BY <2>1 DEF OwnerInv, OwnersShape
  <2>4. /\ ToSet(pending'[l]) \cup http'[l] \cup closing'[l] = (OfLoop(l) \cup {}) \ {}
        /\ open' = open \ {}
    BY <2>1, <2>2, <2>3 DEF OfLoop
  <2>5. OwnersShape'
    BY <1>0, <2>1, <2>2 DEF OwnerInv, OwnersShape
  <2>6. \A m \in Loops \ {l} : UNCHANGED <<pending[m], http[m], closing[m]>>
    BY <2>1 DEF OwnerInv, OwnersShape
  <2>7. /\ IsInjective(pending'[l]) /\ ToSet(pending'[l]) \cap http'[l] = {}
        /\ (ToSet(pending'[l]) \cup http'[l]) \cap closing'[l] = {}
    BY <1>a, <2>2, <2>3
  <2>8. QED
    BY <1>0, <1>b, <2>4, <2>5, <2>6, <2>7, MoveOwner
<1>2. CASE \E fd \in Fds : EpollDel(l, fd)
  <2>1. PICK fd \in Fds : EpollDel(l, fd)
    BY <1>2
  <2>2. /\ http' = [http EXCEPT ![l] = @ \ {fd}] /\ fd \in http[l]
        /\ closing' = [closing EXCEPT ![l] = @ \cup {fd}] /\ UNCHANGED <<open, pending>>
    BY <2>1 DEF EpollDel
  <2>3. /\ http'[l] = http[l] \ {fd} /\ closing'[l] = closing[l] \cup {fd}
        /\ ToSet(pending'[l]) = Waiting(l)
    BY <2>2 DEF Waiting, OwnerInv, OwnersShape
  <2>4. /\ ToSet(pending'[l]) \cup http'[l] \cup closing'[l] = (OfLoop(l) \cup {}) \ {}
        /\ open' = open \ {}
    BY <2>2, <2>3 DEF OfLoop
  <2>5. OwnersShape'
    BY <1>0, <2>2 DEF OwnerInv, OwnersShape
  <2>6. \A m \in Loops \ {l} : UNCHANGED <<pending[m], http[m], closing[m]>>
    BY <2>2 DEF OwnerInv, OwnersShape
  <2>7. /\ IsInjective(pending'[l]) /\ ToSet(pending'[l]) \cap http'[l] = {}
        /\ (ToSet(pending'[l]) \cup http'[l]) \cap closing'[l] = {}
    BY <1>a, <2>2, <2>3
  <2>8. QED
    BY <1>0, <1>b, <2>4, <2>5, <2>6, <2>7, MoveOwner
<1>3. CASE \E fd \in Fds : CloseFd(l, fd)
  <2>1. PICK fd \in Fds : CloseFd(l, fd)
    BY <1>3
  <2>2. /\ closing' = [closing EXCEPT ![l] = @ \ {fd}] /\ fd \in closing[l]
        /\ open' = open \ {fd} /\ UNCHANGED <<pending, http>>
    BY <2>1 DEF CloseFd
  <2>3. closing'[l] = closing[l] \ {fd} /\ ToSet(pending'[l]) = Waiting(l) /\ http'[l] = http[l]
    BY <2>2 DEF Waiting, OwnerInv, OwnersShape
  <2>4. /\ {fd} \subseteq OfLoop(l)
        /\ ToSet(pending'[l]) \cup http'[l] \cup closing'[l] = (OfLoop(l) \cup {}) \ {fd}
    BY <1>a, <2>2, <2>3 DEF OfLoop
  <2>5. OwnersShape'
    BY <1>0, <2>2 DEF OwnerInv, OwnersShape
  <2>6. \A m \in Loops \ {l} : UNCHANGED <<pending[m], http[m], closing[m]>>
    BY <2>2 DEF OwnerInv, OwnersShape
  <2>7. /\ IsInjective(pending'[l]) /\ ToSet(pending'[l]) \cap http'[l] = {}
        /\ (ToSet(pending'[l]) \cup http'[l]) \cap closing'[l] = {}
    BY <1>a, <2>2, <2>3
  <2>8. QED
    BY <1>0, <1>b, <2>2, <2>4, <2>5, <2>6, <2>7, MoveOwner
<1>4. CASE CloseFile(l) \/ OpenFile(l) \/ \E fd \in Fds : ModFails(l, fd)
  <2>1. UNCHANGED <<open, pending, http, closing>>
    BY <1>4 DEF CloseFile, OpenFile, ModFails, tables
  <2>2. \A m \in Loops : UNCHANGED <<Waiting(m), OfLoop(m)>>
    BY <2>1 DEF Waiting, OfLoop
  <2>3. QED
    BY <1>0, <2>1, <2>2 DEF OwnerInv, OwnersShape, OneInHand, DescriptorOwned
<1>5. QED
  BY <1>1, <1>2, <1>3, <1>4 DEF LoopStep

(* DescriptorOwned: an open descriptor is in one place, and nothing refers *)
(* to a closed one, although accept reuses its number at once, for any     *)
(* loop (tcpserver.cc:35-56, epoll.cc:15-58, httpdata.h:65).               *)
THEOREM DescriptorAlwaysOwned == Spec => []DescriptorOwned
<1>1. OwnerInv /\ [Next]_vars => OwnerInv'
  <2> SUFFICES ASSUME OwnerInv, [Next]_vars PROVE OwnerInv'
    OBVIOUS
  <2>1. CASE ClientConnects \/ ListenReady \/ AcceptEnds \/ HandleThisConn \/ UNCHANGED vars
    <3>1. /\ UNCHANGED <<open, hand, lost, next, pending, http, closing>>
          /\ acc = "setup" \/ acc' # "setup"
      BY <2>1 DEF ClientConnects, ListenReady, AcceptEnds, HandleThisConn, vars, acceptor, tables,
                  OwnerInv, OneInHand
    <3>2. acc = "setup" => acc' = "setup" \/ hand = {}
      BY <2>1 DEF ClientConnects, ListenReady, AcceptEnds, HandleThisConn, vars, acceptor
    <3>3. \A m \in Loops : UNCHANGED <<Waiting(m), OfLoop(m)>>
      BY <3>1 DEF Waiting, OfLoop
    <3>4. QED
      BY <3>1, <3>2, <3>3 DEF OwnerInv, OwnersShape, OneInHand, DescriptorOwned
  <2>2. CASE Accept
    BY <2>2, AcceptOwner
  <2>3. CASE GiveToLoop
    BY <2>3, GiveToLoopOwner
  <2>4. CASE SetupFails
    <3>1. /\ UNCHANGED <<open, next, pending, http, closing>> /\ acc' = "conn"
          /\ lost' = lost \cup hand /\ hand' = {}
      BY <2>4 DEF SetupFails, tables
    <3>2. \A m \in Loops : UNCHANGED <<Waiting(m), OfLoop(m)>>
      BY <3>1 DEF Waiting, OfLoop
    <3>3. QED
      BY <3>1, <3>2 DEF OwnerInv, OwnersShape, OneInHand, DescriptorOwned
  <2>5. CASE \E l \in Loops : LoopStep(l)
    BY <2>5, LoopOwner
  <2>6. QED
    BY <2>1, <2>2, <2>3, <2>4, <2>5 DEF Next, AcceptorStep
<1>2. OwnerInv => DescriptorOwned
  BY DEF OwnerInv
<1>3. QED
  BY OwnerInitial, <1>1, <1>2, PTL DEF Spec

=============================================================================
