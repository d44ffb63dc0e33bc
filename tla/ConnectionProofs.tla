--------------------------- MODULE ConnectionProofs ---------------------------
(***************************************************************************)
(* Proofs about Connection, for any connections, request lines and sizes:  *)
(* callbacks run on live objects, a connection that waits has a timer, and *)
(* neither input nor room for output is forgotten by the edge-triggered    *)
(* epoll instance.  And about Parser, for any requests: what a connection  *)
(* reads is what was sent.                                                 *)
(***************************************************************************)
EXTENDS Connection, Parser, SequenceTheorems, WellFoundedInduction, TLAPS

EventSet == {"IN", "OUT", "ERR", "HUP"}
Callbacks == {"read", "parse", "error", "flush", "write", "conn"}

Places == Callbacks \cup {"poll", "handle", "functors", "expire", "killed"}

HttpData ==
  [obj : {"none", "queued", "open"}, in : Seq(Pieces), out : Nat,
   conn : {"connected", "disconnecting"}, err : BOOLEAN,
   st : Requests \cup {"uri", "body", "finish"}, split : BOOLEAN,
   ev : SUBSET {"IN", "OUT", "ONESHOT"}, last : SUBSET {"IN", "OUT", "ONESHOT"},
   chan : BOOLEAN, timer : {"none", "running", "due"}]

Socket ==
  [rcv : Seq(Pieces), fin : BOOLEAN, rst : {"no", "err", "dead"}, free : Nat,
   armed : BOOLEAN, ready : BOOLEAN]

TypeOK ==
  /\ pc \in Places
  /\ cur \in Conns /\ batch \subseteq Conns
  /\ rev \in [Conns -> SUBSET EventSet]
  /\ http \in [Conns -> HttpData]
  /\ sock \in [Conns -> Socket]

-----------------------------------------------------------------------------
(* The invariant, for one connection: h is its HttpData, s its socket, r   *)
(* its events still to be handled and p the phase of their handling.       *)

(* What registration leaves in lastevents_.                                *)
Masks == {{"IN", "ONESHOT"}, {"IN"}, {"OUT"}}

(* Only an HttpData that newEvent has entered has been worked on, and only *)
(* a channel that is set is reported, for what it was registered for.      *)
Registered(h, r) ==
  /\ h.obj # "open" => h = [NoHttp EXCEPT !.obj = h.obj]
  /\ h.chan => h.last \in Masks
  /\ r # {} => h.chan /\ r \subseteq h.last \cup {"ERR", "HUP"}

(* Which callback runs on what.                                            *)
Phased(h, s, r, p) ==
  /\ p # "idle" => r # {} /\ h.ev \subseteq {"OUT"}
  /\ p \in {"read", "parse", "error", "flush"} => "IN" \in r
  /\ p = "error" => h.err
  /\ p = "write" /\ "IN" \notin r => h.ev = {}
  /\ p = "conn" => h.err \/ h.out = 0 \/ "OUT" \in h.ev
  /\ "ERR" \in r \/ "HUP" \in r => s.rst # "no"

Timed(h, p) ==
  h.obj = "open" /\ p = "idle" /\ h.timer = "none" => h.conn = "disconnecting"

(* The epoll item is armed, but for a one-shot event being handled.        *)
KeptArmed(h, s, r) ==
  h.chan /\ ("ONESHOT" \notin h.last
             \/ (r = {} /\ h.conn = "connected" /\ s.rst = "no")) => s.armed

Served(h, s) == h.chan /\ h.conn = "connected" /\ s.rst = "no" /\ s.armed

(* Input there is has been put on the ready list, or will be read.         *)
InputDue(h, s, r, p) ==
  Served(h, s) /\ "IN" \in h.last /\ (s.rcv # <<>> \/ s.fin)
  => s.ready \/ ("IN" \in r /\ p \in {"idle", "read"})

(* So has room there is, or it will be written to, or no longer asked for. *)
OutputDue(h, s, r, p) ==
  Served(h, s) /\ "OUT" \in h.last /\ s.free > 0
  => \/ s.ready
     \/ "OUT" \in r /\ p \in {"idle", "write"}
     \/ p = "conn" /\ "OUT" \notin h.ev

(* Room is asked for if there is output.                                   *)
OutputAsked(h, s, p) ==
  h.chan /\ h.conn = "connected" /\ s.rst = "no" /\ p = "idle" /\ h.out > 0
  => "OUT" \in h.last

Sound(h, s, r, p) ==
  /\ Registered(h, r) /\ Phased(h, s, r, p) /\ Timed(h, p) /\ KeptArmed(h, s, r)
  /\ InputDue(h, s, r, p) /\ OutputDue(h, s, r, p) /\ OutputAsked(h, s, p)

(* The phase of a connection c, when k is current and the thread at q: the *)
(* callback of it that runs.                                               *)
PhaseOf(c, k, q) == IF c = k /\ q \in Callbacks \cup {"killed"} THEN q ELSE "idle"
Phase(c) == PhaseOf(c, cur, pc)

(* What the thread has to do in its turn.                                  *)
Turn ==
  /\ pc \in {"poll", "functors", "expire"} => \A c \in Conns : rev[c] = {}
  /\ \A c \in batch : http[c].obj = "queued"
  /\ pc # "functors" => batch = {}

SoundAll == \A c \in Conns : Sound(http[c], sock[c], rev[c], Phase(c))

ConnInv == TypeOK /\ Turn /\ SoundAll

-----------------------------------------------------------------------------
(* Types.                                                                  *)

LEMMA NoneTyped == NoHttp \in HttpData /\ NewSock \in Socket
  BY SizesAssumption DEF NoHttp, HttpData, NewSock, Socket, Requests, LineKinds

LEMMA PiecesTyped ==
  ASSUME NEW s \in Seq(Pieces), NEW t \in Seq(Pieces), NEW p \in Pieces
  PROVE  /\ s \o t \in Seq(Pieces) /\ Append(s, p) \in Seq(Pieces) /\ <<>> \in Seq(Pieces)
         /\ Append(s, p) # <<>>
         /\ s # <<>> => /\ Tail(s) \in Seq(Pieces) /\ Head(s) \in Pieces
                        /\ SubSeq(s, 3, Len(s)) \in Seq(Pieces)
  OBVIOUS

LEMMA TakenTyped ==
  ASSUME TypeOK, NEW c \in Conns
  PROVE  /\ Taken(c) \in Nat /\ Taken(c) <= http[c].out /\ Taken(c) <= sock[c].free
         /\ Wrote(c) \in HttpData /\ WroteSock(c) \in Socket
  <1>1. http[c] \in HttpData /\ sock[c] \in Socket
    BY DEF TypeOK
  <1>2. http[c].out \in Nat /\ sock[c].free \in Nat
    BY <1>1 DEF HttpData, Socket
  <1>3. Taken(c) \in Nat /\ Taken(c) <= http[c].out /\ Taken(c) <= sock[c].free
    BY <1>2 DEF Taken
  <1>4. http[c].out - Taken(c) \in Nat /\ sock[c].free - Taken(c) \in Nat
    BY <1>2, <1>3
  <1> HIDE DEF Taken
  <1>5. Wrote(c) \in HttpData
    BY <1>1, <1>4 DEF Wrote, HttpData
  <1>6. WroteSock(c) \in Socket
    BY <1>1, <1>4 DEF WroteSock, Socket
  <1> QED
    BY <1>3, <1>5, <1>6

LEMMA ArmedTyped == \A mask : \A s \in Socket : Armed(s, mask) \in Socket
  BY DEF Armed, Socket


(* Steps that concern one connection.                                      *)

LEMMA EnvironmentStep ==
  ASSUME ConnInv, NEW c \in Conns, UNCHANGED <<pc, cur, rev, batch>>,
         http' = [http EXCEPT ![c] = http'[c]], http'[c] \in HttpData,
         sock' = [sock EXCEPT ![c] = sock'[c]], sock'[c] \in Socket,
         http[c].obj \in {http'[c].obj, "none"},
         Sound(http'[c], sock'[c], rev[c], Phase(c))
  PROVE  ConnInv'
  <1>1. TypeOK'
    BY DEF ConnInv, TypeOK
  <1>2. Turn'
    BY DEF ConnInv, TypeOK, Turn
  <1>3. ASSUME NEW d \in Conns
        PROVE  Sound(http'[d], sock'[d], rev'[d], PhaseOf(d, cur', pc'))
    <2>1. CASE d = c
      BY <2>1 DEF Phase
    <2>2. CASE d # c
      <3>1. http'[d] = http[d] /\ sock'[d] = sock[d]
        BY <2>2 DEF ConnInv, TypeOK
      <3> QED
        BY <3>1 DEF ConnInv, SoundAll, Phase
    <2> QED
      BY <2>1, <2>2
  <1> QED
    BY <1>1, <1>2, <1>3 DEF ConnInv, SoundAll, Phase

LEMMA CallbackStep ==
  ASSUME ConnInv, pc \in Callbacks, pc' \in Callbacks \cup {"handle", "killed"},
         UNCHANGED <<cur, batch>>,
         http' = [http EXCEPT ![cur] = http'[cur]], http'[cur] \in HttpData,
         sock' = [sock EXCEPT ![cur] = sock'[cur]], sock'[cur] \in Socket,
         rev' = [rev EXCEPT ![cur] = rev'[cur]], rev'[cur] \subseteq EventSet,
         Sound(http'[cur], sock'[cur], rev'[cur], IF pc' = "handle" THEN "idle" ELSE pc')
  PROVE  ConnInv'
  <1>1. TypeOK'
    BY DEF ConnInv, TypeOK, Places
  <1>2. Turn'
    BY DEF ConnInv, Turn, Callbacks
  <1>3. ASSUME NEW d \in Conns
        PROVE  Sound(http'[d], sock'[d], rev'[d], PhaseOf(d, cur', pc'))
    <2>1. CASE d = cur
      BY <2>1 DEF PhaseOf, Callbacks
    <2>2. CASE d # cur
      <3>1. http'[d] = http[d] /\ sock'[d] = sock[d] /\ rev'[d] = rev[d]
        BY <2>2 DEF ConnInv, TypeOK
      <3>2. PhaseOf(d, cur', pc') = Phase(d)
        BY <2>2 DEF PhaseOf, Phase
      <3> QED
        BY <3>1, <3>2 DEF ConnInv, SoundAll
    <2> QED
      BY <2>1, <2>2
  <1> QED
    BY <1>1, <1>2, <1>3 DEF ConnInv, SoundAll, Phase

-----------------------------------------------------------------------------
(* Peers, clock and acceptor.                                              *)

LEMMA InitialSound == Init => ConnInv
  <1> SUFFICES ASSUME Init PROVE ConnInv
    OBVIOUS
  <1>1. TypeOK
    BY NoneTyped DEF Init, TypeOK, Places
  <1>2. Turn
    BY DEF Init, Turn
  <1>3. SoundAll
    BY DEF Init, SoundAll, NoHttp, Sound, Registered, Phased, Timed, KeptArmed, Served,
           InputDue, OutputDue, OutputAsked, Phase, PhaseOf, Callbacks
  <1> QED
    BY <1>1, <1>2, <1>3 DEF ConnInv

LEMMA SocketSteps ==
  ASSUME ConnInv, NEW c \in Conns, NEW p \in Pieces,
         PeerSends(c, p) \/ PeerFinishes(c) \/ PeerResets(c) \/ PeerDrains(c)
  PROVE  ConnInv'
  <1> DEFINE h == http[c]
             s == sock[c]
             s2 == sock'[c]
  <1>1. /\ h \in HttpData /\ s \in Socket /\ rev[c] \subseteq EventSet
        /\ Sound(h, s, rev[c], Phase(c))
    BY DEF ConnInv, TypeOK, SoundAll
  <1>2. UNCHANGED <<pc, cur, rev, batch, http>> /\ s.rst = "no"
    BY DEF PeerSends, PeerFinishes, PeerResets, PeerDrains, Peer
  <1>3. sock' = [sock EXCEPT ![c] = s2]
    BY DEF PeerSends, PeerFinishes, PeerResets, PeerDrains, ConnInv, TypeOK
  <1>4. \/ /\ s2 = [s EXCEPT !.rcv = Append(@, p), !.ready = Edge(c, "IN")]
        \/ s2 = Woken(c, [s EXCEPT !.fin = TRUE])
        \/ s2 = Woken(c, [s EXCEPT !.rst = "err"])
        \/ s2 = [s EXCEPT !.free = @ + 1, !.ready = Edge(c, "OUT")]
    BY DEF PeerSends, PeerFinishes, PeerResets, PeerDrains, ConnInv, TypeOK
  <1>5. Append(s.rcv, p) \in Seq(Pieces)
    BY <1>1, PiecesTyped DEF Socket
  <1>6. s2 \in Socket
    <2>1. \A e : Edge(c, e) \in BOOLEAN
      BY <1>1 DEF Edge, Socket
    <2>2. \A t \in Socket : Woken(c, t) \in Socket
      BY DEF Woken, Socket
    <2>3. /\ [s EXCEPT !.rcv = Append(@, p), !.ready = Edge(c, "IN")] \in Socket
          /\ [s EXCEPT !.fin = TRUE] \in Socket /\ [s EXCEPT !.rst = "err"] \in Socket
          /\ [s EXCEPT !.free = @ + 1, !.ready = Edge(c, "OUT")] \in Socket
      <3>1. \A b \in BOOLEAN, q \in Seq(Pieces), n \in Nat :
              /\ [s EXCEPT !.rcv = q, !.ready = b] \in Socket
              /\ [s EXCEPT !.free = n, !.ready = b] \in Socket
        BY <1>1 DEF Socket
      <3>2. [s EXCEPT !.fin = TRUE] \in Socket /\ [s EXCEPT !.rst = "err"] \in Socket
        BY <1>1 DEF Socket
      <3>3. s.free + 1 \in Nat
        BY <1>1 DEF Socket
      <3> QED
        BY <1>5, <2>1, <3>1, <3>2, <3>3
    <2> QED
      BY <1>4, <2>2, <2>3
  <1>7. Sound(h, s2, rev[c], Phase(c))
    <2> HIDE DEF h, s2
    <2>1. Registered(h, rev[c]) /\ Timed(h, Phase(c))
      BY <1>1 DEF Sound
    <2>2. s2.armed = s.armed
      BY <1>1, <1>4 DEF Woken, Socket
    <2>3. Phased(h, s2, rev[c], Phase(c)) /\ KeptArmed(h, s2, rev[c]) /\ OutputAsked(h, s2, Phase(c))
      BY <1>1, <1>2, <1>4, <2>2 DEF Sound, Phased, KeptArmed, OutputAsked, Woken, Socket
    <2>4. InputDue(h, s2, rev[c], Phase(c))
      BY <1>1, <1>2, <1>4, <1>5, <2>2 DEF Sound, InputDue, Served, Woken, Edge, ReportedOf, Events, Socket, h
    <2>5. OutputDue(h, s2, rev[c], Phase(c))
      BY <1>1, <1>2, <1>4, <2>2 DEF Sound, OutputDue, Served, Woken, Edge, ReportedOf, Events, Socket, h
    <2> QED
      BY <2>1, <2>3, <2>4, <2>5 DEF Sound
  <1> QED
    BY <1>1, <1>2, <1>3, <1>6, <1>7, EnvironmentStep DEF ConnInv, TypeOK

LEMMA DataSteps ==
  ASSUME ConnInv, NEW c \in Conns, TimerDue(c) \/ Accept(c)
  PROVE  ConnInv'
  <1> DEFINE h == http[c]
             h2 == http'[c]
  <1>1. h \in HttpData /\ sock[c] \in Socket /\ Sound(h, sock[c], rev[c], Phase(c))
    BY DEF ConnInv, TypeOK, SoundAll
  <1>2. UNCHANGED <<pc, cur, rev, batch, sock>>
    BY DEF TimerDue, Accept
  <1>3. http' = [http EXCEPT ![c] = h2]
    BY DEF TimerDue, Accept, ConnInv, TypeOK
  <1>4. \/ h.timer = "running" /\ h2 = [h EXCEPT !.timer = "due"]
        \/ h.obj = "none" /\ h2 = [h EXCEPT !.obj = "queued"]
    BY DEF TimerDue, Accept, ConnInv, TypeOK
  <1>5. h2 \in HttpData /\ h.obj \in {h2.obj, "none"}
    BY <1>1, <1>4 DEF HttpData
  <1>6. Sound(h2, sock[c], rev[c], Phase(c))
    <2> HIDE DEF h, h2
    <2>1. CASE h.timer = "running" /\ h2 = [h EXCEPT !.timer = "due"]
      BY <1>1, <2>1 DEF Sound, Registered, NoHttp, Phased, Timed, KeptArmed, Served,
         InputDue, OutputDue, OutputAsked, HttpData
    <2>2. CASE h.obj = "none" /\ h2 = [h EXCEPT !.obj = "queued"]
      BY <1>1, <2>2 DEF Sound, Registered, NoHttp, Phased, Timed, KeptArmed, Served,
         InputDue, OutputDue, OutputAsked, HttpData
    <2> QED
      BY <1>4, <2>1, <2>2
  <1> QED
    BY <1>1, <1>2, <1>3, <1>5, <1>6, EnvironmentStep DEF ConnInv, TypeOK

-----------------------------------------------------------------------------
(* The loop's own steps.                                                   *)

(* What is due for a connection that is not being handled is on the ready  *)
(* list: a connection that epoll_wait does not report has nothing due.     *)
LEMMA PollSound ==
  ASSUME ConnInv, PollReturns
  PROVE  ConnInv'
  <1>1. pc = "poll" /\ pc' = "handle" /\ UNCHANGED <<cur, batch, http>>
        /\ \A c \in Conns : rev[c] = {}
    BY DEF PollReturns, ConnInv, Turn
  <1>2. \A c \in Conns : Reported(c) \subseteq EventSet
    BY DEF Reported, ReportedOf, Events, EventSet
  <1>3. TypeOK'
    BY <1>1, <1>2 DEF PollReturns, ConnInv, TypeOK, Socket, Places
  <1>4. Turn'
    BY <1>1 DEF ConnInv, Turn
  <1>5. ASSUME NEW c \in Conns
        PROVE  Sound(http'[c], sock'[c], rev'[c], PhaseOf(c, cur', pc'))
    <2> DEFINE h == http[c]
               s == sock[c]
               s2 == sock'[c]
               r2 == rev'[c]
               fired == s.ready /\ h.chan /\ Reported(c) # {}
    <2>1. h \in HttpData /\ s \in Socket /\ Sound(h, s, {}, "idle")
      BY <1>1 DEF ConnInv, TypeOK, SoundAll, Phase, PhaseOf, Callbacks
    <2>2. /\ r2 = IF fired THEN Reported(c) ELSE {}
          /\ s2 = [s EXCEPT !.ready = FALSE,
                            !.armed = @ /\ ~(fired /\ "ONESHOT" \in h.last)]
      BY DEF PollReturns, Fired
    <2>3. Reported(c) = IF s.armed THEN Events(s) \cap (h.last \cup {"ERR", "HUP"}) ELSE {}
      BY DEF Reported, ReportedOf
    <2>4. PhaseOf(c, cur', pc') = "idle"
      BY <1>1 DEF PhaseOf, Callbacks
    <2> HIDE DEF h, s, s2, r2
    <2>5. /\ s2.rcv = s.rcv /\ s2.fin = s.fin /\ s2.rst = s.rst /\ s2.free = s.free
          /\ ~s2.ready /\ s2.armed = (s.armed /\ ~(fired /\ "ONESHOT" \in h.last))
      BY <2>1, <2>2 DEF Socket
    <2>6. Registered(h, r2) /\ Timed(h, "idle")
      BY <2>1, <2>2, <2>3 DEF Sound, Registered
    <2>7. Phased(h, s2, r2, "idle")
      BY <2>1, <2>2, <2>3, <2>5 DEF Sound, Phased, Events
    <2>8. KeptArmed(h, s2, r2) /\ OutputAsked(h, s2, "idle")
      BY <2>1, <2>2, <2>5 DEF Sound, KeptArmed, OutputAsked
    <2>9. InputDue(h, s2, r2, "idle")
      BY <2>1, <2>2, <2>3, <2>5 DEF Sound, InputDue, Served, Events
    <2>10. OutputDue(h, s2, r2, "idle")
      BY <2>1, <2>2, <2>3, <2>5 DEF Sound, OutputDue, Served, Events
    <2>11. Sound(h, s2, r2, "idle")
      BY <2>6, <2>7, <2>8, <2>9, <2>10 DEF Sound
    <2> QED
      BY <1>1, <2>4, <2>11 DEF h, s2, r2
  <1> QED
    BY <1>3, <1>4, <1>5 DEF ConnInv, SoundAll, Phase

LEMMA DispatchSound ==
  ASSUME ConnInv, NEW c \in Conns, Dispatch(c)
  PROVE  ConnInv'
  <1> DEFINE h == http[c]
             h2 == http'[c]
             s == sock[c]
             r == rev[c]
             ended == "ERR" \in r \/ ("HUP" \in r /\ "IN" \notin r)
             p2 == IF ended THEN "idle" ELSE IF "IN" \in r THEN "read" ELSE "write"
  <1>1. /\ pc = "handle" /\ cur' = c /\ UNCHANGED <<batch, sock>> /\ r # {}
        /\ pc' = IF ended THEN "handle" ELSE p2
        /\ rev' = [rev EXCEPT ![c] = IF ended THEN {} ELSE r]
        /\ http' = [http EXCEPT ![c].ev = {}]
    BY DEF Dispatch, ConnInv, TypeOK
  <1>2. /\ h \in HttpData /\ s \in Socket /\ Sound(h, s, r, "idle")
        /\ r \subseteq EventSet
    BY <1>1 DEF ConnInv, TypeOK, SoundAll, Phase, PhaseOf, Callbacks
  <1>3. h2 = [h EXCEPT !.ev = {}] /\ http' = [http EXCEPT ![c] = h2]
    BY <1>1 DEF ConnInv, TypeOK
  <1>4. h2 \in HttpData
    BY <1>2, <1>3 DEF HttpData
  <1>5. TypeOK'
    BY <1>1, <1>2, <1>3, <1>4 DEF ConnInv, TypeOK, Places, Callbacks
  <1>6. Turn'
    BY <1>1 DEF ConnInv, Turn
  <1>7. Sound(h2, s, IF ended THEN {} ELSE r, p2)
    <2> HIDE DEF h, h2, s, r
    <2>1. /\ h2.obj = h.obj /\ h2.chan = h.chan /\ h2.last = h.last /\ h2.conn = h.conn
          /\ h2.out = h.out /\ h2.timer = h.timer /\ h2.err = h.err /\ h2.ev = {}
      BY <1>2, <1>3 DEF HttpData
    <2>2. h.obj = "open" /\ h.chan
      BY <1>1, <1>2 DEF Sound, Registered, NoHttp
    <2>3. ended => s.rst # "no"
      BY <1>2 DEF Sound, Phased
    <2>4. ~ended /\ "IN" \notin r => r = {"OUT"}
      BY <1>1, <1>2 DEF Sound, Phased, EventSet
    <2>5. /\ Registered(h2, IF ended THEN {} ELSE r) /\ Timed(h2, p2)
          /\ Phased(h2, s, IF ended THEN {} ELSE r, p2)
      BY <1>1, <1>2, <2>1, <2>2, <2>4 DEF Sound, Registered, Timed, Phased
    <2>6. /\ KeptArmed(h2, s, IF ended THEN {} ELSE r)
          /\ InputDue(h2, s, IF ended THEN {} ELSE r, p2)
          /\ OutputAsked(h2, s, p2)
      BY <1>1, <1>2, <2>1, <2>3 DEF Sound, KeptArmed, InputDue, Served, OutputAsked
    <2>7. OutputDue(h2, s, IF ended THEN {} ELSE r, p2)
      <3>1. "IN" \in r /\ ~ended /\ h.last \in Masks /\ r \subseteq h.last \cup {"ERR", "HUP"}
            => "OUT" \notin h.last
        BY DEF Masks
      <3> QED
        BY <1>1, <1>2, <2>1, <2>2, <2>3, <2>4, <3>1 DEF Sound, OutputDue, Served, Registered
    <2> QED
      BY <2>5, <2>6, <2>7 DEF Sound
  <1>8. ASSUME NEW d \in Conns
        PROVE  Sound(http'[d], sock'[d], rev'[d], PhaseOf(d, cur', pc'))
    <2>1. CASE d = c
      <3>1. PhaseOf(c, cur', pc') = p2 /\ rev'[c] = IF ended THEN {} ELSE r
        BY <1>1 DEF PhaseOf, Callbacks, ConnInv, TypeOK
      <3> QED
        BY <1>1, <1>7, <2>1, <3>1
    <2>2. CASE d # c
      <3>1. http'[d] = http[d] /\ sock'[d] = sock[d] /\ rev'[d] = rev[d]
        BY <1>1, <1>3, <2>2 DEF ConnInv, TypeOK
      <3>2. PhaseOf(d, cur', pc') = Phase(d)
        BY <1>1, <2>2 DEF PhaseOf, Phase, Callbacks
      <3> QED
        BY <3>1, <3>2 DEF ConnInv, SoundAll
    <2> QED
      BY <2>1, <2>2
  <1> QED
    BY <1>5, <1>6, <1>8 DEF ConnInv, SoundAll, Phase

LEMMA NewEventSound ==
  ASSUME ConnInv, NEW c \in Conns, NewEvent(c)
  PROVE  ConnInv'
  <1> DEFINE h == http[c]
             h2 == http'[c]
             s == sock[c]
             s2 == sock'[c]
  <1>1. pc = "functors" /\ c \in batch /\ batch' = batch \ {c} /\ UNCHANGED <<pc, cur, rev>>
    BY DEF NewEvent
  <1>2. h \in HttpData /\ s \in Socket /\ h = [NoHttp EXCEPT !.obj = "queued"] /\ rev[c] = {}
    BY <1>1 DEF ConnInv, TypeOK, Turn, SoundAll, Sound, Registered
  <1>3. PICK ok \in BOOLEAN :
          /\ h2 = [h EXCEPT !.obj = "open", !.ev = {"IN", "ONESHOT"},
                            !.last = {"IN", "ONESHOT"}, !.timer = "running", !.chan = ok]
          /\ s2 = IF ok THEN Armed(s, {"IN"}) ELSE s
          /\ http' = [http EXCEPT ![c] = h2] /\ sock' = [sock EXCEPT ![c] = s2]
    <2>1. http \in [Conns -> HttpData] /\ sock \in [Conns -> Socket]
      BY DEF ConnInv, TypeOK
    <2>2. PICK ok \in BOOLEAN :
            /\ http' = [http EXCEPT ![c].obj = "open", ![c].ev = {"IN", "ONESHOT"},
                 ![c].last = {"IN", "ONESHOT"}, ![c].timer = "running", ![c].chan = ok]
            /\ sock' = IF ok THEN [sock EXCEPT ![c] = Armed(@, {"IN"})] ELSE sock
      BY ZenonT(30) DEF NewEvent
    <2>3. /\ h2 = [h EXCEPT !.obj = "open", !.ev = {"IN", "ONESHOT"},
                            !.last = {"IN", "ONESHOT"}, !.timer = "running", !.chan = ok]
          /\ http' = [http EXCEPT ![c] = h2]
      BY <2>1, <2>2
    <2>4. s2 = (IF ok THEN Armed(s, {"IN"}) ELSE s) /\ sock' = [sock EXCEPT ![c] = s2]
      BY <2>1, <2>2
    <2> QED
      BY <2>3, <2>4
  <1>4. h2 \in HttpData /\ s2 \in Socket
    <2>1. \A b \in BOOLEAN : [h EXCEPT !.obj = "open", !.ev = {"IN", "ONESHOT"},
             !.last = {"IN", "ONESHOT"}, !.timer = "running", !.chan = b] \in HttpData
      BY <1>2 DEF HttpData
    <2>2. Armed(s, {"IN"}) \in Socket
      BY <1>2, ArmedTyped
    <2> QED
      BY <1>2, <1>3, <2>1, <2>2
  <1>5. TypeOK'
    BY <1>1, <1>3, <1>4 DEF ConnInv, TypeOK
  <1>6. Turn'
    BY <1>1, <1>3 DEF ConnInv, TypeOK, Turn
  <1>7. Sound(h2, s2, {}, "idle")
    <2> HIDE DEF h, h2, s, s2
    <2>1. /\ h2.obj = "open" /\ h2.chan = ok /\ h2.last = {"IN", "ONESHOT"}
          /\ h2.timer = "running" /\ h2.out = 0
      BY <1>2, <1>3 DEF HttpData, NoHttp
    <2>2. ok => s2.armed /\ (s2.rcv # <<>> \/ s2.fin => s2.ready)
      BY <1>2, <1>3 DEF Socket, Armed, Events
    <2> QED
      BY <2>1, <2>2 DEF Sound, Registered, Masks, Phased, Timed, KeptArmed, Served,
         InputDue, OutputDue, OutputAsked
  <1>8. ASSUME NEW d \in Conns
        PROVE  Sound(http'[d], sock'[d], rev'[d], PhaseOf(d, cur', pc'))
    <2>1. PhaseOf(d, cur', pc') = "idle" /\ Phase(d) = "idle"
      BY <1>1 DEF PhaseOf, Phase, Callbacks
    <2>2. CASE d = c
      BY <1>1, <1>2, <1>7, <2>1, <2>2
    <2>3. CASE d # c
      <3>1. http'[d] = http[d] /\ sock'[d] = sock[d] /\ rev'[d] = rev[d]
        BY <1>1, <1>3, <2>3 DEF ConnInv, TypeOK
      <3> QED
        BY <2>1, <3>1 DEF ConnInv, SoundAll
    <2> QED
      BY <2>2, <2>3
  <1> QED
    BY <1>5, <1>6, <1>8 DEF ConnInv, SoundAll, Phase

LEMMA FreshSound == \A p : p = "idle" => Sound(NoHttp, NewSock, {}, p)
  BY DEF NoHttp, NewSock, Sound, Registered, Phased, Timed, KeptArmed, Served,
     InputDue, OutputDue, OutputAsked

LEMMA LoopTurns ==
  ASSUME ConnInv, HandleDone \/ FunctorsDone \/ HandleExpired
  PROVE  ConnInv'
  <1>1. UNCHANGED <<cur, rev>> /\ pc \in {"handle", "functors", "expire"}
        /\ pc' \in {"functors", "expire", "poll"}
    BY DEF HandleDone, FunctorsDone, HandleExpired
  <1>2. \A c \in Conns : rev[c] = {}
    BY <1>1 DEF HandleDone, FunctorsDone, HandleExpired, ConnInv, Turn
  <1>3. TypeOK'
    BY NoneTyped DEF HandleDone, FunctorsDone, HandleExpired, ConnInv, TypeOK, Places
  <1>4. Turn'
    BY <1>1, <1>2 DEF HandleDone, FunctorsDone, HandleExpired, ConnInv, Turn
  <1>5. ASSUME NEW c \in Conns
        PROVE  Sound(http'[c], sock'[c], rev'[c], PhaseOf(c, cur', pc'))
    <2>1. PhaseOf(c, cur', pc') = "idle" /\ Phase(c) = "idle"
      BY <1>1 DEF PhaseOf, Phase, Callbacks
    <2>2. \/ http'[c] = http[c] /\ sock'[c] = sock[c]
          \/ http'[c] = NoHttp /\ sock'[c] = NewSock
      BY DEF HandleDone, FunctorsDone, HandleExpired
    <2>3. Sound(http[c], sock[c], {}, "idle")
      BY <1>2, <2>1 DEF ConnInv, SoundAll
    <2> QED
      BY <1>1, <1>2, <2>1, <2>2, <2>3, FreshSound
  <1> QED
    BY <1>3, <1>4, <1>5 DEF ConnInv, SoundAll, Phase

-----------------------------------------------------------------------------
(* The callbacks of the current channel.                                   *)

(* What the invariant says while callback p of the current channel runs.   *)
LEMMA Current ==
  ASSUME ConnInv, pc \in Callbacks
  PROVE  /\ cur \in Conns /\ http[cur] \in HttpData /\ sock[cur] \in Socket
         /\ rev[cur] \subseteq EventSet
         /\ Sound(http[cur], sock[cur], rev[cur], pc)
         /\ http[cur].obj = "open" /\ http[cur].chan
         /\ "IN" \in rev[cur] => "IN" \in http[cur].last /\ "OUT" \notin http[cur].last
  <1>1. /\ cur \in Conns /\ http[cur] \in HttpData /\ sock[cur] \in Socket
        /\ rev[cur] \subseteq EventSet /\ Sound(http[cur], sock[cur], rev[cur], pc)
    BY DEF ConnInv, TypeOK, SoundAll, Phase, PhaseOf
  <1>2. pc # "idle"
    BY DEF Callbacks
  <1>3. http[cur].chan /\ http[cur].last \in Masks /\ rev[cur] \subseteq http[cur].last \cup {"ERR", "HUP"}
    BY <1>1, <1>2 DEF Sound, Phased, Registered
  <1>4. http[cur].obj = "open"
    BY <1>1, <1>3 DEF Sound, Registered, NoHttp
  <1>5. "IN" \in rev[cur] => "IN" \in http[cur].last /\ "OUT" \notin http[cur].last
    BY <1>3 DEF Masks
  <1> QED
    BY <1>1, <1>3, <1>4, <1>5

LEMMA ReadSound == ConnInv /\ ReadN => ConnInv'
  <1> SUFFICES ASSUME ConnInv, ReadN PROVE ConnInv'
    OBVIOUS
  <1> DEFINE h == http[cur]
             h2 == http'[cur]
             s == sock[cur]
             s2 == sock'[cur]
             r == rev[cur]
             closing == h.conn = "disconnecting"
             failed == ~closing /\ s.rst = "err"
             eof == ~closing /\ ~failed /\ (s.fin \/ s.rst = "dead")
  <1>1. /\ pc = "read" /\ UNCHANGED <<cur, rev, batch>>
        /\ pc' = IF failed THEN "error"
                 ELSE IF closing \/ (eof /\ s.rcv = <<>>) THEN "flush" ELSE "parse"
    BY DEF ReadN
  <1>2. /\ cur \in Conns /\ h \in HttpData /\ s \in Socket /\ r \subseteq EventSet
        /\ Sound(h, s, r, "read") /\ h.chan /\ h.obj = "open"
        /\ "IN" \in r => "IN" \in h.last /\ "OUT" \notin h.last
    BY <1>1, Current DEF Callbacks
  <1>3. /\ h2 = [h EXCEPT !.in = IF closing THEN <<>> ELSE h.in \o s.rcv,
                          !.err = @ \/ failed,
                          !.conn = IF eof THEN "disconnecting" ELSE @]
        /\ s2 = [s EXCEPT !.rcv = <<>>, !.rst = IF @ = "err" THEN "dead" ELSE @]
        /\ http' = [http EXCEPT ![cur] = h2] /\ sock' = [sock EXCEPT ![cur] = s2]
    BY <1>2 DEF ReadN, ConnInv, TypeOK
  <1> HIDE DEF h, h2, s, s2, r, closing, failed, eof
  <1>4. h2 \in HttpData /\ s2 \in Socket
    <2>1. h.in \o s.rcv \in Seq(Pieces) /\ <<>> \in Seq(Pieces) /\ h.err \in BOOLEAN
      BY <1>2, PiecesTyped DEF HttpData, Socket
    <2>2. \A b \in BOOLEAN, q \in Seq(Pieces) : \A k \in {"connected", "disconnecting"} :
            [h EXCEPT !.in = q, !.err = b, !.conn = k] \in HttpData
      BY <1>2 DEF HttpData
    <2>3. h.conn \in {"connected", "disconnecting"} /\ failed \in BOOLEAN
      BY <1>2 DEF HttpData, failed
    <2>4. s2 \in Socket
      BY <1>2, <1>3, <2>1 DEF Socket
    <2> QED
      BY <1>3, <2>1, <2>2, <2>3, <2>4
  <1>5. /\ h2.obj = h.obj /\ h2.chan = h.chan /\ h2.last = h.last /\ h2.ev = h.ev
        /\ h2.out = h.out /\ h2.timer = h.timer /\ h2.err = (h.err \/ failed)
        /\ h2.conn = IF eof THEN "disconnecting" ELSE h.conn
        /\ s2.rcv = <<>> /\ s2.fin = s.fin /\ s2.armed = s.armed /\ s2.ready = s.ready
        /\ s2.rst = IF s.rst = "err" THEN "dead" ELSE s.rst
    BY <1>2, <1>3 DEF HttpData, Socket
  <1>6. r # {} /\ "IN" \in r /\ "OUT" \notin h.last
    BY <1>2 DEF Sound, Phased
  <1>7. h2.conn = "connected" /\ s2.rst = "no" => s2.rcv = <<>> /\ ~s2.fin
    BY <1>2, <1>5 DEF eof, failed, closing, HttpData, Socket
  <1>8. Sound(h2, s2, r, pc')
    <2>1. Registered(h2, r) /\ Timed(h2, pc')
      BY <1>1, <1>2, <1>5 DEF Sound, Registered, Timed
    <2>2. Phased(h2, s2, r, pc')
      BY <1>1, <1>2, <1>5, <1>6 DEF Sound, Phased
    <2>3. KeptArmed(h2, s2, r) /\ OutputAsked(h2, s2, pc') /\ OutputDue(h2, s2, r, pc')
      BY <1>1, <1>2, <1>5, <1>6 DEF Sound, KeptArmed, OutputAsked, OutputDue
    <2>4. InputDue(h2, s2, r, pc')
      BY <1>7 DEF InputDue, Served
    <2> QED
      BY <2>1, <2>2, <2>3, <2>4 DEF Sound
  <1> QED
    BY <1>1, <1>2, <1>3, <1>4, <1>8, CallbackStep DEF h2, s2, r, Callbacks, ConnInv, TypeOK

(* Parsing changes nothing that the invariant speaks of but the phase, the *)
(* error flag and how much there is to write.                              *)
SameBut(h, h2) ==
  /\ h2.obj = h.obj /\ h2.conn = h.conn /\ h2.ev = h.ev /\ h2.last = h.last
  /\ h2.chan = h.chan /\ h2.timer = h.timer

LEMMA ParseSound ==
  ASSUME ConnInv, pc = "parse", UNCHANGED <<cur, rev, batch, sock>>,
         http' = [http EXCEPT ![cur] = http'[cur]], http'[cur] \in HttpData,
         SameBut(http[cur], http'[cur]),
         pc' \in {"parse", "error", "flush"} \/ (pc' = AfterRead /\ http'[cur].err),
         pc' = "error" => http'[cur].err
  PROVE  ConnInv'
  <1> DEFINE h == http[cur]
             h2 == http'[cur]
             s == sock[cur]
             r == rev[cur]
  <1>1. /\ cur \in Conns /\ h \in HttpData /\ s \in Socket /\ r \subseteq EventSet
        /\ Sound(h, s, r, "parse") /\ h.chan /\ h.obj = "open"
        /\ "IN" \in r => "IN" \in h.last /\ "OUT" \notin h.last
    BY Current DEF Callbacks
  <1>2. pc' \in {"parse", "error", "flush"} \/ (pc' \in {"write", "conn"} /\ h2.err)
    BY DEF AfterRead
  <1>3. /\ h2.obj = h.obj /\ h2.conn = h.conn /\ h2.ev = h.ev /\ h2.last = h.last
        /\ h2.chan = h.chan /\ h2.timer = h.timer
    BY DEF SameBut
  <1> HIDE DEF h, h2, s, r
  <1>4. r # {} /\ "IN" \in r /\ "OUT" \notin h.last
    BY <1>1 DEF Sound, Phased
  <1>5. Sound(h2, s, r, pc')
    <2>1. Registered(h2, r) /\ Timed(h2, pc')
      BY <1>1, <1>2, <1>3 DEF Sound, Registered, Timed
    <2>2. Phased(h2, s, r, pc')
      BY <1>1, <1>2, <1>3, <1>4 DEF Sound, Phased, h2
    <2>3. KeptArmed(h2, s, r) /\ OutputAsked(h2, s, pc') /\ OutputDue(h2, s, r, pc')
      BY <1>1, <1>2, <1>3, <1>4 DEF Sound, KeptArmed, OutputAsked, OutputDue
    <2>4. InputDue(h2, s, r, pc')
      BY <1>1, <1>2, <1>3 DEF Sound, InputDue, Served
    <2> QED
      BY <2>1, <2>2, <2>3, <2>4 DEF Sound
  <1>6. sock' = [sock EXCEPT ![cur] = sock'[cur]] /\ rev' = [rev EXCEPT ![cur] = rev'[cur]]
    BY DEF ConnInv, TypeOK
  <1> QED
    BY <1>1, <1>2, <1>5, <1>6, CallbackStep DEF h2, s, r, Callbacks

LEMMA ParsingSteps ==
  ConnInv /\ (ParseAgain \/ ParseURI \/ ParsePart \/ ParseError \/ ParseHeaders) => ConnInv'
  <1> SUFFICES ASSUME ConnInv,
                      ParseAgain \/ ParseURI \/ ParsePart \/ ParseError \/ ParseHeaders
               PROVE  ConnInv'
    OBVIOUS
  <1> DEFINE h == http[cur]
             h2 == http'[cur]
  <1>1. pc = "parse" /\ UNCHANGED <<cur, rev, batch, sock>>
    BY DEF ParseAgain, ParseURI, ParsePart, ParseError, ParseHeaders, Parsing
  <1>2. h \in HttpData /\ cur \in Conns /\ http \in [Conns -> HttpData] /\ h.in \in Seq(Pieces)
    BY DEF ConnInv, TypeOK, HttpData
  <1>3. /\ <<>> \in Seq(Pieces) /\ "bad" \in Pieces
        /\ h.in # <<>> => /\ Tail(h.in) \in Seq(Pieces) /\ Head(h.in) \in Pieces
                          /\ <<"bad">> \o SubSeq(h.in, 3, Len(h.in)) \in Seq(Pieces)
    BY <1>2, PiecesTyped DEF Pieces
  <1>4. CASE ParseAgain
    <2>1. http' = http /\ pc' = "flush" /\ SameBut(h, h)
      BY <1>4 DEF ParseAgain, SameBut
    <2> QED
      BY <1>1, <1>2, <2>1, ParseSound
  <1>5. CASE ParseURI
    <2>1. /\ h2 = [h EXCEPT !.st = Head(h.in), !.in = Tail(@)] /\ http' = [http EXCEPT ![cur] = h2]
          /\ Head(h.in) \in Requests /\ h.in # <<>> /\ pc' = "parse"
      BY <1>2, <1>5 DEF ParseURI, Parsing
    <2>2. h2 \in HttpData
      BY <1>2, <1>3, <2>1 DEF HttpData
    <2>3. SameBut(h, h2)
      BY <1>2, <2>1 DEF HttpData, SameBut
    <2> QED
      BY <1>1, <2>1, <2>2, <2>3, ParseSound
  <1>6. CASE ParsePart
    <2>1. /\ h2 = [h EXCEPT !.split = TRUE, !.in = Tail(@)] /\ http' = [http EXCEPT ![cur] = h2]
          /\ h.in # <<>> /\ pc' = "parse"
      BY <1>2, <1>6 DEF ParsePart, Parsing
    <2>2. h2 \in HttpData
      BY <1>2, <1>3, <2>1 DEF HttpData
    <2>3. SameBut(h, h2)
      BY <1>2, <2>1 DEF HttpData, SameBut
    <2> QED
      BY <1>1, <2>1, <2>2, <2>3, ParseSound
  <1>7. CASE ParseError
    <2>1. /\ h2 = [h EXCEPT !.err = TRUE, !.in = IF h.st = "uri" THEN <<>> ELSE @]
          /\ http' = [http EXCEPT ![cur] = h2] /\ pc' = "error"
      BY <1>2, <1>7 DEF ParseError, Parsing
    <2>2. h2 \in HttpData /\ h2.err
      BY <1>2, <1>3, <2>1 DEF HttpData
    <2>3. SameBut(h, h2)
      BY <1>2, <2>1 DEF HttpData, SameBut
    <2> QED
      BY <1>1, <2>1, <2>2, <2>3, ParseSound
  <1>8. CASE ParseHeaders
    <2> DEFINE bitten == IF Len(h.in) > 1 THEN <<"bad">> \o SubSeq(h.in, 3, Len(h.in)) ELSE <<>>
               st2 == CASE h.st = "get" -> "finish" [] h.st = "post" -> "body" [] OTHER -> h.st
    <2>1. PICK rest \in {bitten} \cup (IF h.split THEN {Tail(h.in)} ELSE {}),
               out \in IF h.st = "get" THEN {h.out + Response}
                       ELSE IF h.st = "missing" THEN {h.out, 0} ELSE {h.out} :
            http' = [http EXCEPT ![cur].in = rest, ![cur].out = out,
              ![cur].err = h.st \in {"missing", "head"},
              ![cur].st = CASE @ = "get" -> "finish" [] @ = "post" -> "body" [] OTHER -> @]
      BY Zenon, <1>8 DEF ParseHeaders
    <2>2. /\ h2 = [h EXCEPT !.in = rest, !.out = out, !.err = h.st \in {"missing", "head"},
                            !.st = st2]
          /\ http' = [http EXCEPT ![cur] = h2]
      BY <1>2, <2>1
    <2>3. /\ pc' = CASE h.st = "missing" -> "error" [] h.st = "head" -> AfterRead
                     [] OTHER -> "flush"
          /\ h.st \in Requests /\ h.in # <<>>
      BY <1>8 DEF ParseHeaders, Parsing
    <2>4. rest \in Seq(Pieces)
      <3>1. bitten \in Seq(Pieces) /\ Tail(h.in) \in Seq(Pieces)
        BY <1>3, <2>3
      <3>2. rest = bitten \/ rest = Tail(h.in)
        OBVIOUS
      <3> QED
        BY <3>1, <3>2
    <2>5. out \in Nat
      <3>1. h.out \in Nat /\ h.out + Response \in Nat
        BY <1>2, SizesAssumption DEF HttpData
      <3> QED
        BY <3>1
    <2>6. st2 \in Requests \cup {"uri", "body", "finish"}
      BY <2>3
    <2> HIDE DEF bitten, st2
    <2>7. h2 \in HttpData /\ h2.err = (h.st \in {"missing", "head"}) /\ SameBut(h, h2)
      <3>1. \A b \in BOOLEAN :
              LET g == [h EXCEPT !.in = rest, !.out = out, !.err = b, !.st = st2]
              IN  g \in HttpData /\ g.err = b /\ SameBut(h, g)
        BY <1>2, <2>4, <2>5, <2>6 DEF HttpData, SameBut
      <3>2. (h.st \in {"missing", "head"}) \in BOOLEAN
        OBVIOUS
      <3> HIDE DEF h, h2
      <3> QED
        BY Zenon, <2>2, <3>1, <3>2
    <2>8. /\ pc' \in {"parse", "error", "flush"} \/ (pc' = AfterRead /\ h2.err)
          /\ pc' = "error" => h2.err
      BY <2>3, <2>7 DEF AfterRead
    <2> QED
      BY <1>1, <2>2, <2>7, <2>8, ParseSound
  <1> QED
    BY <1>4, <1>5, <1>6, <1>7, <1>8

(* What handleWrite changes of h and s, and what it leaves to be written.  *)
Written(h, s, h2, s2) ==
  /\ h2.obj = h.obj /\ h2.chan = h.chan /\ h2.last = h.last
  /\ h2.conn = h.conn
  /\ h.ev \subseteq {"OUT"} => h2.ev \subseteq {"OUT"}
  /\ h2.err \/ h2.out = 0 \/ "OUT" \in h2.ev
  /\ s2.rcv = s.rcv /\ s2.fin = s.fin /\ s2.armed = s.armed /\ s2.ready = s.ready
  /\ s2.rst = "no" <=> s.rst = "no"
  /\ s.rst = "no" /\ s2.free > 0 /\ h.ev = {} => s.free > 0 /\ h2.ev = {}

LEMMA WroteFacts ==
  ASSUME ConnInv, NEW c \in Conns
  PROVE  Written(http[c], sock[c], Wrote(c), WroteSock(c))
  <1> DEFINE h == http[c]
             h2 == Wrote(c)
             s == sock[c]
             s2 == WroteSock(c)
             t == Taken(c)
             left == h.out - t
             failed == h.out > 0 /\ ~h.err /\ s.rst = "err"
  <1>1. /\ h \in HttpData /\ s \in Socket /\ t \in Nat /\ t <= h.out /\ t <= s.free
        /\ h.out \in Nat /\ s.free \in Nat
    BY TakenTyped DEF ConnInv, TypeOK, HttpData, Socket
  <1>2. /\ h2 = [h EXCEPT !.out = left, !.err = @ \/ failed,
                          !.ev = IF h.err \/ left = 0 THEN @
                                 ELSE IF failed THEN {"OUT"} ELSE @ \cup {"OUT"}]
        /\ s2 = [s EXCEPT !.free = @ - t,
                          !.rst = IF @ = "err" /\ h2.err /\ ~h.err THEN "dead" ELSE @]
    BY DEF Wrote, WroteSock
  <1>3. s.rst = "no" => h.err \/ t = h.out \/ t = s.free
    BY <1>1 DEF Taken
  <1> HIDE DEF h, h2, s, s2, t
  <1>4. /\ h2.obj = h.obj /\ h2.chan = h.chan /\ h2.last = h.last
        /\ h2.conn = h.conn /\ h2.out = left
        /\ h2.err = (h.err \/ failed)
        /\ h2.ev = IF h.err \/ left = 0 THEN h.ev
                   ELSE IF failed THEN {"OUT"} ELSE h.ev \cup {"OUT"}
        /\ s2.rcv = s.rcv /\ s2.fin = s.fin /\ s2.armed = s.armed /\ s2.ready = s.ready
        /\ s2.free = s.free - t
    BY <1>1, <1>2 DEF HttpData, Socket
  <1>5. s2.rst = "no" <=> s.rst = "no"
    BY <1>1, <1>2 DEF Socket
  <1>6. s.rst = "no" /\ s2.free > 0 => s.free > 0 /\ (h.err \/ left = 0)
    BY <1>1, <1>3, <1>4
  <1> QED
    BY <1>4, <1>5, <1>6 DEF Written, h, h2, s, s2

LEMMA WriteSound == ConnInv /\ (Flush \/ HandleWrite) => ConnInv'
  <1> SUFFICES ASSUME ConnInv, Flush \/ HandleWrite PROVE ConnInv'
    OBVIOUS
  <1> DEFINE h == http[cur]
             h2 == http'[cur]
             w == Wrote(cur)
             s == sock[cur]
             s2 == sock'[cur]
             r == rev[cur]
  <1>1. pc \in {"flush", "write"} /\ UNCHANGED <<cur, rev, batch>>
    BY DEF Flush, HandleWrite
  <1>2. /\ cur \in Conns /\ h \in HttpData /\ s \in Socket /\ r \subseteq EventSet
        /\ Sound(h, s, r, pc) /\ h.chan /\ h.obj = "open"
        /\ "IN" \in r => "IN" \in h.last /\ "OUT" \notin h.last
    BY <1>1, Current DEF Callbacks
  <1>3. w \in HttpData /\ WroteSock(cur) \in Socket
    BY <1>2, TakenTyped DEF ConnInv
  <1>4. http \in [Conns -> HttpData] /\ sock \in [Conns -> Socket] /\ rev \in [Conns -> SUBSET EventSet]
    BY DEF ConnInv, TypeOK
  <1>5. rev' = [rev EXCEPT ![cur] = rev'[cur]] /\ rev'[cur] = r
    BY <1>1, <1>4
  <1>6. CASE Killed
    <2>1. pc' = "killed" /\ UNCHANGED <<http, sock>> /\ s.rst = "dead"
      BY <1>6 DEF Flush, HandleWrite, Killed
    <2>2. http' = [http EXCEPT ![cur] = http'[cur]] /\ sock' = [sock EXCEPT ![cur] = sock'[cur]]
      BY <1>4, <2>1
    <2>3. Sound(h, s, r, "killed")
      <3> HIDE DEF h, s, r
      <3> QED
        BY <1>1, <1>2, <2>1 DEF Sound, Registered, Phased, Timed, KeptArmed, Served,
           InputDue, OutputDue, OutputAsked
    <2> QED
      BY <1>1, <1>2, <1>5, <2>1, <2>2, <2>3, CallbackStep DEF Callbacks
  <1>7. CASE ~Killed
    <2> DEFINE reset == [w EXCEPT !.st = "uri", !.split = FALSE, !.timer = "none"]
    <2>1. /\ s2 = WroteSock(cur) /\ sock' = [sock EXCEPT ![cur] = s2]
          /\ h2 \in {w, reset} /\ http' = [http EXCEPT ![cur] = h2]
          /\ pc = "flush" => pc' \in {"read", AfterRead}
          /\ pc = "write" => pc' = "conn" /\ h2 = w
      BY <1>2, <1>4, <1>7 DEF Flush, HandleWrite
    <2>2. pc' \in {"read", "write", "conn"}
      BY <1>1, <2>1 DEF AfterRead
    <2>3. reset \in HttpData
      BY <1>3 DEF HttpData
    <2>4. /\ h2 \in HttpData /\ h2.obj = w.obj /\ h2.chan = w.chan /\ h2.last = w.last
          /\ h2.conn = w.conn /\ h2.ev = w.ev /\ h2.err = w.err /\ h2.out = w.out
      <3>1. CASE h2 = w
        BY <1>3, <3>1
      <3>2. CASE h2 = reset
        <4> HIDE DEF w
        <4> QED
          BY <1>3, <2>3, <3>2 DEF HttpData
      <3> QED
        BY <2>1, <3>1, <3>2
    <2>5. Written(h, s, w, s2)
      BY <1>2, <2>1, WroteFacts
    <2> HIDE DEF h, h2, w, s, s2, r, reset
    <2>6. r # {} /\ (pc = "flush" => "IN" \in r)
      BY <1>1, <1>2 DEF Sound, Phased
    <2>7. Sound(h2, s2, r, pc')
      <3>1. Registered(h2, r) /\ Timed(h2, pc')
        BY <1>2, <2>2, <2>4, <2>5 DEF Sound, Registered, Timed, Written
      <3>2. Phased(h2, s2, r, pc')
        BY <1>1, <1>2, <2>1, <2>2, <2>4, <2>5, <2>6 DEF Sound, Phased, Written
      <3>3. KeptArmed(h2, s2, r) /\ OutputAsked(h2, s2, pc')
        BY <1>2, <2>2, <2>4, <2>5, <2>6 DEF Sound, KeptArmed, OutputAsked, Written
      <3>4. InputDue(h2, s2, r, pc')
        BY <1>1, <1>2, <2>1, <2>4, <2>5, <2>6 DEF Sound, InputDue, Served, Written
      <3>5. OutputDue(h2, s2, r, pc')
        BY <1>1, <1>2, <2>1, <2>4, <2>5, <2>6 DEF Sound, OutputDue, Served, Phased, Written
      <3> QED
        BY <3>1, <3>2, <3>3, <3>4, <3>5 DEF Sound
    <2>8. s2 \in Socket
      BY <1>3, <2>1 DEF s2
    <2> QED
      BY <1>1, <1>2, <1>5, <2>1, <2>2, <2>4, <2>7, <2>8, CallbackStep DEF h2, s2, r, Callbacks
  <1> QED
    BY <1>6, <1>7

LEMMA ErrorSound == ConnInv /\ HandleError => ConnInv'
  <1> SUFFICES ASSUME ConnInv, HandleError PROVE ConnInv'
    OBVIOUS
  <1> DEFINE h == http[cur]
             s == sock[cur]
             s2 == sock'[cur]
             r == rev[cur]
  <1>1. pc = "error" /\ UNCHANGED <<cur, rev, batch, http>>
    BY DEF HandleError
  <1>2. /\ cur \in Conns /\ h \in HttpData /\ s \in Socket /\ r \subseteq EventSet
        /\ Sound(h, s, r, "error") /\ h.chan /\ h.obj = "open"
        /\ "IN" \in r => "IN" \in h.last /\ "OUT" \notin h.last
    BY <1>1, Current DEF Callbacks
  <1>3. /\ sock' = [sock EXCEPT ![cur] = s2]
        /\ \/ pc' \in {"write", "conn"} /\ s2 = [s EXCEPT !.free = IF @ > 0 THEN @ - 1 ELSE 0]
           \/ pc' = "killed" /\ s2 = s /\ s.rst # "no"
    BY <1>2 DEF HandleError, AfterRead, ConnInv, TypeOK
  <1>4. http' = [http EXCEPT ![cur] = http'[cur]] /\ rev' = [rev EXCEPT ![cur] = rev'[cur]]
    BY <1>1 DEF ConnInv, TypeOK
  <1>5. /\ s2 \in Socket /\ s2.rcv = s.rcv /\ s2.fin = s.fin /\ s2.rst = s.rst
        /\ s2.armed = s.armed /\ s2.ready = s.ready
    BY <1>2, <1>3 DEF Socket
  <1> HIDE DEF h, s, s2, r
  <1>6. r # {} /\ "IN" \in r /\ "OUT" \notin h.last /\ h.err
    BY <1>2 DEF Sound, Phased
  <1>7. Sound(h, s2, r, pc')
    <2>1. Registered(h, r) /\ Timed(h, pc')
      BY <1>2, <1>3 DEF Sound, Registered, Timed
    <2>2. Phased(h, s2, r, pc')
      BY <1>2, <1>3, <1>5, <1>6 DEF Sound, Phased
    <2>3. KeptArmed(h, s2, r) /\ OutputAsked(h, s2, pc') /\ OutputDue(h, s2, r, pc')
      BY <1>2, <1>3, <1>5, <1>6 DEF Sound, KeptArmed, OutputAsked, OutputDue
    <2>4. InputDue(h, s2, r, pc')
      BY <1>2, <1>3, <1>5 DEF Sound, InputDue, Served
    <2> QED
      BY <2>1, <2>2, <2>3, <2>4 DEF Sound
  <1> QED
    BY <1>1, <1>2, <1>3, <1>4, <1>5, <1>7, CallbackStep DEF h, s2, r, Callbacks


LEMMA EndSound == ConnInv /\ (Rearm \/ Linger \/ Close) => ConnInv'
  <1> SUFFICES ASSUME ConnInv, Rearm \/ Linger \/ Close PROVE ConnInv'
    OBVIOUS
  <1> DEFINE h == http[cur]
             h2 == http'[cur]
             s == sock[cur]
             s2 == sock'[cur]
             r == rev[cur]
  <1>1. /\ pc = "conn" /\ pc' = "handle" /\ UNCHANGED <<cur, batch>>
        /\ rev' = [rev EXCEPT ![cur] = {}]
    BY DEF Rearm, Linger, Close, EndHandling
  <1>2. /\ cur \in Conns /\ h \in HttpData /\ s \in Socket
        /\ Sound(h, s, r, "conn") /\ h.chan /\ h.obj = "open"
    BY <1>1, Current DEF Callbacks
  <1>3. rev'[cur] = {} /\ http \in [Conns -> HttpData] /\ sock \in [Conns -> Socket]
    BY <1>1, <1>2 DEF ConnInv, TypeOK
  <1>4. SUFFICES /\ http' = [http EXCEPT ![cur] = h2] /\ h2 \in HttpData
                 /\ sock' = [sock EXCEPT ![cur] = s2] /\ s2 \in Socket
                 /\ Sound(h2, s2, {}, "idle")
    BY <1>1, <1>3, CallbackStep DEF Callbacks
  <1>5. CASE Rearm
    <2> DEFINE mask == IF h.ev = {} THEN {"IN"} ELSE IF "OUT" \in h.ev THEN {"OUT"} ELSE h.ev
    <2>1. PICK ok \in BOOLEAN :
            /\ mask = h.last => ok
            /\ http' = [http EXCEPT ![cur].ev = mask, ![cur].last = mask,
                                    ![cur].timer = "running", ![cur].chan = @ /\ ok]
            /\ sock' = IF mask = h.last \/ ~ok THEN sock
                       ELSE [sock EXCEPT ![cur] = Armed(@, mask)]
      BY ZenonT(30), <1>5 DEF Rearm
    <2>2. ~h.err
      BY Zenon, <1>5 DEF Rearm
    <2>3. /\ h2 = [h EXCEPT !.ev = mask, !.last = mask, !.timer = "running", !.chan = @ /\ ok]
          /\ s2 = IF mask = h.last \/ ~ok THEN s ELSE Armed(s, mask)
          /\ http' = [http EXCEPT ![cur] = h2] /\ sock' = [sock EXCEPT ![cur] = s2]
      BY <1>2, <1>3, <2>1
    <2>4. mask \in {{"IN"}, {"OUT"}} /\ ("OUT" \in mask <=> "OUT" \in h.ev)
      BY <1>2 DEF Sound, Phased
    <2> HIDE DEF mask, h, h2, s, s2
    <2>5. h2 \in HttpData /\ s2 \in Socket
      <3>1. \A b \in BOOLEAN : [h EXCEPT !.ev = mask, !.last = mask, !.timer = "running",
                                         !.chan = b] \in HttpData
        BY <1>2, <2>4 DEF HttpData
      <3>2. (h.chan /\ ok) \in BOOLEAN
        OBVIOUS
      <3>3. h2 \in HttpData
        BY Zenon, <2>3, <3>1, <3>2
      <3> QED
        BY <1>2, <2>3, <3>3, ArmedTyped
    <2>6. /\ h2.obj = "open" /\ h2.chan = ok /\ h2.last = mask /\ h2.timer = "running"
          /\ h2.conn = h.conn /\ h2.out = h.out
      BY <1>2, <2>3 DEF HttpData
    <2>7. s2.rcv = s.rcv /\ s2.fin = s.fin /\ s2.rst = s.rst /\ s2.free = s.free
      BY <1>2, <2>3 DEF Armed, Socket
    <2>8. \/ s2.armed = s.armed /\ s2.ready = s.ready /\ mask = h.last
          \/ ~ok
          \/ s2.armed /\ (Events(s) \cap mask # {} => s2.ready)
      BY <1>2, <2>3 DEF Armed, Socket
    <2>9. /\ Registered(h2, {}) /\ Phased(h2, s2, {}, "idle") /\ Timed(h2, "idle")
      BY <2>4, <2>6 DEF Registered, Masks, Phased, Timed
    <2>10. KeptArmed(h2, s2, {}) /\ OutputAsked(h2, s2, "idle")
      BY <1>2, <2>2, <2>4, <2>6, <2>7, <2>8 DEF Sound, Phased, KeptArmed, OutputAsked
    <2>11. InputDue(h2, s2, {}, "idle")
      BY <1>2, <2>4, <2>6, <2>7, <2>8 DEF Sound, InputDue, Served, Events
    <2>12. OutputDue(h2, s2, {}, "idle")
      BY <1>2, <2>4, <2>6, <2>7, <2>8 DEF Sound, OutputDue, Served, Events
    <2> QED
      BY <2>3, <2>5, <2>9, <2>10, <2>11, <2>12 DEF Sound
  <1>6. CASE Linger
    <2>1. /\ h2 = [h EXCEPT !.ev = {"OUT"}, !.timer = "none"] /\ s2 = s
          /\ http' = [http EXCEPT ![cur] = h2] /\ sock' = [sock EXCEPT ![cur] = s2]
          /\ h.conn = "disconnecting"
      BY <1>2, <1>3, <1>6 DEF Linger
    <2> HIDE DEF h, h2, s, s2
    <2>2. /\ h2 \in HttpData /\ h2.obj = "open" /\ h2.chan /\ h2.last = h.last
          /\ h2.conn = "disconnecting" /\ h2.ev = {"OUT"}
      BY <1>2, <2>1 DEF HttpData
    <2> QED
      BY <1>2, <2>1, <2>2 DEF Sound, Registered, Phased, Timed, KeptArmed, Served,
         InputDue, OutputDue, OutputAsked
  <1>7. CASE Close
    <2>1. /\ h2 = NoHttp /\ s2 = NewSock
          /\ http' = [http EXCEPT ![cur] = h2] /\ sock' = [sock EXCEPT ![cur] = s2]
      BY <1>2, <1>3, <1>7 DEF Close
    <2> QED
      BY <2>1, NoneTyped, FreshSound
  <1> QED
    BY <1>5, <1>6, <1>7

-----------------------------------------------------------------------------

LEMMA Preserved == ConnInv /\ [Next]_vars => ConnInv'
  <1> SUFFICES ASSUME ConnInv, [Next]_vars PROVE ConnInv'
    OBVIOUS
  <1>1. CASE LoopStep
    <2>1. Handling => ConnInv'
      BY ReadSound, ParsingSteps, ErrorSound, WriteSound, EndSound DEF Handling
    <2> QED
      BY <1>1, <2>1, PollSound, DispatchSound, NewEventSound, LoopTurns DEF LoopStep, Poll
  <1>2. CASE Environment
    <2>1. CASE PollOther
      BY <2>1, PollSound DEF PollOther
    <2>2. ASSUME NEW c \in Conns, Accept(c) \/ TimerDue(c)
          PROVE  ConnInv'
      BY <2>2, DataSteps
    <2>3. ASSUME NEW c \in Conns, PeerFinishes(c) \/ PeerResets(c) \/ PeerDrains(c)
          PROVE  ConnInv'
      <3>1. "bad" \in Pieces
        BY DEF Pieces
      <3> QED
        BY <2>3, <3>1, SocketSteps
    <2>4. ASSUME NEW c \in Conns, NEW p \in Pieces, PeerSends(c, p)
          PROVE  ConnInv'
      BY <2>4, SocketSteps
    <2> QED
      BY <1>2, <2>1, <2>2, <2>3, <2>4 DEF Environment
  <1>3. CASE UNCHANGED vars
    <2>1. TypeOK' /\ Turn'
      BY <1>3 DEF ConnInv, TypeOK, Turn, vars
    <2>2. SoundAll'
      BY <1>3 DEF ConnInv, SoundAll, Phase, vars
    <2> QED
      BY <2>1, <2>2 DEF ConnInv
  <1> QED
    BY <1>1, <1>2, <1>3 DEF Next

LEMMA Always == Spec => []ConnInv
  BY InitialSound, Preserved, PTL DEF Spec

(* Every variable keeps its type.                                          *)
THEOREM TypeCorrect == Spec => []TypeOK
  <1>1. ConnInv => TypeOK
    BY DEF ConnInv
  <1> QED
    BY <1>1, Always, PTL

(* The callbacks that run hold pointers to objects that exist: a channel   *)
(* reported stays open until its events are handled (channel.cc:12-49).    *)
THEOREM LiveCallbacks == Spec => []HandledAlive
  <1>1. ASSUME ConnInv, NEW c \in Conns, rev[c] # {}
        PROVE  http[c].obj = "open" /\ http[c].chan
    <2>1. Registered(http[c], rev[c])
      BY <1>1 DEF ConnInv, SoundAll, Sound
    <2> QED
      BY <1>1, <2>1 DEF Registered, NoHttp
  <1>2. ConnInv => HandledAlive
    BY <1>1 DEF HandledAlive
  <1> QED
    BY <1>2, Always, PTL

(* What waits with nothing reported is in no callback.                     *)
LEMMA WaitingIdle ==
  ASSUME ConnInv, NEW c \in Conns, Waiting(c)
  PROVE  /\ http[c] \in HttpData /\ sock[c] \in Socket
         /\ Sound(http[c], sock[c], {}, "idle")
  BY DEF ConnInv, TypeOK, SoundAll, Sound, Phased, Waiting

(* A connection that waits has a timer, or its peer has finished           *)
(* (httpdata.cc:171-197).                                                  *)
THEOREM TimersKept == Spec => []TimedUnlessLingering
  <1>1. ConnInv => TimedUnlessLingering
    BY WaitingIdle DEF Sound, Timed, TimedUnlessLingering, Waiting
  <1> QED
    BY <1>1, Always, PTL

(* The edge-triggered epoll instance forgets no input of a peer, however   *)
(* its sends interleave with the reads (httpdata.cc:82-197).               *)
THEOREM InputKept == Spec => []NoInputForgotten
  <1>1. ASSUME ConnInv, NEW c \in Conns, Waiting(c), http[c].chan,
               http[c].conn = "connected", sock[c].rst = "no",
               sock[c].rcv # <<>> \/ sock[c].fin, http[c].last # {"OUT"}
        PROVE  sock[c].ready /\ "IN" \in Reported(c)
    <2>1. Sound(http[c], sock[c], {}, "idle")
      BY <1>1, WaitingIdle
    <2>2. sock[c].armed /\ "IN" \in http[c].last
      BY <1>1, <2>1 DEF Sound, Registered, Masks, KeptArmed
    <2>3. sock[c].ready
      BY <1>1, <2>1, <2>2 DEF Sound, InputDue, Served
    <2> QED
      BY <1>1, <2>2, <2>3 DEF Reported, ReportedOf, Events
  <1>2. ConnInv => NoInputForgotten
    BY <1>1 DEF NoInputForgotten
  <1> QED
    BY <1>2, Always, PTL

(* Nor does it forget the room a peer makes for output that is blocked     *)
(* (httpdata.cc:159-186).                                                  *)
THEOREM OutputKept == Spec => []NoOutputForgotten
  <1>1. ASSUME ConnInv, NEW c \in Conns, Waiting(c), http[c].chan,
               http[c].conn = "connected", sock[c].rst = "no", sock[c].free > 0,
               http[c].out > 0 \/ http[c].last = {"OUT"}
        PROVE  sock[c].ready /\ "OUT" \in Reported(c)
    <2>1. Sound(http[c], sock[c], {}, "idle")
      BY <1>1, WaitingIdle
    <2>2. "OUT" \in http[c].last
      BY <1>1, <2>1 DEF Sound, OutputAsked
    <2>3. sock[c].armed
      BY <1>1, <2>1, <2>2 DEF Sound, KeptArmed
    <2>4. sock[c].ready
      BY <1>1, <2>1, <2>2, <2>3 DEF Sound, OutputDue, Served
    <2> QED
      BY <1>1, <2>2, <2>3, <2>4 DEF Reported, ReportedOf, Events
  <1>2. ConnInv => NoOutputForgotten
    BY <1>1 DEF NoOutputForgotten
  <1> QED
    BY <1>2, Always, PTL

(* Only an error makes handleConn close a connection with output left      *)
(* (httpdata.cc:171-197).                                                  *)
THEOREM OutputFinished == Spec => NoTruncation
  <1>1. ASSUME ConnInv, NEW c \in Conns, Close, cur = c
        PROVE  http[c].err \/ http[c].out = 0
    <2>1. pc = "conn"
      BY <1>1 DEF Close, EndHandling
    <2>2. Sound(http[c], sock[c], rev[c], "conn")
      BY <1>1, <2>1, Current DEF Callbacks
    <2>3. http[c].err \/ "OUT" \notin http[c].ev
      BY <1>1 DEF Close
    <2> QED
      BY <2>2, <2>3 DEF Sound, Phased
  <1>2. ConnInv => (\A c \in Conns : Close /\ cur = c => http[c].err \/ http[c].out = 0)
    BY <1>1
  <1> QED
    BY <1>2, Always, PTL DEF NoTruncation

-----------------------------------------------------------------------------
(* The parser (Parser.tla).  Everything is said of places in the text that *)
(* the client sends: the buffer begins behind the first Gone characters of *)
(* it, the loop is at the place Place, and the grammar says what is there. *)

(* Where the parts of the headers are in the text. *)
KeyAt(j) == sent.headers[j].key
ColonAt(j) == sent.headers[j].colon
EndAt(j) == sent.headers[j].end
Count == Len(sent.headers)
TextEnd == HeadersEnd(sent)

(* How much of the text is no longer in the buffer, and the place in the   *)
(* text of the character that parseHeaders reads next.                     *)
Gone == received - Len(inBuffer_)
Place == Gone + index + 1
LinePlace == Gone + now_read_line_begin + 1

(* The buffer is an end of what has come, for any request and any cut.     *)
ParserShape ==
  /\ sent \in Sendable /\ received \in 0 .. Len(sent.text) /\ lastCut \in Nat
  /\ phase \in {"read", "parse"} /\ state_ \in {"uri", "headers", "error", "done"}
  /\ index \in Nat /\ key_start \in Nat /\ key_end \in Nat
  /\ value_start \in Nat /\ value_end \in Nat /\ now_read_line_begin \in Nat
  /\ safe \in BOOLEAN /\ finish \in BOOLEAN
  /\ inBuffer_ \in Seq(Chars) /\ Len(inBuffer_) <= received
  /\ inBuffer_ = Part(Gone + 1, received)
  /\ phase = "parse" => /\ state_ = "headers"
                        /\ now_read_line_begin <= index /\ index <= Len(inBuffer_)

LineRead ==
  /\ method_ = sent.text[1] /\ version_ = Version
  /\ filename_ = IF Path = <<>> THEN Index ELSE Named(Path)

FineTo(j) == \A k \in 1 .. j : Length(k) <= MaxValue + 1
TakenTo(j) == HeadersSent(j) /\ FineTo(j)

(* Between two reads.  The last alternative of the headers' is the cut     *)
(* that parseHeaders does not bear.                                        *)
Between ==
  \/ /\ state_ = "uri" /\ parse_state_ = "START" /\ TakenTo(0)
     /\ Gone = 0 /\ received < sent.eol
  \/ /\ state_ = "headers" /\ LineRead
     /\ \/ /\ parse_state_ = "START" /\ TakenTo(0)
           /\ Gone = sent.eol /\ received <= sent.eol + 1
        \/ /\ parse_state_ = "KEY" /\ TakenTo(0)
           /\ Gone = KeyAt(1) - 1 /\ received < ColonAt(1)
        \/ /\ parse_state_ = "END_CR" /\ TakenTo(Count)
           /\ Gone = TextEnd - 3 /\ received = TextEnd - 1
        \/ ColonAt(1) <= received /\ received < TextEnd - 1
  \/ state_ = "error" /\ ~FineTo(Count)
  \/ state_ = "done" /\ FineTo(Count) /\ ReadAsSent

(* In parseHeaders: before the first key, in the jth header, behind it, at *)
(* the end of the headers, and there again after a read that ended between *)
(* the last two characters.                                                *)
AtStart ==
  /\ parse_state_ = "START" /\ TakenTo(0) /\ ~finish
  /\ Gone = sent.eol /\ now_read_line_begin = 0
  /\ Place \in sent.eol + 1 .. sent.eol + 2

InHeader(j) ==
  /\ TakenTo(j - 1) /\ ~finish
  /\ LinePlace = IF j = 1 THEN KeyAt(j) ELSE KeyAt(j) - 1
  /\ Gone + key_start + 1 = KeyAt(j)
  /\ \/ parse_state_ = "KEY" /\ Place \in KeyAt(j) .. ColonAt(j)
     \/ /\ Gone + key_end + 1 = ColonAt(j)
        /\ \/ parse_state_ = "COLON" /\ Place = ColonAt(j) + 1
           \/ parse_state_ = "SPACES_AFTER_COLON" /\ Place = ColonAt(j) + 2
           \/ /\ Gone + value_start + 1 = ColonAt(j) + 2
              /\ \/ /\ parse_state_ = "VALUE" /\ Place \in ColonAt(j) + 3 .. EndAt(j)
                    /\ Place <= ColonAt(j) + 3 + MaxValue
                 \/ /\ parse_state_ = "CR" /\ Place = EndAt(j) + 1
                    /\ Gone + value_end + 1 = EndAt(j) /\ Length(j) <= MaxValue + 1

Behind(j) ==
  /\ parse_state_ = "LF" /\ TakenTo(j) /\ ~finish
  /\ Place = EndAt(j) + 2 /\ LinePlace = EndAt(j) + 1

AtEnd ==
  /\ TakenTo(Count)
  /\ \/ parse_state_ = "END_CR" /\ ~finish /\ Place = TextEnd /\ LinePlace = TextEnd - 2
     \/ parse_state_ = "END_LF" /\ Place = IF finish THEN TextEnd + 2 ELSE TextEnd + 1

AtEndAgain ==
  /\ TakenTo(Count) /\ Gone = TextEnd - 3
  /\ \/ parse_state_ = "END_CR" /\ ~finish /\ index = 0
     \/ parse_state_ = "END_LF" /\ index = IF finish THEN 2 ELSE 1

Within ==
  /\ LineRead
  /\ \/ /\ lastCut < ColonAt(1)
        /\ AtStart \/ AtEnd \/ \E j \in Headers : InHeader(j) \/ Behind(j)
     \/ lastCut = TextEnd - 1 /\ received >= TextEnd /\ AtEndAgain

Stage == IF phase = "read" THEN Between ELSE Within

ParserInv == ParserShape /\ (safe /\ Readable => Stage)

-----------------------------------------------------------------------------
(* Least elements, what find returns, and parts of sequences.              *)
LEMMA LeastPlace ==
  ASSUME NEW T \in SUBSET Nat, T # {}
  PROVE  \E m \in T : \A k \in T : m <= k
<1> DEFINE R == OpToRel(<, Nat)
<1>1. IsWellFoundedOn(R, Nat)
  BY NatLessThanWellFounded
<1> HIDE DEF R
<1>2. PICK m \in T : \A k \in T : ~(<<k, m>> \in R)
  BY <1>1, WFMin
<1>3. \A k \in T : ~(k < m)
  BY <1>2 DEF R, OpToRel
<1>4. QED
  BY <1>3

LEMMA FindsFirst ==
  ASSUME NEW S, NEW s \in Seq(S), NEW what, NEW start \in Nat, NEW k \in start .. Len(s),
         s[k] = what, \A p \in start .. k - 1 : s[p] # what
  PROVE  find(s, what, start) = k
<1> DEFINE found == {p \in start .. Len(s) : s[p] = what}
<1>0. Len(s) \in Nat
  OBVIOUS
<1>1. k \in found /\ found \subseteq Int /\ \A p \in found : k <= p
  BY <1>0
<1>2. Min(found) = k
  <2> HIDE DEF found
  <2>1. \A x \in found : (\A y \in found : x <= y) => x = k
    BY <1>1
  <2>2. k \in found /\ \A y \in found : k <= y
    BY <1>1
  <2>3. QED
    BY <2>1, <2>2 DEF Min
<1>3. QED
  BY <1>1, <1>2 DEF find

LEMMA FindsNone ==
  ASSUME NEW S, NEW s \in Seq(S), NEW what, \A p \in 1 .. Len(s) : s[p] # what
  PROVE  find(s, what, 1) = 0
BY DEF find

(* Part of a part. *)
LEMMA SubSeqFacts ==
  ASSUME NEW S, NEW s \in Seq(S), NEW a \in Nat, NEW b \in 0 .. Len(s), a >= 1, a <= b + 1
  PROVE  /\ SubSeq(s, a, b) \in Seq(S) /\ Len(SubSeq(s, a, b)) = b - a + 1
         /\ \A p \in 1 .. b - a + 1 : SubSeq(s, a, b)[p] = s[a + p - 1]
<1>1. \A p \in a .. b : s[p] \in S
  BY ElementOfSeq
<1>2. QED
  BY <1>1, SubSeqProperties

LEMMA PartOfPart ==
  ASSUME NEW S, NEW s \in Seq(S), NEW a \in Nat, NEW b \in 0 .. Len(s), a >= 1, a <= b + 1,
         NEW p \in Nat, NEW q \in Nat, p >= 1, q <= b - a + 1
  PROVE  SubSeq(SubSeq(s, a, b), p, q) = SubSeq(s, a + p - 1, a + q - 1)
<1> DEFINE t == SubSeq(s, a, b)
           u == SubSeq(t, p, q)
           v == SubSeq(s, a + p - 1, a + q - 1)
<1>1. /\ t \in Seq(S) /\ Len(t) = b - a + 1
      /\ \A k \in 1 .. b - a + 1 : t[k] = s[a + k - 1]
  BY SubSeqFacts
<1>2. \A k \in p .. q : k \in 1 .. b - a + 1
  OBVIOUS
<1>3. \A k \in 1 .. b - a + 1 : t[k] \in S
  BY <1>1, ElementOfSeq
<1>4. /\ u \in Seq(S) /\ Len(u) = IF p <= q THEN q - p + 1 ELSE 0
      /\ \A k \in 1 .. q - p + 1 : u[k] = t[p + k - 1]
  <2> HIDE DEF t
  <2>1. \A k \in p .. q : t[k] \in S
    BY <1>2, <1>3
  <2>2. QED
    BY <2>1, SubSeqProperties
<1>5. \A k \in a + p - 1 .. a + q - 1 : k \in 1 .. Len(s)
  OBVIOUS
<1>6. \A k \in a + p - 1 .. a + q - 1 : s[k] \in S
  BY <1>5, ElementOfSeq
<1>7. /\ v \in Seq(S) /\ Len(v) = IF p <= q THEN q - p + 1 ELSE 0
      /\ \A k \in 1 .. q - p + 1 : v[k] = s[a + p + k - 2]
  BY <1>6, SubSeqProperties
<1>8. \A k \in 1 .. q - p + 1 : t[p + k - 1] = s[a + p + k - 2]
  <2> HIDE DEF t
  <2>1. SUFFICES ASSUME NEW k \in 1 .. q - p + 1
                 PROVE  t[p + k - 1] = s[a + p + k - 2]
    OBVIOUS
  <2>2. p + k - 1 \in 1 .. b - a + 1 /\ a + (p + k - 1) - 1 = a + p + k - 2
    OBVIOUS
  <2>3. QED
    BY <1>1, <2>2
<1>9. QED
  <2> HIDE DEF t, u, v
  <2>0. Len(u) = Len(v) /\ 1 .. Len(u) \subseteq 1 .. q - p + 1
    BY <1>4, <1>7
  <2>1. \A k \in 1 .. Len(u) : u[k] = v[k]
    <3> SUFFICES ASSUME NEW k \in 1 .. q - p + 1 PROVE u[k] = v[k]
      BY <2>0
    <3>1. u[k] = t[p + k - 1] /\ v[k] = s[a + p + k - 2] /\ t[p + k - 1] = s[a + p + k - 2]
      BY <1>4, <1>7, <1>8
    <3>2. QED
      BY <3>1
  <2>2. u = v
    BY <2>0, <2>1, <1>4, <1>7, SeqEqual
  <2>3. QED
    BY <2>2 DEF u, v, t

-----------------------------------------------------------------------------
(* The grammar.                                                            *)
LEMMA LineGrammar ==
  ASSUME sent \in Sendable
  PROVE  LET text == sent.text IN
         /\ text \in Seq(Chars) /\ sent.space \in Nat /\ sent.eol \in Nat
         /\ text[2] = " " /\ text[3] = "/"
         /\ sent.space >= 4 /\ \A p \in 4 .. sent.space - 1 : text[p] # " "
         /\ text[sent.space] = " " /\ text[sent.space + 1] = "HTTP"
         /\ text[sent.space + 2] = "/" /\ sent.eol >= sent.space + 3
         /\ \A p \in 1 .. sent.eol - 1 : text[p] # CR
         /\ text[sent.eol] = CR /\ text[sent.eol + 1] = LF
BY RequestsAssumption DEF IsRequest

LEMMA HeaderGrammar ==
  ASSUME sent \in Sendable, NEW j \in Headers
  PROVE  LET text == sent.text IN
         /\ KeyAt(j) \in Nat /\ ColonAt(j) \in Nat /\ EndAt(j) \in Nat
         /\ KeyAt(j) = IF j = 1 THEN sent.eol + 2 ELSE EndAt(j - 1) + 2
         /\ KeyAt(j) < ColonAt(j) /\ ColonAt(j) + 2 <= EndAt(j)
         /\ \A p \in KeyAt(j) .. ColonAt(j) - 1 : text[p] \notin {":", CR, LF}
         /\ text[ColonAt(j)] = ":" /\ text[ColonAt(j) + 1] = " "
         /\ \A p \in ColonAt(j) + 2 .. EndAt(j) - 1 : text[p] # CR
         /\ text[EndAt(j)] = CR /\ text[EndAt(j) + 1] = LF
<1>1. IsRequest(sent)
  BY RequestsAssumption
<1>2. /\ sent.headers \in Seq([key : Nat, colon : Nat, end : Nat])
      /\ sent.headers[j].key = LineBefore(sent, j) + 2 /\ HeaderAt(sent.text, sent.headers[j])
  BY <1>1 DEF IsRequest, Headers
<1>3. sent.headers[j] \in [key : Nat, colon : Nat, end : Nat]
  BY <1>2, ElementOfSeq DEF Headers
<1>4. LineBefore(sent, j) = IF j = 1 THEN sent.eol ELSE EndAt(j - 1)
  BY DEF LineBefore, EndAt
<1>5. QED
  BY <1>2, <1>3, <1>4 DEF KeyAt, ColonAt, EndAt, HeaderAt

LEMMA EndGrammar ==
  ASSUME sent \in Sendable, sent.headers # <<>>
  PROVE  /\ Count \in Nat /\ Count >= 1 /\ Headers = 1 .. Count
         /\ TextEnd = EndAt(Count) + 3 /\ TextEnd \in Nat
         /\ sent.text[TextEnd - 1] = CR /\ sent.text[TextEnd] = LF
         /\ TextEnd <= Len(sent.text)
<1>1. /\ sent.headers \in Seq([key : Nat, colon : Nat, end : Nat])
      /\ sent.text[TextEnd - 1] = CR /\ sent.text[TextEnd] = LF /\ TextEnd <= Len(sent.text)
  BY RequestsAssumption DEF IsRequest, TextEnd
<1>2. Count \in Nat /\ Count >= 1 /\ Headers = 1 .. Count
  BY <1>1, EmptySeq, LenProperties DEF Count, Headers
<1>3. TextEnd = EndAt(Count) + 3
  BY <1>2 DEF TextEnd, HeadersEnd, LineBefore, EndAt, Count
<1>4. EndAt(Count) \in Nat
  <2>1. Count \in Headers
    BY <1>2
  <2>2. QED
    BY <2>1, HeaderGrammar
<1>5. QED
  BY <1>1, <1>2, <1>3, <1>4

(* The headers come one after another. *)
LEMMA InOrder ==
  ASSUME sent \in Sendable, sent.headers # <<>>, NEW j \in Headers
  PROVE  ColonAt(1) <= ColonAt(j) /\ EndAt(j) + 3 <= TextEnd
<1>1. /\ Count \in Nat /\ Count >= 1 /\ Headers = 1 .. Count
      /\ TextEnd = EndAt(Count) + 3
  BY EndGrammar
<1>2. \A k \in Headers : /\ KeyAt(k) \in Nat /\ ColonAt(k) \in Nat /\ EndAt(k) \in Nat
                         /\ KeyAt(k) < ColonAt(k) /\ ColonAt(k) + 2 <= EndAt(k)
                         /\ k # 1 => KeyAt(k) = EndAt(k - 1) + 2
  BY HeaderGrammar
<1>3. ColonAt(1) <= ColonAt(j)
  <2> DEFINE T == {k \in Headers : ~(ColonAt(1) <= ColonAt(k))}
  <2>1. SUFFICES ASSUME T # {} PROVE FALSE
    OBVIOUS
  <2>2. PICK m \in T : \A k \in T : m <= k
    <3>1. T \in SUBSET Nat
      BY <1>1
    <3> HIDE DEF T
    <3>2. QED
      BY <2>1, <3>1, LeastPlace
  <2>3. m \in Headers /\ m # 1 /\ m - 1 \in Headers /\ 1 \in Headers
    <3>1. m \in Headers /\ ~(ColonAt(1) <= ColonAt(m))
      OBVIOUS
    <3>2. 1 \in Headers
      BY <1>1
    <3>3. m # 1
      BY <1>2, <3>1, <3>2
    <3>4. QED
      BY <1>1, <3>1, <3>2, <3>3
  <2>4. m - 1 \notin T
    BY <1>1, <2>2, <2>3
  <2>5. ColonAt(1) <= ColonAt(m - 1)
    BY <2>3, <2>4
  <2>6. ColonAt(m - 1) <= ColonAt(m)
    <3>1. /\ EndAt(m - 1) \in Nat /\ ColonAt(m - 1) \in Nat
          /\ ColonAt(m - 1) + 2 <= EndAt(m - 1)
      BY <1>2, <2>3
    <3>2. /\ KeyAt(m) \in Nat /\ ColonAt(m) \in Nat
          /\ KeyAt(m) < ColonAt(m) /\ KeyAt(m) = EndAt(m - 1) + 2
      BY <1>2, <2>3
    <3>3. QED
      BY <3>1, <3>2
  <2>7. ColonAt(1) <= ColonAt(m)
    BY <1>2, <2>3, <2>5, <2>6
  <2>8. QED
    BY <2>2, <2>7
<1>4. EndAt(j) <= EndAt(Count)
  <2> DEFINE T == {k \in 0 .. Count - 1 : ~(EndAt(Count - k) <= EndAt(Count))}
  <2>1. SUFFICES ASSUME T # {} PROVE FALSE
    <3>1. Count - j \in 0 .. Count - 1 /\ Count - (Count - j) = j
      BY <1>1
    <3>2. Count - j \notin T
      OBVIOUS
    <3>3. QED
      BY <3>1, <3>2
  <2>2. PICK m \in T : \A k \in T : m <= k
    <3>1. T \in SUBSET Nat
      BY <1>1
    <3> HIDE DEF T
    <3>2. QED
      BY <2>1, <3>1, LeastPlace
  <2>3. /\ m \in 1 .. Count - 1 /\ Count - (m - 1) = (Count - m) + 1
        /\ Count - m \in Headers /\ (Count - m) + 1 \in Headers /\ Count \in Headers
    <3>1. Count - 0 = Count /\ Count \in Headers
      BY <1>1
    <3>2. m # 0
      BY <1>1, <1>2, <2>2, <3>1
    <3>3. QED
      BY <1>1, <3>1, <3>2
  <2>4. m - 1 \notin T
    BY <2>2, <2>3
  <2>5. EndAt((Count - m) + 1) <= EndAt(Count)
    <3>1. m - 1 \in 0 .. Count - 1
      BY <1>1, <2>3
    <3>2. EndAt(Count - (m - 1)) <= EndAt(Count)
      BY <2>4, <3>1
    <3>3. QED
      BY <2>3, <3>2, Zenon
  <2>6. EndAt(Count - m) <= EndAt((Count - m) + 1)
    <3> DEFINE k == (Count - m) + 1
    <3>1. k \in Headers /\ k # 1 /\ k - 1 = Count - m
      BY <1>1, <2>3
    <3>2. KeyAt(k) = EndAt(Count - m) + 2
      <4> HIDE DEF k
      <4>1. KeyAt(k) = EndAt(k - 1) + 2
        BY <1>2, <3>1
      <4>2. QED
        BY <3>1, <4>1
    <3>3. EndAt(Count - m) <= EndAt(k)
      <4> HIDE DEF k
      <4>1. EndAt(Count - m) \in Nat
        BY <1>2, <2>3
      <4>2. /\ KeyAt(k) \in Nat /\ ColonAt(k) \in Nat /\ EndAt(k) \in Nat
            /\ KeyAt(k) < ColonAt(k) /\ ColonAt(k) + 2 <= EndAt(k)
        BY <1>2, <3>1
      <4>3. QED
        BY <3>2, <4>1, <4>2
    <3>4. QED
      BY <3>3
  <2>7. EndAt(Count - m) <= EndAt(Count)
    BY <1>2, <2>3, <2>5, <2>6
  <2>8. QED
    BY <2>2, <2>7
<1>5. EndAt(j) + 3 <= TextEnd
  <2>1. EndAt(j) \in Nat /\ EndAt(Count) \in Nat
    BY <1>1, <1>2
  <2>2. QED
    BY <1>1, <1>4, <2>1
<1>6. QED
  BY <1>3, <1>5

-----------------------------------------------------------------------------
(* The buffer.                                                             *)
LEMMA FindRange ==
  ASSUME NEW S, NEW s \in Seq(S), NEW what
  PROVE  find(s, what, 1) \in 0 .. Len(s)
<1> DEFINE found == {p \in 1 .. Len(s) : s[p] = what}
<1>1. found \in SUBSET Nat /\ \A p \in found : p \in 0 .. Len(s)
  OBVIOUS
<1>2. found # {} => Min(found) \in found
  <2> HIDE DEF found
  <2>1. found # {} => \E m \in found : \A k \in found : m <= k
    BY <1>1, LeastPlace
  <2>2. QED
    BY <2>1 DEF Min
<1>3. QED
  BY <1>1, <1>2 DEF find

LEMMA CutAt ==
  ASSUME NEW S, NEW s \in Seq(S), NEW a \in Nat, NEW b \in 0 .. Len(s), a >= 1, a <= b + 1,
         NEW p \in 1 .. b - a + 2
  PROVE  /\ from(SubSeq(s, a, b), p) = SubSeq(s, a + p - 1, b)
         /\ from(SubSeq(s, a, b), p) \in Seq(S)
         /\ Len(from(SubSeq(s, a, b), p)) = b - a - p + 2
<1>1. Len(SubSeq(s, a, b)) = b - a + 1
  BY SubSeqFacts
<1>2. from(SubSeq(s, a, b), p) = SubSeq(SubSeq(s, a, b), p, b - a + 1)
  BY <1>1 DEF from
<1>3. SubSeq(SubSeq(s, a, b), p, b - a + 1) = SubSeq(s, a + p - 1, a + (b - a + 1) - 1)
  BY PartOfPart
<1>4. a + (b - a + 1) - 1 = b /\ a + p - 1 \in Nat /\ a + p - 1 >= 1 /\ a + p - 1 <= b + 1
      /\ b - (a + p - 1) + 1 = b - a - p + 2
  OBVIOUS
<1>5. SubSeq(s, a + p - 1, b) \in Seq(S) /\ Len(SubSeq(s, a + p - 1, b)) = b - a - p + 2
  BY <1>4, SubSeqFacts
<1>6. QED
  BY <1>2, <1>3, <1>4, <1>5

LEMMA TextTyped ==
  ASSUME sent \in Sendable
  PROVE  sent.text \in Seq(Chars) /\ Len(sent.text) \in Nat
<1>1. sent.text \in Seq(Chars)
  BY LineGrammar
<1>2. QED
  BY <1>1, LenProperties

LEMMA BufferTyped ==
  ASSUME ParserShape
  PROVE  /\ sent \in Sendable /\ sent.text \in Seq(Chars) /\ Len(sent.text) \in Nat
         /\ received \in Nat /\ received <= Len(sent.text)
         /\ inBuffer_ \in Seq(Chars) /\ Len(inBuffer_) \in Nat
         /\ Gone \in Nat /\ Len(inBuffer_) = received - Gone
         /\ inBuffer_ = SubSeq(sent.text, Gone + 1, received)
<1>1. /\ sent \in Sendable /\ received \in 0 .. Len(sent.text)
      /\ inBuffer_ \in Seq(Chars) /\ Len(inBuffer_) <= received
      /\ inBuffer_ = Part(Gone + 1, received)
  BY DEF ParserShape
<1>2. sent.text \in Seq(Chars) /\ Len(sent.text) \in Nat
  BY <1>1, TextTyped
<1>3. Len(inBuffer_) \in Nat
  BY <1>1, LenProperties
<1>4. Gone \in Nat /\ Len(inBuffer_) = received - Gone
  BY <1>1, <1>2, <1>3 DEF Gone
<1>5. QED
  BY <1>1, <1>2, <1>3, <1>4 DEF Part

LEMMA Received ==
  ASSUME ParserShape, NEW n \in Nat, received + n <= Len(sent.text)
  PROVE  LET buffer == inBuffer_ \o SubSeq(sent.text, received + 1, received + n) IN
         /\ buffer = Part(Gone + 1, received + n) /\ buffer \in Seq(Chars)
         /\ Len(buffer) = Len(inBuffer_) + n
         /\ Gone \in Nat /\ received + n \in 0 .. Len(sent.text)
<1> DEFINE more == SubSeq(sent.text, received + 1, received + n)
<1>1. /\ sent.text \in Seq(Chars) /\ Len(sent.text) \in Nat
      /\ received \in Nat /\ received <= Len(sent.text)
      /\ inBuffer_ \in Seq(Chars) /\ Len(inBuffer_) \in Nat
      /\ Gone \in Nat /\ Len(inBuffer_) = received - Gone
      /\ inBuffer_ = SubSeq(sent.text, Gone + 1, received)
  BY BufferTyped
<1>2. Gone <= received
  BY <1>1
<1>3. /\ Gone + 1 \in 1 .. Len(sent.text) + 1 /\ received \in Gone + 1 - 1 .. Len(sent.text)
      /\ received + n \in received .. Len(sent.text)
  BY <1>1, <1>2
<1>4. inBuffer_ \o SubSeq(sent.text, received + 1, received + n)
        = SubSeq(sent.text, Gone + 1, received + n)
  BY <1>1, <1>3, ConcatAdjacentSubSeq
<1>5. /\ SubSeq(sent.text, Gone + 1, received + n) \in Seq(Chars)
      /\ Len(SubSeq(sent.text, Gone + 1, received + n)) = received + n - (Gone + 1) + 1
  BY <1>1, <1>2, <1>3, SubSeqFacts
<1>6. QED
  BY <1>1, <1>2, <1>3, <1>4, <1>5 DEF Part

LEMMA ShapeInitial == ParserInit => ParserShape
<1> SUFFICES ASSUME ParserInit PROVE ParserShape
  OBVIOUS
<1>1. sent.text \in Seq(Chars) /\ Len(sent.text) \in Nat
  BY TextTyped DEF ParserInit
<1>2. inBuffer_ = Part(Gone + 1, received) /\ Len(inBuffer_) = 0
  <2>1. SubSeq(sent.text, 1, 0) = <<>>
    BY SubSeqEmpty
  <2>0. received = 0 /\ inBuffer_ = <<>> /\ Len(<<>>) = 0
    BY DEF ParserInit
  <2>a. Len(inBuffer_) = 0
    BY <2>0
  <2>b. received = 0
    BY <2>0
  <2>c. Gone = 0
    BY <2>a, <2>b DEF Gone
  <2>2. Part(Gone + 1, received) = SubSeq(sent.text, 1, 0)
    BY <2>b, <2>c DEF Part
  <2>3. QED
    BY <2>0, <2>1, <2>2, <2>a
<1>3. inBuffer_ \in Seq(Chars)
  BY DEF ParserInit
<1>4. /\ sent \in Sendable /\ received = 0 /\ lastCut = 0 /\ safe = TRUE /\ finish = FALSE
      /\ phase = "read" /\ state_ = "uri" /\ index = 0 /\ key_start = 0 /\ key_end = 0
      /\ value_start = 0 /\ value_end = 0 /\ now_read_line_begin = 0
  BY DEF ParserInit
<1>5. /\ received \in 0 .. Len(sent.text) /\ lastCut \in Nat /\ index \in Nat
      /\ key_start \in Nat /\ key_end \in Nat /\ value_start \in Nat /\ value_end \in Nat
      /\ now_read_line_begin \in Nat /\ Len(inBuffer_) <= received
  BY <1>1, <1>2, <1>4
<1>6. safe \in BOOLEAN /\ finish \in BOOLEAN /\ phase # "parse"
  BY <1>4
<1>7. QED
  BY <1>2, <1>3, <1>4, <1>5, <1>6, Zenon DEF ParserShape

LEMMA ShapeCharacter ==
  ASSUME ParserShape, NEW state, Loop(state), UNCHANGED finish \/ finish' = TRUE,
         key_start' \in {key_start, index}, key_end' \in {key_end, index},
         value_start' \in {value_start, index}, value_end' \in {value_end, index},
         now_read_line_begin' \in {now_read_line_begin, index}, Stay \/ Fail
  PROVE  ParserShape'
<1>1. /\ UNCHANGED <<sent, received, lastCut, safe, inBuffer_>> /\ phase = "parse"
      /\ index' = index + 1 /\ index < Len(inBuffer_)
  BY DEF Loop, client
<1>2. /\ phase' \in {"read", "parse"} /\ state_' \in {"headers", "error"}
      /\ phase' = "parse" => state_' = "headers"
  BY <1>1 DEF Stay, Fail, ParserShape
<1>3. Gone' = Gone /\ Part(Gone + 1, received)' = Part(Gone + 1, received)
  BY <1>1 DEF Gone, Part
<1>4. Len(inBuffer_) \in Nat /\ finish' \in BOOLEAN
  BY BufferTyped DEF ParserShape
<1>5. QED
  BY <1>1, <1>2, <1>3, <1>4 DEF ParserShape

LEMMA ShapeRead ==
  ASSUME ParserShape, NEW n \in 1 .. Len(sent.text), HandleRead(n)
  PROVE  ParserShape'
<1> DEFINE buffer == inBuffer_ \o SubSeq(sent.text, received + 1, received + n)
<1>0. /\ received + n <= Len(sent.text) /\ received' = received + n /\ sent' = sent
      /\ lastCut' = received /\ safe' = (safe /\ SafeCut(received))
      /\ index' = 0 /\ key_start' = 0 /\ key_end' = 0 /\ value_start' = 0 /\ value_end' = 0
      /\ now_read_line_begin' = 0 /\ finish' = FALSE
  BY DEF HandleRead, StartLoop
<1>1. /\ buffer = Part(Gone + 1, received + n) /\ buffer \in Seq(Chars)
      /\ Len(buffer) = Len(inBuffer_) + n /\ Len(buffer) \in Nat
      /\ Gone \in Nat /\ received + n \in 0 .. Len(sent.text)
      /\ received \in Nat /\ Gone = received - Len(inBuffer_) /\ Len(inBuffer_) \in Nat
  <2>1. n \in Nat
    OBVIOUS
  <2>2. /\ buffer = Part(Gone + 1, received + n) /\ buffer \in Seq(Chars)
        /\ Len(buffer) = Len(inBuffer_) + n
        /\ Gone \in Nat /\ received + n \in 0 .. Len(sent.text)
    BY <1>0, <2>1, Received
  <2>3. /\ received \in Nat /\ Len(inBuffer_) \in Nat /\ Len(inBuffer_) = received - Gone
        /\ Gone \in Nat
    BY BufferTyped
  <2>4. QED
    <3> HIDE DEF buffer
    <3>1. QED
      BY <2>1, <2>2, <2>3
<1>2. sent.text \in Seq(Chars) /\ sent \in Sendable
  BY BufferTyped
<1>3. /\ phase' \in {"read", "parse"} /\ state_' \in {"uri", "headers", "error", "done"}
      /\ phase' = "parse" => state_' = "headers"
      /\ \/ inBuffer_' = buffer \/ inBuffer_' = <<>>
         \/ \E k \in 1 .. Len(buffer) : inBuffer_' = from(buffer, k + 1)
  <2>1. CASE state_ = "uri" /\ TakeLine(buffer)
    <3>1. CASE find(buffer, CR, 1) = 0
      BY <2>1, <3>1 DEF TakeLine, HandleRead
    <3>2. CASE find(buffer, CR, 1) # 0
      <4>1. find(buffer, CR, 1) \in 1 .. Len(buffer)
        <5> HIDE DEF buffer
        <5>1. QED
          BY <1>1, <3>2, FindRange
      <4>2. state_' \in {"error", "headers"}
        BY <2>1, <3>2 DEF TakeLine, ParseLine
      <4>3. QED
        BY <2>1, <3>2, <4>1, <4>2 DEF TakeLine
    <3>3. QED
      BY <3>1, <3>2
  <2>2. CASE state_ = "headers" /\ inBuffer_' = buffer /\ phase' = "parse" /\ UNCHANGED state_
    BY <2>2
  <2>3. QED
    BY <2>1, <2>2 DEF HandleRead
<1>4. /\ inBuffer_' \in Seq(Chars) /\ Len(inBuffer_') <= received + n
      /\ Len(inBuffer_') \in Nat
      /\ inBuffer_' = SubSeq(sent.text, received + n - Len(inBuffer_') + 1, received + n)
  <2>1. CASE inBuffer_' = buffer
    <3>1. Len(inBuffer_') \in Nat /\ received + n - Len(inBuffer_') = Gone
      BY <1>1, <2>1 DEF ParserShape
    <3>2. inBuffer_' = SubSeq(sent.text, Gone + 1, received + n)
      BY <1>1, <2>1 DEF Part
    <3>3. inBuffer_' \in Seq(Chars) /\ Len(inBuffer_') <= received + n
      <4> HIDE DEF buffer
      <4>1. QED
        BY <1>1, <2>1
    <3>4. QED
      BY <3>1, <3>2, <3>3
  <2>2. CASE inBuffer_' = <<>>
    <3>1. SubSeq(sent.text, received + n - 0 + 1, received + n) = <<>>
      BY <1>1, SubSeqEmpty
    <3>2. QED
      BY <1>1, <2>2, <3>1
  <2>3. ASSUME NEW k \in 1 .. Len(buffer), inBuffer_' = from(buffer, k + 1)
        PROVE  /\ inBuffer_' \in Seq(Chars) /\ Len(inBuffer_') <= received + n
               /\ Len(inBuffer_') \in Nat
               /\ inBuffer_' = SubSeq(sent.text, received + n - Len(inBuffer_') + 1,
                                      received + n)
    <3> HIDE DEF buffer
    <3>1. /\ Gone + 1 \in Nat /\ Gone + 1 >= 1 /\ Gone + 1 <= received + n + 1
          /\ k + 1 \in 1 .. (received + n) - (Gone + 1) + 2
      BY <1>1
    <3> DEFINE text == sent.text
               a == Gone + 1
               b == received + n
               p == k + 1
    <3>2. /\ inBuffer_' = SubSeq(sent.text, a + p - 1, b)
          /\ inBuffer_' \in Seq(Chars) /\ Len(inBuffer_') = b - a - p + 2
      <4>1. text \in Seq(Chars) /\ a \in Nat /\ b \in 0 .. Len(text) /\ a >= 1 /\ a <= b + 1
            /\ p \in 1 .. b - a + 2 /\ buffer = SubSeq(text, a, b) /\ inBuffer_' = from(buffer, p)
        BY <1>1, <1>2, <2>3, <3>1 DEF Part
      <4> HIDE DEF text, a, b, p
      <4>2. /\ from(SubSeq(text, a, b), p) = SubSeq(text, a + p - 1, b)
            /\ from(SubSeq(text, a, b), p) \in Seq(Chars)
            /\ Len(from(SubSeq(text, a, b), p)) = b - a - p + 2
        BY <4>1, CutAt
      <4>3. QED
        BY <4>1, <4>2 DEF text
    <3>3. received + n - Len(inBuffer_') + 1 = a + p - 1
      <4>1. Len(inBuffer_') = b - a - p + 2 /\ a \in Nat /\ p \in Nat
        BY <1>1, <3>2
      <4> HIDE DEF a, p
      <4>2. QED
        BY <1>1, <4>1
    <3>4. Len(inBuffer_') <= received + n /\ Len(inBuffer_') \in Nat
      BY <1>1, <3>2
    <3>5. QED
      BY <3>2, <3>3, <3>4
  <2>4. QED
    BY <1>3, <2>1, <2>2, <2>3
<1>5. inBuffer_' = Part(Gone + 1, received)'
  <2>1. Part(Gone + 1, received)'
          = SubSeq(sent.text, received + n - Len(inBuffer_') + 1, received + n)
    <3>1. received' = received + n /\ sent' = sent
      BY <1>0
    <3>2. Part(Gone + 1, received)' = SubSeq(sent'.text, (received' - Len(inBuffer_')) + 1, received')
      BY DEF Part, Gone
    <3>3. sent'.text = sent.text
      BY <3>1
    <3> DEFINE t2 == sent'.text
               r2 == received'
               b2 == Len(inBuffer_')
    <3>4. SubSeq(t2, r2 - b2 + 1, r2) = SubSeq(sent.text, received + n - b2 + 1, received + n)
      <4>1. /\ t2 = sent.text /\ r2 = received + n
            /\ received \in Nat /\ n \in Nat /\ b2 \in Nat
        BY <1>1, <1>4, <3>1, <3>3
      <4> HIDE DEF t2, r2, b2
      <4>2. QED
        BY <4>1
    <3>5. QED
      BY <3>2, <3>4
  <2>2. QED
    BY <1>4, <2>1
<1>6. QED
  <2> HIDE DEF buffer
  <2>1. safe' \in BOOLEAN /\ received \in Nat
    BY <1>0 DEF ParserShape
  <2>2. received' \in 0 .. Len(sent'.text) /\ sent' \in Sendable /\ lastCut' \in Nat
    BY <1>0, <1>1, <1>2, <2>1
  <2>3. Len(inBuffer_') <= received' /\ inBuffer_' \in Seq(Chars) /\ Len(inBuffer_') \in Nat
    BY <1>0, <1>4
  <2>4. /\ index' \in Nat /\ key_start' \in Nat /\ key_end' \in Nat /\ value_start' \in Nat
        /\ value_end' \in Nat /\ now_read_line_begin' \in Nat /\ finish' \in BOOLEAN
        /\ now_read_line_begin' <= index' /\ index' <= Len(inBuffer_')
    <3>1. /\ index' = 0 /\ key_start' = 0 /\ key_end' = 0 /\ value_start' = 0
          /\ value_end' = 0 /\ now_read_line_begin' = 0 /\ finish' = FALSE
      BY <1>0
    <3>2. Len(inBuffer_') \in Nat
      BY <2>3
    <3>3. finish' \in BOOLEAN
      BY <3>1, Zenon
    <3>4. QED
      BY <3>1, <3>2, <3>3
  <2>5. QED
    BY <1>3, <1>5, <2>1, <2>2, <2>3, <2>4, Zenon DEF ParserShape

LEMMA ShapeReturn ==
  ASSUME ParserShape, Return
  PROVE  /\ ParserShape' /\ UNCHANGED <<client, request, headers_, parse_state_>>
         /\ parse_state_ # "END_LF" => state_' = state_ /\ Gone' = Gone + now_read_line_begin
         /\ parse_state_ = "END_LF" => /\ state_' = "done"
                                       /\ inBuffer_' = Part(Place, received)
         /\ finish \/ Place = received + 1
<1> DEFINE k == IF parse_state_ = "END_LF" THEN index ELSE now_read_line_begin
<1>1. /\ UNCHANGED <<client, request, headers_, parse_state_>>
      /\ phase = "parse" /\ phase' = "read" /\ state_' \in {"headers", "done"}
      /\ inBuffer_' = from(inBuffer_, k + 1)
      /\ IF parse_state_ = "END_LF" THEN state_' = "done" ELSE state_' = state_
      /\ index >= Len(inBuffer_) \/ finish
      /\ UNCHANGED <<index, key_start, key_end, value_start, value_end, now_read_line_begin, finish>>
  BY DEF Return, locals, ParserShape
<1>2. /\ sent.text \in Seq(Chars) /\ Len(sent.text) \in Nat
      /\ received \in Nat /\ received <= Len(sent.text)
      /\ Len(inBuffer_) \in Nat /\ Gone \in Nat /\ Len(inBuffer_) = received - Gone
      /\ inBuffer_ = SubSeq(sent.text, Gone + 1, received)
  BY BufferTyped
<1>3. /\ index \in Nat /\ now_read_line_begin \in Nat
      /\ now_read_line_begin <= index /\ index <= Len(inBuffer_)
  BY <1>1 DEF ParserShape
<1>4. k \in Nat /\ k <= Len(inBuffer_)
  BY <1>2, <1>3
<1>5. /\ inBuffer_' = SubSeq(sent.text, Gone + k + 1, received)
      /\ inBuffer_' \in Seq(Chars) /\ Len(inBuffer_') = received - (Gone + k)
  <2> DEFINE a == Gone + 1
             p == k + 1
             b == received
             text == sent.text
  <2>1. /\ text \in Seq(Chars) /\ b \in 0 .. Len(text) /\ a <= b + 1
        /\ a \in Nat /\ a >= 1 /\ p \in 1 .. b - a + 2
    <3> HIDE DEF k
    <3>1. QED
      BY <1>2, <1>4
  <2>2. inBuffer_' = from(SubSeq(text, a, b), p)
    BY <1>1, <1>2
  <2>3. a + p - 1 = Gone + k + 1 /\ b - a - p + 2 = received - (Gone + k)
    <3> HIDE DEF k
    <3>1. QED
      BY <1>2, <1>4
  <2> HIDE DEF a, b, p, k, text
  <2>4. /\ from(SubSeq(text, a, b), p) = SubSeq(text, a + p - 1, b)
        /\ from(SubSeq(text, a, b), p) \in Seq(Chars)
        /\ Len(from(SubSeq(text, a, b), p)) = b - a - p + 2
    BY <2>1, CutAt
  <2>5. QED
    BY <2>2, <2>3, <2>4 DEF text, b
<1>6. sent' = sent /\ received' = received /\ lastCut' = lastCut /\ safe' = safe
  BY <1>1 DEF client
<1>7. Gone' = Gone + k /\ Len(inBuffer_') <= received
  <2> HIDE DEF k
  <2>1. Gone' = received' - Len(inBuffer_')
    BY DEF Gone
  <2>2. QED
    BY <1>2, <1>4, <1>5, <1>6, <2>1
<1>8. inBuffer_' = Part(Gone + 1, received)'
  <2>1. Part(Gone + 1, received)' = SubSeq(sent'.text, Gone' + 1, received')
    BY DEF Part
  <2>2. Gone' + 1 = Gone + k + 1
    <3> HIDE DEF k
    <3>1. QED
      BY <1>2, <1>4, <1>7
  <2>3. QED
    BY <1>5, <1>6, <2>1, <2>2
<1>9. ParserShape'
  BY <1>1, <1>5, <1>6, <1>7, <1>8 DEF ParserShape
<1>10. parse_state_ = "END_LF" => inBuffer_' = Part(Place, received)
  BY <1>5 DEF Part, Place
<1>11. finish \/ Place = received + 1
  <2>1. CASE finish
    BY <2>1
  <2>2. CASE index >= Len(inBuffer_)
    <3>1. Place = received + 1
      BY <1>2, <1>3, <2>2 DEF Place
    <3>2. QED
      BY <3>1
  <2>3. QED
    BY <1>1, <2>1, <2>2
<1>12. QED
  BY <1>1, <1>7, <1>9, <1>10, <1>11

LEMMA ShapeLoop ==
  ASSUME ParserShape, HeaderLoop
  PROVE  ParserShape'
<1>1. CASE OnStart
  <2>1. /\ Loop("START") /\ UNCHANGED finish /\ key_start' \in {key_start, index}
        /\ key_end' = key_end /\ value_start' = value_start /\ value_end' = value_end
        /\ now_read_line_begin' \in {now_read_line_begin, index} /\ Stay
    BY <1>1 DEF OnStart, To
  <2>2. QED
    BY <2>1, ShapeCharacter
<1>2. CASE OnKey
  <2>1. /\ Loop("KEY") /\ UNCHANGED finish /\ key_start' = key_start
        /\ key_end' \in {key_end, index} /\ value_start' = value_start /\ value_end' = value_end
        /\ now_read_line_begin' = now_read_line_begin /\ (Stay \/ Fail)
    BY <1>2 DEF OnKey, To
  <2>2. QED
    BY <2>1, ShapeCharacter
<1>3. CASE OnColon
  <2>1. /\ Loop("COLON") /\ UNCHANGED finish /\ key_start' = key_start
        /\ key_end' = key_end /\ value_start' = value_start /\ value_end' = value_end
        /\ now_read_line_begin' = now_read_line_begin /\ (Stay \/ Fail)
    BY <1>3 DEF OnColon, To
  <2>2. QED
    BY <2>1, ShapeCharacter
<1>4. CASE OnSpaces
  <2>1. /\ Loop("SPACES_AFTER_COLON") /\ UNCHANGED finish /\ key_start' = key_start
        /\ key_end' = key_end /\ value_start' = index /\ value_end' = value_end
        /\ now_read_line_begin' = now_read_line_begin /\ Stay
    BY <1>4 DEF OnSpaces, To
  <2>2. QED
    BY <2>1, ShapeCharacter
<1>5. CASE OnValue
  <2>1. /\ Loop("VALUE") /\ UNCHANGED finish /\ key_start' = key_start
        /\ key_end' = key_end /\ value_start' = value_start /\ value_end' \in {value_end, index}
        /\ now_read_line_begin' = now_read_line_begin /\ (Stay \/ Fail)
    BY <1>5 DEF OnValue
  <2>2. QED
    BY <2>1, ShapeCharacter
<1>6. CASE OnCR
  <2>1. /\ Loop("CR") /\ UNCHANGED finish /\ key_start' = key_start
        /\ key_end' = key_end /\ value_start' = value_start /\ value_end' = value_end
        /\ now_read_line_begin' \in {now_read_line_begin, index} /\ (Stay \/ Fail)
    BY <1>6 DEF OnCR, To
  <2>2. QED
    BY <2>1, ShapeCharacter
<1>7. CASE OnLF
  <2>1. /\ Loop("LF") /\ UNCHANGED finish /\ key_start' \in {key_start, index}
        /\ key_end' = key_end /\ value_start' = value_start /\ value_end' = value_end
        /\ now_read_line_begin' = now_read_line_begin /\ Stay
    BY <1>7 DEF OnLF, To
  <2>2. QED
    BY <2>1, ShapeCharacter
<1>8. CASE OnEndCR
  <2>1. /\ Loop("END_CR") /\ UNCHANGED finish /\ key_start' = key_start
        /\ key_end' = key_end /\ value_start' = value_start /\ value_end' = value_end
        /\ now_read_line_begin' = now_read_line_begin /\ (Stay \/ Fail)
    BY <1>8 DEF OnEndCR, To
  <2>2. QED
    BY <2>1, ShapeCharacter
<1>9. CASE OnEndLF
  <2>1. /\ Loop("END_LF") /\ finish' = TRUE /\ key_start' = index
        /\ key_end' = key_end /\ value_start' = value_start /\ value_end' = value_end
        /\ now_read_line_begin' = index /\ Stay
    BY <1>9 DEF OnEndLF, To
  <2>2. QED
    BY <2>1, ShapeCharacter
<1>10. CASE Return
  BY <1>10, ShapeReturn
<1>11. QED
  BY <1>1, <1>2, <1>3, <1>4, <1>5, <1>6, <1>7, <1>8, <1>9, <1>10 DEF HeaderLoop

-----------------------------------------------------------------------------
(* What does not change with the request.                                  *)
LEMMA SameRequest ==
  ASSUME sent' = sent
  PROVE  /\ \A j : /\ KeyAt(j)' = KeyAt(j) /\ ColonAt(j)' = ColonAt(j) /\ EndAt(j)' = EndAt(j)
                   /\ Length(j)' = Length(j)
         /\ Headers' = Headers /\ Count' = Count /\ TextEnd' = TextEnd
         /\ Version' = Version /\ Path' = Path
<1>1. HeadersEnd(sent)' = HeadersEnd(sent)
  OBVIOUS
<1>2. QED
  BY <1>1 DEF KeyAt, ColonAt, EndAt, Length, Headers, Count, TextEnd, Version, Path, Part

LEMMA SameLengths ==
  ASSUME sent' = sent, NEW j
  PROVE  FineTo(j)' <=> FineTo(j)
BY SameRequest DEF FineTo

LEMMA SameReadable ==
  ASSUME sent' = sent
  PROVE  Readable' <=> Readable
<1>1. LineText' = LineText
  BY DEF LineText, Part
<1>2. MethodOf(LineText)' = MethodOf(LineText)
  BY <1>1 DEF MethodOf
<1>3. Headers' = Headers /\ Version' = Version /\ \A j : Length(j)' = Length(j)
  BY SameRequest
<1>4. QED
  BY <1>2, <1>3, Zenon DEF Readable

LEMMA SameHeaders ==
  ASSUME sent' = sent, headers_' = headers_, NEW j
  PROVE  TakenTo(j)' <=> TakenTo(j)
<1>1. \A m : Key(m)' = Key(m) /\ Value(m)' = Value(m)
  BY DEF Key, Value, Part
<1>2. HeadersSent(j)' <=> HeadersSent(j)
  BY <1>1, Zenon DEF HeadersSent
<1>3. QED
  BY <1>2, SameLengths, Zenon DEF TakenTo

LEMMA SameLine ==
  ASSUME sent' = sent, UNCHANGED request
  PROVE  LineRead' <=> LineRead
BY SameRequest, Zenon DEF LineRead, request

LEMMA OneMore ==
  ASSUME sent' = sent, NEW j \in Headers, Count \in Nat, Headers = 1 .. Count,
         TakenTo(j - 1), Length(j) <= MaxValue + 1,
         headers_' = [k \in DOMAIN headers_ \cup {Key(j)} |->
                        IF k = Key(j) THEN Value(j) ELSE headers_[k]]
  PROVE  TakenTo(j)'
<1>1. \A m : Key(m)' = Key(m) /\ Value(m)' = Value(m)
  BY DEF Key, Value, Part
<1>2. /\ DOMAIN headers_ = {Key(m) : m \in 1 .. j - 1}
      /\ \A m \in 1 .. j - 1 :
           (\A k \in m + 1 .. j - 1 : Key(k) # Key(m)) => headers_[Key(m)] = Value(m)
      /\ \A m \in 1 .. j - 1 : Length(m) <= MaxValue + 1
  BY DEF TakenTo, HeadersSent, FineTo
<1>3. j \in Nat /\ j >= 1 /\ \A m \in 1 .. j : m = j \/ m \in 1 .. j - 1
  OBVIOUS
<1>4. DOMAIN headers_' = {Key(m) : m \in 1 .. j}
  <2>1. 1 .. j = (1 .. j - 1) \cup {j}
    BY <1>3
  <2>2. DOMAIN headers_' = DOMAIN headers_ \cup {Key(j)}
    OBVIOUS
  <2>3. QED
    BY <1>2, <2>1, <2>2
<1>5. ASSUME NEW m \in 1 .. j, \A k \in m + 1 .. j : Key(k) # Key(m)
      PROVE  headers_'[Key(m)] = Value(m)
  <2>1. Key(m) \in DOMAIN headers_ \cup {Key(j)}
    BY <1>4
  <2>2. headers_'[Key(m)] = IF Key(m) = Key(j) THEN Value(j) ELSE headers_[Key(m)]
    BY <2>1
  <2>3. CASE m = j
    BY <2>2, <2>3
  <2>4. CASE m \in 1 .. j - 1
    <3>1. j \in m + 1 .. j /\ \A k \in m + 1 .. j - 1 : k \in m + 1 .. j
      BY <1>3, <2>4
    <3>2. Key(j) # Key(m) /\ headers_[Key(m)] = Value(m)
      BY <1>2, <1>5, <2>4, <3>1
    <3>3. QED
      BY <2>2, <3>2
  <2>5. QED
    BY <1>3, <2>3, <2>4
<1>6. HeadersSent(j)'
  <2>1. /\ DOMAIN headers_' = {Key(m)' : m \in 1 .. j}
        /\ \A m \in 1 .. j :
             (\A k \in m + 1 .. j : Key(k)' # Key(m)') => headers_'[Key(m)'] = Value(m)'
    BY <1>1, <1>4, <1>5
  <2>2. QED
    BY <2>1 DEF HeadersSent
<1>7. FineTo(j)'
  <2>1. FineTo(j)
    BY <1>2, <1>3 DEF FineTo
  <2>2. QED
    BY <2>1, SameLengths
<1>8. QED
  BY <1>6, <1>7 DEF TakenTo

-----------------------------------------------------------------------------
(* The loop, a character at a time.                                        *)
LEMMA Character ==
  ASSUME ParserShape, NEW state, Loop(state)
  PROVE  /\ char = sent.text[Place] /\ Place \in Nat /\ Gone \in Nat /\ Place = Gone + index + 1
         /\ Place <= received /\ received \in Nat /\ sent \in Sendable
         /\ Gone' = Gone /\ Place' = Place + 1 /\ phase = "parse" /\ state_ = "headers"
         /\ parse_state_ = state /\ ~finish
         /\ UNCHANGED <<sent, received, lastCut, safe, method_, filename_, version_>>
<1>1. /\ sent \in Sendable /\ sent.text \in Seq(Chars) /\ Len(sent.text) \in Nat
      /\ received \in Nat /\ received <= Len(sent.text)
      /\ Len(inBuffer_) \in Nat /\ Gone \in Nat /\ Len(inBuffer_) = received - Gone
      /\ inBuffer_ = SubSeq(sent.text, Gone + 1, received)
  BY BufferTyped
<1>2. /\ UNCHANGED <<sent, received, lastCut, safe, inBuffer_, method_, filename_, version_>>
      /\ index < Len(inBuffer_) /\ index' = index + 1 /\ phase = "parse" /\ ~finish
      /\ parse_state_ = state
  BY DEF Loop, client, request
<1>3. index \in Nat /\ state_ = "headers"
  BY <1>2 DEF ParserShape
<1>4. Place = Gone + index + 1 /\ Place \in Nat /\ Place <= received
  BY <1>1, <1>2, <1>3 DEF Place
<1>5. Gone' = Gone
  BY <1>2 DEF Gone
<1>6. Place' = Place + 1
  <2>1. Place' = Gone' + index' + 1
    BY DEF Place
  <2>2. QED
    BY <1>1, <1>2, <1>3, <1>4, <1>5, <2>1
<1>7. char = sent.text[Place]
  <2> DEFINE text == sent.text
             a == Gone + 1
             p == index + 1
  <2>1. /\ text \in Seq(Chars) /\ a \in Nat /\ received \in 0 .. Len(text) /\ a >= 1
        /\ a <= received + 1 /\ p \in 1 .. received - a + 1 /\ a + p - 1 = Place
    BY <1>1, <1>2, <1>3, <1>4
  <2> HIDE DEF text, a, p
  <2>2. SubSeq(text, a, received)[p] = text[a + p - 1]
    BY <2>1, SubSeqFacts
  <2>3. char = SubSeq(text, a, received)[p]
    BY <1>1 DEF char, text, a, p
  <2>4. QED
    BY <2>1, <2>2, <2>3 DEF text
<1>8. QED
  BY <1>1, <1>2, <1>3, <1>4, <1>5, <1>6, <1>7

LEMMA StageAt ==
  ASSUME Within
  PROVE  /\ LineRead
         /\ parse_state_ = "START" => lastCut < ColonAt(1) /\ AtStart
         /\ parse_state_ \in {"KEY", "COLON", "SPACES_AFTER_COLON", "VALUE", "CR"} =>
              lastCut < ColonAt(1) /\ \E j \in Headers : InHeader(j)
         /\ parse_state_ = "LF" => lastCut < ColonAt(1) /\ \E j \in Headers : Behind(j)
         /\ parse_state_ \in {"END_CR", "END_LF"} =>
              \/ lastCut < ColonAt(1) /\ AtEnd
              \/ lastCut = TextEnd - 1 /\ received >= TextEnd /\ AtEndAgain
         /\ parse_state_ \in {"START", "KEY", "COLON", "SPACES_AFTER_COLON", "VALUE", "CR",
                              "LF", "END_CR", "END_LF"}
BY DEF Within, AtStart, InHeader, Behind, AtEnd, AtEndAgain

LEMMA StageOn ==
  ASSUME ParserShape, NEW state, Loop(state), Stay, Within, lastCut < ColonAt(1),
         AtStart' \/ AtEnd' \/ \E j \in Headers : InHeader(j)' \/ Behind(j)'
  PROVE  Stage'
<1>1. /\ sent' = sent /\ lastCut' = lastCut /\ phase' = "parse"
      /\ UNCHANGED request
  BY Character DEF Stay, request
<1>2. LineRead'
  BY <1>1, SameLine DEF Within
<1>3. lastCut' < ColonAt(1)' /\ Headers' = Headers
  BY <1>1, SameRequest
<1>4. QED
  BY <1>1, <1>2, <1>3 DEF Stage, Within

(* What a request that Readable admits is like. *)
LEMMA ReadableFacts ==
  ASSUME sent \in Sendable, Readable
  PROVE  /\ sent.headers # <<>> /\ MaxValue \in Nat
         /\ Count \in Nat /\ Count >= 1 /\ Headers = 1 .. Count /\ 1 \in Headers
         /\ \A j \in Headers : EndAt(j) >= ColonAt(j) + 3 /\ Length(j) = EndAt(j) - ColonAt(j) - 2
<1>1. sent.headers # <<>> /\ \A j \in Headers : Length(j) # 0
  BY DEF Readable
<1>2. Count \in Nat /\ Count >= 1 /\ Headers = 1 .. Count
  BY <1>1, EndGrammar
<1>3. \A j : Length(j) = EndAt(j) - ColonAt(j) - 2
  BY DEF Length, EndAt, ColonAt
<1>4. \A j \in Headers : /\ EndAt(j) \in Nat /\ ColonAt(j) \in Nat
                         /\ ColonAt(j) + 2 <= EndAt(j)
  BY HeaderGrammar
<1>5. \A j \in Headers : EndAt(j) >= ColonAt(j) + 3
  <2> TAKE j \in Headers
  <2>1. /\ EndAt(j) \in Nat /\ ColonAt(j) \in Nat /\ ColonAt(j) + 2 <= EndAt(j)
        /\ EndAt(j) - ColonAt(j) - 2 # 0
    BY <1>1, <1>3, <1>4
  <2>2. QED
    BY <2>1
<1>6. QED
  BY <1>1, <1>2, <1>3, <1>5, RequestsAssumption

LEMMA StartStage ==
  ASSUME ParserShape, Readable, Within, OnStart
  PROVE  Stage'
<1>1. Loop("START")
  BY DEF OnStart
<1>2. /\ char = sent.text[Place] /\ Place \in Nat /\ Gone \in Nat /\ Place = Gone + index + 1
      /\ sent \in Sendable /\ Gone' = Gone /\ Place' = Place + 1 /\ sent' = sent
      /\ parse_state_ = "START" /\ ~finish
  BY <1>1, Character
<1>3. lastCut < ColonAt(1) /\ AtStart
  BY <1>2, StageAt
<1>4. 1 \in Headers
  BY <1>2, ReadableFacts
<1>5. /\ KeyAt(1) = sent.eol + 2 /\ KeyAt(1) < ColonAt(1) /\ ColonAt(1) \in Nat
      /\ \A p \in KeyAt(1) .. ColonAt(1) - 1 : sent.text[p] \notin {":", CR, LF}
      /\ sent.text[sent.eol + 1] = LF /\ sent.eol \in Nat
  BY <1>2, <1>4, HeaderGrammar, LineGrammar
<1>6. TakenTo(0)' /\ finish' = finish /\ Stay
  BY <1>2, <1>3, SameHeaders DEF OnStart, AtStart, To
<1>7. CASE Place = sent.eol + 1
  <2>1. parse_state_' = "START" /\ UNCHANGED now_read_line_begin
    BY <1>2, <1>5, <1>7 DEF OnStart, To
  <2>2. AtStart'
    BY <1>2, <1>3, <1>5, <1>6, <1>7, <2>1 DEF AtStart
  <2>3. QED
    BY <1>1, <1>3, <1>6, <2>2, StageOn
<1>8. CASE Place = sent.eol + 2
  <2>1. char \notin {CR, LF}
    BY <1>2, <1>5, <1>8
  <2>2. parse_state_' = "KEY" /\ key_start' = index /\ now_read_line_begin' = index
    BY <2>1 DEF OnStart, To
  <2>3. LinePlace' = Place /\ (Gone + key_start + 1)' = Place
    BY <1>2, <2>2 DEF LinePlace
  <2>4. KeyAt(1)' = KeyAt(1) /\ ColonAt(1)' = ColonAt(1)
    BY <1>2, SameRequest
  <2>5. Place' \in KeyAt(1)' .. ColonAt(1)'
    BY <1>2, <1>5, <1>8, <2>4
  <2>6. InHeader(1)'
    BY <1>2, <1>5, <1>6, <1>8, <2>2, <2>3, <2>4, <2>5 DEF InHeader
  <2>7. QED
    BY <1>1, <1>3, <1>4, <1>6, <2>6, StageOn
<1>9. QED
  BY <1>2, <1>3, <1>5, <1>7, <1>8 DEF AtStart

LEMMA KeyStage ==
  ASSUME ParserShape, Readable, Within, OnKey
  PROVE  Stage'
<1>1. Loop("KEY")
  BY DEF OnKey
<1>2. /\ char = sent.text[Place] /\ Place \in Nat /\ Gone \in Nat /\ Place = Gone + index + 1
      /\ sent \in Sendable /\ Gone' = Gone /\ Place' = Place + 1 /\ sent' = sent
      /\ parse_state_ = "KEY" /\ ~finish
  BY <1>1, Character
<1>3. lastCut < ColonAt(1) /\ \E j \in Headers : InHeader(j)
  BY <1>2, StageAt
<1>4. PICK j \in Headers : InHeader(j)
  BY <1>3
<1>5. /\ KeyAt(j) \in Nat /\ ColonAt(j) \in Nat /\ KeyAt(j) < ColonAt(j)
      /\ \A p \in KeyAt(j) .. ColonAt(j) - 1 : sent.text[p] \notin {":", CR, LF}
      /\ sent.text[ColonAt(j)] = ":"
  BY <1>2, HeaderGrammar
<1>6. /\ TakenTo(j - 1) /\ LinePlace = IF j = 1 THEN KeyAt(j) ELSE KeyAt(j) - 1
      /\ Gone + key_start + 1 = KeyAt(j) /\ Place \in KeyAt(j) .. ColonAt(j)
  BY <1>2, <1>4 DEF InHeader
<1>7. /\ headers_' = headers_ /\ finish' = finish /\ key_start' = key_start
      /\ now_read_line_begin' = now_read_line_begin
  BY DEF OnKey
<1>8. /\ TakenTo(j - 1)' /\ LinePlace' = LinePlace
      /\ (Gone + key_start + 1)' = Gone + key_start + 1
      /\ KeyAt(j)' = KeyAt(j) /\ ColonAt(j)' = ColonAt(j)
  BY <1>2, <1>6, <1>7, SameHeaders, SameRequest DEF LinePlace
<1>9. CASE Place < ColonAt(j)
  <2>1. char \notin {":", CR, LF}
    BY <1>2, <1>5, <1>6, <1>9
  <2>2. parse_state_' = "KEY" /\ Stay
    BY <2>1 DEF OnKey, To
  <2>3. Place' \in KeyAt(j)' .. ColonAt(j)'
    BY <1>2, <1>5, <1>6, <1>8, <1>9
  <2>4. InHeader(j)'
    BY <1>2, <1>6, <1>7, <1>8, <2>2, <2>3 DEF InHeader
  <2>5. QED
    BY <1>1, <1>3, <2>2, <2>4, StageOn
<1>10. CASE Place = ColonAt(j)
  <2>1. char = ":" /\ index # key_start
    BY <1>2, <1>5, <1>6, <1>10 DEF ParserShape
  <2>2. parse_state_' = "COLON" /\ Stay /\ key_end' = index
    BY <2>1 DEF OnKey, To, CR, LF
  <2>3. (Gone + key_end + 1)' = ColonAt(j)' /\ Place' = ColonAt(j)' + 1
    BY <1>2, <1>8, <1>10, <2>2
  <2>4. InHeader(j)'
    BY <1>2, <1>6, <1>7, <1>8, <2>2, <2>3 DEF InHeader
  <2>5. QED
    BY <1>1, <1>3, <2>2, <2>4, StageOn
<1>11. QED
  BY <1>5, <1>6, <1>9, <1>10

LEMMA ColonStage ==
  ASSUME ParserShape, Readable, Within, OnColon \/ OnSpaces
  PROVE  Stage'
<1>1. PICK state \in {"COLON", "SPACES_AFTER_COLON"} :
        /\ Loop(state)
        /\ IF state = "COLON" THEN OnColon ELSE OnSpaces
  BY DEF OnColon, OnSpaces
<1>2. /\ char = sent.text[Place] /\ Place \in Nat /\ Gone \in Nat /\ Place = Gone + index + 1
      /\ sent \in Sendable /\ Gone' = Gone /\ Place' = Place + 1 /\ sent' = sent
      /\ parse_state_ = state /\ ~finish
  BY <1>1, Character
<1>3. lastCut < ColonAt(1) /\ \E j \in Headers : InHeader(j)
  BY <1>2, StageAt
<1>4. PICK j \in Headers : InHeader(j)
  BY <1>3
<1>5. /\ KeyAt(j) \in Nat /\ ColonAt(j) \in Nat /\ KeyAt(j) < ColonAt(j) /\ EndAt(j) \in Nat
      /\ sent.text[ColonAt(j) + 1] = " " /\ ColonAt(j) + 3 <= EndAt(j) /\ MaxValue \in Nat
  BY <1>2, HeaderGrammar, ReadableFacts
<1>6. /\ TakenTo(j - 1) /\ LinePlace = IF j = 1 THEN KeyAt(j) ELSE KeyAt(j) - 1
      /\ Gone + key_start + 1 = KeyAt(j) /\ Gone + key_end + 1 = ColonAt(j)
      /\ Place = IF state = "COLON" THEN ColonAt(j) + 1 ELSE ColonAt(j) + 2
  BY <1>2, <1>4 DEF InHeader
<1>7. /\ headers_' = headers_ /\ finish' = finish /\ key_start' = key_start /\ key_end' = key_end
      /\ now_read_line_begin' = now_read_line_begin
  BY <1>1 DEF OnColon, OnSpaces
<1>8. /\ TakenTo(j - 1)' /\ LinePlace' = LinePlace
      /\ (Gone + key_start + 1)' = Gone + key_start + 1
      /\ (Gone + key_end + 1)' = Gone + key_end + 1
      /\ KeyAt(j)' = KeyAt(j) /\ ColonAt(j)' = ColonAt(j) /\ EndAt(j)' = EndAt(j)
  BY <1>2, <1>6, <1>7, SameHeaders, SameRequest DEF LinePlace
<1>9. CASE state = "COLON"
  <2>1. parse_state_' = "SPACES_AFTER_COLON" /\ Stay
    BY <1>1, <1>2, <1>5, <1>6, <1>9 DEF OnColon, To
  <2>2. Place' = ColonAt(j)' + 2
    <3>1. Place = ColonAt(j) + 1
      BY <1>6, <1>9
    <3>2. ColonAt(j)' = ColonAt(j)
      BY <1>8
    <3>3. Place' = Place + 1 /\ ColonAt(j) \in Nat
      BY <1>2, <1>5
    <3>4. QED
      BY <3>1, <3>2, <3>3
  <2>3. InHeader(j)'
    BY <1>2, <1>6, <1>7, <1>8, <2>1, <2>2 DEF InHeader
  <2>4. QED
    BY <1>1, <1>3, <2>1, <2>3, StageOn
<1>10. CASE state = "SPACES_AFTER_COLON"
  <2>1. parse_state_' = "VALUE" /\ value_start' = index /\ Stay
    BY <1>1, <1>10 DEF OnSpaces, To
  <2>2. /\ Place' \in ColonAt(j)' + 3 .. EndAt(j)' /\ Place' <= ColonAt(j)' + 3 + MaxValue
        /\ (Gone + value_start + 1)' = ColonAt(j)' + 2
    <3>1. Place = ColonAt(j) + 2
      BY <1>6, <1>10
    <3>2. ColonAt(j)' = ColonAt(j) /\ EndAt(j)' = EndAt(j)
      BY <1>8
    <3>3. Gone' + value_start' + 1 = Place
      BY <1>2, <2>1
    <3>4. Place' = Place + 1 /\ ColonAt(j) \in Nat /\ MaxValue \in Nat
      BY <1>2, <1>5
    <3>5. EndAt(j) \in Nat /\ ColonAt(j) + 3 <= EndAt(j)
      BY <1>5
    <3>6. QED
      BY <3>1, <3>2, <3>3, <3>4, <3>5
  <2>3. InHeader(j)'
    BY <1>2, <1>6, <1>7, <1>8, <2>1, <2>2 DEF InHeader
  <2>4. QED
    BY <1>1, <1>3, <2>1, <2>3, StageOn
<1>11. QED
  BY <1>9, <1>10

LEMMA ValueStage ==
  ASSUME ParserShape, Readable, Within, OnValue
  PROVE  Stage'
<1>1. Loop("VALUE")
  BY DEF OnValue
<1>2. /\ char = sent.text[Place] /\ Place \in Nat /\ Gone \in Nat /\ Place = Gone + index + 1
      /\ sent \in Sendable /\ Gone' = Gone /\ Place' = Place + 1 /\ sent' = sent
      /\ parse_state_ = "VALUE" /\ ~finish
  BY <1>1, Character
<1>3. lastCut < ColonAt(1) /\ \E j \in Headers : InHeader(j)
  BY <1>2, StageAt
<1>4. PICK j \in Headers : InHeader(j)
  BY <1>3
<1>5. /\ ColonAt(j) \in Nat /\ EndAt(j) \in Nat /\ sent.text[EndAt(j)] = CR
      /\ \A p \in ColonAt(j) + 2 .. EndAt(j) - 1 : sent.text[p] # CR
  BY <1>2, HeaderGrammar
<1>6. /\ TakenTo(j - 1) /\ LinePlace = IF j = 1 THEN KeyAt(j) ELSE KeyAt(j) - 1
      /\ Gone + key_start + 1 = KeyAt(j) /\ Gone + key_end + 1 = ColonAt(j)
      /\ Gone + value_start + 1 = ColonAt(j) + 2
      /\ Place \in ColonAt(j) + 3 .. EndAt(j) /\ Place <= ColonAt(j) + 3 + MaxValue
  BY <1>2, <1>4 DEF InHeader
<1>7. /\ headers_' = headers_ /\ finish' = finish /\ key_start' = key_start /\ key_end' = key_end
      /\ value_start' = value_start /\ now_read_line_begin' = now_read_line_begin
  BY DEF OnValue
<1>8. /\ TakenTo(j - 1)' /\ LinePlace' = LinePlace
      /\ (Gone + key_start + 1)' = Gone + key_start + 1
      /\ (Gone + key_end + 1)' = Gone + key_end + 1
      /\ (Gone + value_start + 1)' = Gone + value_start + 1
      /\ KeyAt(j)' = KeyAt(j) /\ ColonAt(j)' = ColonAt(j) /\ EndAt(j)' = EndAt(j)
      /\ Length(j)' = Length(j)
  BY <1>2, <1>6, <1>7, SameHeaders, SameRequest DEF LinePlace
<1>9. /\ index \in Nat /\ value_start \in Nat /\ MaxValue \in Nat /\ Count \in Nat
      /\ j \in 1 .. Count /\ Length(j) = EndAt(j) - ColonAt(j) - 2
      /\ index - value_start = Place - ColonAt(j) - 2
  <2>1. /\ index \in Nat /\ value_start \in Nat
    BY DEF ParserShape
  <2>2. /\ MaxValue \in Nat /\ Count \in Nat /\ j \in 1 .. Count
        /\ Length(j) = EndAt(j) - ColonAt(j) - 2
    BY <1>2, ReadableFacts
  <2>3. Place = Gone + index + 1 /\ Gone \in Nat
    BY <1>2
  <2>4. Gone + value_start + 1 = ColonAt(j) + 2 /\ ColonAt(j) \in Nat
    BY <1>5, <1>6
  <2>5. index - value_start = Place - ColonAt(j) - 2
    BY <2>1, <2>3, <2>4
  <2>6. QED
    BY <2>1, <2>2, <2>5
<1>10. CASE Place = EndAt(j)
  <2>1. char = CR
    BY <1>2, <1>5, <1>10
  <2>2. index # value_start
    BY <1>5, <1>6, <1>9
  <2>3. parse_state_' = "CR" /\ Stay /\ value_end' = index
    BY <2>1, <2>2 DEF OnValue
  <2>4. Place' = EndAt(j)' + 1 /\ (Gone + value_end + 1)' = EndAt(j)'
    <3>1. Place' = Place + 1 /\ EndAt(j)' = EndAt(j) /\ Gone' = Gone /\ Place = Gone + index + 1
      BY <1>2, <1>8
    <3>2. QED
      BY <1>10, <2>3, <3>1
  <2>5. Length(j)' <= MaxValue + 1
    <3>1. /\ Place <= ColonAt(j) + 3 + MaxValue
          /\ Length(j)' = EndAt(j) - ColonAt(j) - 2
      BY <1>6, <1>8, <1>9
    <3>2. ColonAt(j) \in Nat /\ EndAt(j) \in Nat /\ MaxValue \in Nat
      BY <1>5, <1>9
    <3>3. QED
      BY <1>10, <3>1, <3>2
  <2>6. InHeader(j)'
    BY <1>2, <1>6, <1>7, <1>8, <2>3, <2>4, <2>5 DEF InHeader
  <2>7. QED
    BY <1>1, <1>3, <2>3, <2>6, StageOn
<1>11. CASE Place < EndAt(j)
  <2>1. char # CR
    <3>1. Place \in ColonAt(j) + 2 .. EndAt(j) - 1
      BY <1>5, <1>6, <1>11
    <3>2. QED
      BY <1>2, <1>5, <3>1
  <2>2. CASE index - value_start > MaxValue
    <3>1. Fail
      BY <2>1, <2>2 DEF OnValue
    <3>2. Length(j) > MaxValue + 1
      <4>1. /\ Place \in Nat /\ ColonAt(j) \in Nat /\ EndAt(j) \in Nat /\ MaxValue \in Nat
            /\ Place - ColonAt(j) - 2 > MaxValue /\ Length(j) = EndAt(j) - ColonAt(j) - 2
        BY <1>2, <1>5, <1>9, <2>2
      <4>2. QED
        BY <1>11, <4>1
    <3>3. ~FineTo(Count)
      <4>1. Length(j) \in Int /\ MaxValue \in Nat /\ j \in 1 .. Count
        BY <1>5, <1>9
      <4>2. QED
        BY <3>2, <4>1 DEF FineTo
    <3>4. (~FineTo(Count))'
      BY <1>2, <3>3, SameLengths, SameRequest
    <3>5. QED
      BY <3>1, <3>4 DEF Stage, Between, Fail
  <2>3. CASE ~(index - value_start > MaxValue)
    <3>1. parse_state_' = "VALUE" /\ Stay /\ value_end' = value_end
      BY <1>2, <2>1, <2>3 DEF OnValue
    <3>2. Place' \in ColonAt(j)' + 3 .. EndAt(j)' /\ Place' <= ColonAt(j)' + 3 + MaxValue
      <4>1. /\ Place \in Nat /\ ColonAt(j) \in Nat /\ EndAt(j) \in Nat /\ MaxValue \in Nat
            /\ Place' = Place + 1 /\ ColonAt(j)' = ColonAt(j) /\ EndAt(j)' = EndAt(j)
            /\ Place >= ColonAt(j) + 3
        BY <1>2, <1>5, <1>6, <1>8, <1>9
      <4>2. ~(Place - ColonAt(j) - 2 > MaxValue)
        BY <1>9, <2>3
      <4>3. QED
        BY <1>11, <4>1, <4>2
    <3>3. InHeader(j)'
      BY <1>2, <1>6, <1>7, <1>8, <3>1, <3>2 DEF InHeader
    <3>4. QED
      BY <1>1, <1>3, <3>1, <3>3, StageOn
  <2>4. QED
    BY <2>2, <2>3
<1>12. QED
  BY <1>5, <1>6, <1>10, <1>11

(* The key and the value are cut out of the buffer. *)
LEMMA CutOut ==
  ASSUME ParserShape, NEW p \in Nat, NEW q \in Nat, q <= Len(inBuffer_)
  PROVE  SubSeq(inBuffer_, p + 1, q) = Part(Gone + p + 1, Gone + q)
<1> DEFINE text == sent.text
           a == Gone + 1
           b == received
<1>1. /\ text \in Seq(Chars) /\ b \in 0 .. Len(text) /\ a \in Nat /\ a >= 1 /\ a <= b + 1
      /\ p + 1 \in Nat /\ p + 1 >= 1 /\ q <= b - a + 1 /\ inBuffer_ = SubSeq(text, a, b)
      /\ Gone \in Nat
  <2>1. /\ sent.text \in Seq(Chars) /\ Len(sent.text) \in Nat
        /\ received \in Nat /\ received <= Len(sent.text)
        /\ Len(inBuffer_) \in Nat /\ Gone \in Nat /\ Len(inBuffer_) = received - Gone
        /\ inBuffer_ = SubSeq(sent.text, Gone + 1, received)
    BY BufferTyped
  <2>2. QED
    BY <2>1
<1>2. a + (p + 1) - 1 = Gone + p + 1 /\ a + q - 1 = Gone + q
  BY <1>1
<1> HIDE DEF text, a, b
<1>3. SubSeq(SubSeq(text, a, b), p + 1, q) = SubSeq(text, a + (p + 1) - 1, a + q - 1)
  BY <1>1, PartOfPart
<1>4. QED
  BY <1>1, <1>2, <1>3 DEF Part, text

LEMMA CRStage ==
  ASSUME ParserShape, Readable, Within, OnCR
  PROVE  Stage'
<1>1. Loop("CR")
  BY DEF OnCR
<1>2. /\ char = sent.text[Place] /\ Place \in Nat /\ Gone \in Nat /\ Place = Gone + index + 1
      /\ sent \in Sendable /\ Gone' = Gone /\ Place' = Place + 1 /\ sent' = sent
      /\ parse_state_ = "CR" /\ ~finish /\ Place <= received
  BY <1>1, Character
<1>3. lastCut < ColonAt(1) /\ \E j \in Headers : InHeader(j)
  BY <1>2, StageAt
<1>4. PICK j \in Headers : InHeader(j)
  BY <1>3
<1>5. /\ KeyAt(j) \in Nat /\ ColonAt(j) \in Nat /\ EndAt(j) \in Nat
      /\ KeyAt(j) < ColonAt(j) /\ ColonAt(j) + 2 <= EndAt(j) /\ sent.text[EndAt(j) + 1] = LF
  BY <1>2, HeaderGrammar
<1>6. /\ TakenTo(j - 1) /\ Gone + key_start + 1 = KeyAt(j) /\ Gone + key_end + 1 = ColonAt(j)
      /\ Gone + value_start + 1 = ColonAt(j) + 2 /\ Gone + value_end + 1 = EndAt(j)
      /\ Place = EndAt(j) + 1 /\ Length(j) <= MaxValue + 1
  BY <1>2, <1>4 DEF InHeader
<1>7. /\ key_start \in Nat /\ key_end \in Nat /\ value_start \in Nat /\ value_end \in Nat
      /\ key_end <= Len(inBuffer_) /\ value_end <= Len(inBuffer_)
  <2>1. /\ key_start \in Nat /\ key_end \in Nat /\ value_start \in Nat /\ value_end \in Nat
        /\ index \in Nat
    BY DEF ParserShape
  <2>2. index < Len(inBuffer_) /\ Len(inBuffer_) \in Nat
    BY <1>1, BufferTyped DEF Loop
  <2>3. value_end <= index /\ key_end <= index
    <3>1. Gone \in Nat /\ Place = Gone + index + 1
      BY <1>2
    <3>2. QED
      BY <1>5, <1>6, <2>1, <3>1
  <2>4. QED
    BY <2>1, <2>2, <2>3
<1>8. SubSeq(inBuffer_, key_start + 1, key_end) = Key(j)
  <2>1. Gone \in Nat
    BY <1>2
  <2>2. Gone + key_start + 1 = KeyAt(j) /\ Gone + key_end = ColonAt(j) - 1
    BY <1>5, <1>6, <1>7, <2>1
  <2>3. SubSeq(inBuffer_, key_start + 1, key_end) = Part(Gone + key_start + 1, Gone + key_end)
    BY <1>7, CutOut
  <2>4. QED
    BY <2>2, <2>3 DEF Key, KeyAt, ColonAt
<1>9. SubSeq(inBuffer_, value_start + 1, value_end) = Value(j)
  <2>1. Gone \in Nat
    BY <1>2
  <2>2. Gone + value_start + 1 = ColonAt(j) + 2 /\ Gone + value_end = EndAt(j) - 1
    BY <1>5, <1>6, <1>7, <2>1
  <2>3. SubSeq(inBuffer_, value_start + 1, value_end)
          = Part(Gone + value_start + 1, Gone + value_end)
    BY <1>7, CutOut
  <2>4. QED
    BY <2>2, <2>3 DEF Value, EndAt, ColonAt
<1>10. char = LF
  BY <1>2, <1>5, <1>6
<1>11. /\ parse_state_' = "LF" /\ Stay /\ now_read_line_begin' = index
       /\ headers_' = [k \in DOMAIN headers_ \cup {Key(j)} |->
                         IF k = Key(j) THEN Value(j) ELSE headers_[k]]
       /\ finish' = finish
  BY <1>8, <1>9, <1>10 DEF OnCR, To
<1>12. TakenTo(j)'
  <2>1. Count \in Nat /\ Headers = 1 .. Count
    BY <1>2, ReadableFacts
  <2>2. QED
    BY <1>2, <1>6, <1>11, <2>1, OneMore
<1>13. Place' = EndAt(j)' + 2 /\ LinePlace' = EndAt(j)' + 1
  <2>1. EndAt(j)' = EndAt(j)
    BY <1>2, SameRequest
  <2>2. LinePlace' = Place
    BY <1>2, <1>11 DEF LinePlace
  <2>3. Place' = Place + 1 /\ Place = EndAt(j) + 1 /\ EndAt(j) \in Nat
    BY <1>2, <1>5, <1>6
  <2>4. QED
    BY <2>1, <2>2, <2>3
<1>14. Behind(j)'
  BY <1>2, <1>11, <1>12, <1>13 DEF Behind
<1>15. QED
  BY <1>1, <1>3, <1>11, <1>14, StageOn

LEMMA SameCount ==
  ASSUME sent' = sent, headers_' = headers_
  PROVE  TakenTo(Count)' <=> TakenTo(Count)
<1>1. \A m : Key(m)' = Key(m) /\ Value(m)' = Value(m) /\ Length(m)' = Length(m)
  BY DEF Key, Value, Length, Part
<1>2. Count' = Count
  BY SameRequest
<1>3. FineTo(Count)' <=> FineTo(Count)
  BY <1>1, <1>2 DEF FineTo
<1>4. HeadersSent(Count)' <=> HeadersSent(Count)
  BY <1>1, <1>2, Zenon DEF HeadersSent
<1>5. QED
  BY <1>3, <1>4, Zenon DEF TakenTo

LEMMA LFStage ==
  ASSUME ParserShape, Readable, Within, OnLF
  PROVE  Stage'
<1>1. Loop("LF")
  BY DEF OnLF
<1>2. /\ char = sent.text[Place] /\ Place \in Nat /\ Gone \in Nat /\ Place = Gone + index + 1
      /\ sent \in Sendable /\ Gone' = Gone /\ Place' = Place + 1 /\ sent' = sent
      /\ parse_state_ = "LF" /\ ~finish
  BY <1>1, Character
<1>3. lastCut < ColonAt(1) /\ \E j \in Headers : Behind(j)
  BY <1>2, StageAt
<1>4. PICK j \in Headers : Behind(j)
  BY <1>3
<1>5. Count \in Nat /\ Headers = 1 .. Count /\ sent.headers # <<>>
  BY <1>2, ReadableFacts
<1>6. /\ EndAt(j) \in Nat /\ TakenTo(j)
      /\ Place = EndAt(j) + 2 /\ LinePlace = EndAt(j) + 1
  BY <1>2, <1>4, HeaderGrammar DEF Behind
<1>7. /\ headers_' = headers_ /\ finish' = finish /\ Stay
      /\ now_read_line_begin' = now_read_line_begin
  BY DEF OnLF, To
<1>8. LinePlace' = LinePlace /\ TakenTo(j)'
  BY <1>2, <1>6, <1>7, SameHeaders DEF LinePlace
<1>9. CASE j = Count
  <2>1. /\ TextEnd = EndAt(j) + 3 /\ sent.text[TextEnd - 1] = CR /\ TextEnd \in Nat
    BY <1>2, <1>5, <1>9, EndGrammar
  <2>2. TextEnd - 1 = Place
    BY <1>6, <2>1
  <2>3. char = CR
    BY <1>2, <2>1, <2>2
  <2>4. parse_state_' = "END_CR"
    BY <2>3 DEF OnLF, To
  <2>5. TextEnd' = TextEnd /\ Count' = Count
    BY <1>2, SameRequest
  <2>6. Place' = TextEnd' /\ LinePlace' = TextEnd' - 2
    <3>1. Place' = Place + 1 /\ LinePlace' = EndAt(j) + 1 /\ Place = EndAt(j) + 2
      BY <1>2, <1>6, <1>8
    <3>2. QED
      BY <1>6, <2>1, <2>5, <3>1
  <2>7. TakenTo(Count)'
    <3>1. TakenTo(Count)
      BY <1>6, <1>9
    <3>2. QED
      BY <1>2, <1>7, <3>1, SameCount
  <2>8. AtEnd'
    BY <1>2, <1>7, <2>4, <2>6, <2>7 DEF AtEnd
  <2>9. QED
    BY <1>1, <1>3, <1>7, <2>8, StageOn
<1>10. CASE j # Count
  <2> DEFINE k == j + 1
  <2>1. k \in Headers /\ k # 1 /\ k - 1 = j
    BY <1>5, <1>10
  <2> HIDE DEF k
  <2>2. /\ KeyAt(k) = EndAt(k - 1) + 2 /\ KeyAt(k) \in Nat /\ ColonAt(k) \in Nat
        /\ KeyAt(k) < ColonAt(k)
        /\ \A p \in KeyAt(k) .. ColonAt(k) - 1 : sent.text[p] \notin {":", CR, LF}
    BY <1>2, <2>1, HeaderGrammar
  <2>3. KeyAt(k) = Place
    BY <1>6, <2>1, <2>2
  <2>4. char # CR
    <3>1. Place \in KeyAt(k) .. ColonAt(k) - 1
      BY <1>2, <2>2, <2>3
    <3>2. QED
      BY <1>2, <2>2, <3>1
  <2>5. parse_state_' = "KEY" /\ key_start' = index
    BY <2>4 DEF OnLF, To
  <2>6. KeyAt(k)' = KeyAt(k) /\ ColonAt(k)' = ColonAt(k)
    BY <1>2, SameRequest
  <2>7. (Gone + key_start + 1)' = KeyAt(k)'
    BY <1>2, <2>3, <2>5, <2>6
  <2>8. Place' \in KeyAt(k)' .. ColonAt(k)' /\ LinePlace' = KeyAt(k)' - 1
    <3>1. Place' = Place + 1 /\ LinePlace' = EndAt(j) + 1 /\ Place = EndAt(j) + 2
      BY <1>2, <1>6, <1>8
    <3>2. QED
      BY <1>6, <2>2, <2>3, <2>6, <3>1
  <2>9. TakenTo(k - 1)'
    BY <1>8, <2>1
  <2>10. InHeader(k)'
    BY <1>2, <1>7, <2>1, <2>5, <2>7, <2>8, <2>9 DEF InHeader
  <2>11. QED
    BY <1>1, <1>3, <1>7, <2>1, <2>10, StageOn
<1>11. QED
  BY <1>9, <1>10

LEMMA EndStage ==
  ASSUME ParserShape, Readable, Within, OnEndCR \/ OnEndLF
  PROVE  Stage'
<1>1. PICK state \in {"END_CR", "END_LF"} :
        Loop(state) /\ IF state = "END_CR" THEN OnEndCR ELSE OnEndLF
  BY DEF OnEndCR, OnEndLF
<1>2. /\ char = sent.text[Place] /\ Place \in Nat /\ Gone \in Nat /\ Place = Gone + index + 1
      /\ sent \in Sendable /\ Gone' = Gone /\ Place' = Place + 1 /\ sent' = sent
      /\ parse_state_ = state /\ ~finish
  BY <1>1, Character
<1>3. /\ index' = index + 1 /\ index \in Nat /\ lastCut' = lastCut /\ received' = received
      /\ UNCHANGED request
  BY <1>1 DEF Loop, client, ParserShape
<1>4. \/ lastCut < ColonAt(1) /\ AtEnd
      \/ lastCut = TextEnd - 1 /\ received >= TextEnd /\ AtEndAgain
  BY <1>2, StageAt
<1>5. /\ headers_' = headers_ /\ Count' = Count /\ TextEnd' = TextEnd
      /\ ColonAt(1)' = ColonAt(1)
  BY <1>1, <1>2, SameRequest DEF OnEndCR, OnEndLF
<1>6. TakenTo(Count)'
  BY <1>2, <1>4, <1>5, SameCount DEF AtEnd, AtEndAgain
<1>7. LineRead'
  BY <1>2, <1>3, SameLine DEF Within
<1>8. /\ Count \in Nat /\ Count >= 1 /\ TextEnd = EndAt(Count) + 3 /\ TextEnd \in Nat
      /\ EndAt(Count) \in Nat /\ sent.text[TextEnd] = LF /\ sent.text[EndAt(Count) + 1] = LF
  <2>1. sent.headers # <<>>
    BY <1>2, ReadableFacts
  <2>2. /\ Count \in Nat /\ Count >= 1 /\ Headers = 1 .. Count
        /\ TextEnd = EndAt(Count) + 3 /\ TextEnd \in Nat /\ sent.text[TextEnd] = LF
    BY <1>2, <2>1, EndGrammar
  <2>3. Count \in Headers
    BY <2>2
  <2>4. QED
    BY <1>2, <2>2, <2>3, HeaderGrammar
<1>9. CASE state = "END_CR"
  <2>1. char = LF
    <3>1. CASE AtEnd
      <4>1. Place = TextEnd
        BY <1>2, <1>9, <3>1 DEF AtEnd
      <4>2. QED
        BY <1>2, <1>8, <4>1
    <3>2. CASE AtEndAgain
      <4>1. Gone = TextEnd - 3 /\ index = 0
        BY <1>2, <1>9, <3>2 DEF AtEndAgain
      <4>2. Place = EndAt(Count) + 1
        BY <1>2, <1>8, <4>1
      <4>3. QED
        BY <1>2, <1>8, <4>2
    <3>3. QED
      BY <1>4, <3>1, <3>2
  <2>2. parse_state_' = "END_LF" /\ phase' = "parse" /\ finish' = finish
    BY <1>1, <1>2, <1>9, <2>1, Character DEF OnEndCR, To, Stay
  <2>3. CASE lastCut < ColonAt(1) /\ AtEnd
    <3>1. Place' = TextEnd' + 1
      BY <1>2, <1>5, <1>9, <2>3 DEF AtEnd
    <3>2. AtEnd'
      BY <1>2, <1>6, <2>2, <3>1 DEF AtEnd
    <3>3. QED
      BY <1>3, <1>5, <1>7, <2>2, <2>3, <3>2 DEF Stage, Within
  <2>4. CASE lastCut = TextEnd - 1 /\ received >= TextEnd /\ AtEndAgain
    <3>1. Gone' = TextEnd' - 3 /\ index' = 1
      BY <1>2, <1>3, <1>5, <1>9, <2>4 DEF AtEndAgain
    <3>2. AtEndAgain'
      BY <1>2, <1>6, <2>2, <3>1 DEF AtEndAgain
    <3>3. QED
      BY <1>3, <1>5, <1>7, <2>2, <2>4, <3>2 DEF Stage, Within
  <2>5. QED
    BY <1>4, <2>3, <2>4
<1>10. CASE state = "END_LF"
  <2>1. parse_state_' = "END_LF" /\ phase' = "parse" /\ finish' = TRUE
    BY <1>1, <1>10, Character DEF OnEndLF, To, Stay
  <2>2. CASE lastCut < ColonAt(1) /\ AtEnd
    <3>1. Place' = TextEnd' + 2
      <4>1. Place = TextEnd + 1
        BY <1>2, <1>10, <2>2 DEF AtEnd
      <4>2. Place' = Place + 1 /\ TextEnd' = TextEnd /\ TextEnd \in Nat
        BY <1>2, <1>5, <1>8
      <4>3. QED
        BY <4>1, <4>2
    <3>2. AtEnd'
      BY <1>6, <2>1, <3>1 DEF AtEnd
    <3>3. QED
      BY <1>3, <1>5, <1>7, <2>1, <2>2, <3>2 DEF Stage, Within
  <2>3. CASE lastCut = TextEnd - 1 /\ received >= TextEnd /\ AtEndAgain
    <3>1. Gone' = TextEnd' - 3 /\ index' = 2
      <4>1. index = 1 /\ Gone = TextEnd - 3
        BY <1>2, <1>10, <2>3 DEF AtEndAgain
      <4>2. Gone' = Gone /\ index' = index + 1 /\ TextEnd' = TextEnd
        BY <1>2, <1>3, <1>5
      <4>3. QED
        BY <4>1, <4>2
    <3>2. AtEndAgain'
      BY <1>6, <2>1, <3>1 DEF AtEndAgain
    <3>3. QED
      BY <1>3, <1>5, <1>7, <2>1, <2>3, <3>2 DEF Stage, Within
  <2>4. QED
    BY <1>4, <2>2, <2>3
<1>11. QED
  BY <1>9, <1>10

(* The loop has ended: the buffer ends, or the headers do. *)
LEMMA ReturnStage ==
  ASSUME ParserShape, Readable, Within, Return
  PROVE  Stage'
<1>1. /\ ParserShape' /\ UNCHANGED <<client, request, headers_, parse_state_>>
      /\ parse_state_ # "END_LF" => state_' = state_ /\ Gone' = Gone + now_read_line_begin
      /\ parse_state_ = "END_LF" => /\ state_' = "done"
                                    /\ inBuffer_' = Part(Place, received)
      /\ finish \/ Place = received + 1
  BY ShapeReturn
<1>2. /\ sent' = sent /\ received' = received /\ lastCut' = lastCut /\ headers_' = headers_
      /\ parse_state_' = parse_state_ /\ phase' = "read" /\ state_ = "headers"
      /\ index >= Len(inBuffer_) \/ finish
  BY <1>1 DEF client, Return, ParserShape
<1>3. LineRead'
  BY <1>1, <1>2, SameLine DEF Within
<1>4. /\ \A j : /\ KeyAt(j)' = KeyAt(j) /\ ColonAt(j)' = ColonAt(j) /\ EndAt(j)' = EndAt(j)
      /\ Headers' = Headers /\ Count' = Count /\ TextEnd' = TextEnd
      /\ Version' = Version /\ Path' = Path
  BY <1>2, SameRequest
<1>5. sent \in Sendable /\ received \in Nat /\ Gone \in Nat
      /\ Len(inBuffer_) = received - Gone
  BY BufferTyped
<1>6. /\ sent.headers # <<>> /\ 1 \in Headers /\ Headers = 1 .. Count /\ Count \in Nat
      /\ TextEnd = EndAt(Count) + 3 /\ TextEnd \in Nat
      /\ \A j \in Headers : /\ KeyAt(j) \in Nat /\ ColonAt(j) \in Nat /\ EndAt(j) \in Nat
                            /\ KeyAt(j) < ColonAt(j) /\ ColonAt(j) + 2 <= EndAt(j)
                            /\ ColonAt(1) <= ColonAt(j) /\ EndAt(j) + 3 <= TextEnd
  BY <1>5, ReadableFacts, EndGrammar, HeaderGrammar, InOrder
<1>7. now_read_line_begin \in Nat /\ index \in Nat
  BY DEF ParserShape
<1>a. TextEnd \in Nat /\ received \in Nat /\ Gone \in Nat
  BY <1>5, <1>6
<1>b. LinePlace = Gone + now_read_line_begin + 1 /\ Place = Gone + index + 1
  BY DEF LinePlace, Place
<1>8. CASE parse_state_ = "START"
  <2>1. AtStart
    BY <1>8, StageAt
  <2>2. /\ Gone' = sent.eol /\ Place = received + 1 /\ sent.eol \in Nat
        /\ Place <= sent.eol + 2
    <3>1. Gone' = Gone + now_read_line_begin
      BY <1>1, <1>8
    <3>2. /\ ~finish /\ Gone = sent.eol /\ now_read_line_begin = 0
          /\ Place \in sent.eol + 1 .. sent.eol + 2
      BY <2>1 DEF AtStart
    <3>3. Place = received + 1
      BY <1>1, <3>2
    <3>4. QED
      BY <1>a, <3>1, <3>2, <3>3
  <2>3. Gone' = sent'.eol /\ received' <= sent'.eol + 1
    BY <1>2, <1>5, <2>2
  <2>4. TakenTo(0)'
    BY <1>2, <2>1, SameHeaders DEF AtStart
  <2>5. QED
    BY <1>1, <1>2, <1>3, <1>8, <2>3, <2>4 DEF Stage, Between
<1>9. CASE parse_state_ \in {"KEY", "COLON", "SPACES_AFTER_COLON", "VALUE", "CR"}
  <2>1. PICK j \in Headers : InHeader(j)
    BY <1>9, StageAt
  <2>2. /\ TakenTo(j - 1) /\ Place = received + 1
        /\ LinePlace = IF j = 1 THEN KeyAt(j) ELSE KeyAt(j) - 1
    BY <1>1, <2>1 DEF InHeader
  <2>3. /\ KeyAt(j) \in Nat /\ ColonAt(j) \in Nat /\ EndAt(j) \in Nat /\ ColonAt(1) \in Nat
        /\ KeyAt(j) < ColonAt(j) /\ ColonAt(j) + 2 <= EndAt(j)
        /\ ColonAt(1) <= ColonAt(j) /\ EndAt(j) + 3 <= TextEnd
    BY <1>6
  <2>4. CASE parse_state_ = "KEY"
    <3>1. Place >= KeyAt(j) /\ Place <= ColonAt(j)
      BY <2>1, <2>3, <2>4 DEF InHeader
    <3>2. CASE j = 1
      <4>1. LinePlace = KeyAt(1) /\ TakenTo(0)
        BY <2>2, <3>2
      <4>2. Gone' = KeyAt(1) - 1
        <5>1. Gone' = Gone + now_read_line_begin
          BY <1>1, <2>4
        <5>2. QED
          BY <1>5, <1>7, <4>1, <5>1 DEF LinePlace
      <4>3. received < ColonAt(1)
        BY <1>5, <2>2, <2>3, <3>1, <3>2
      <4>4. TakenTo(0)'
        BY <1>2, <4>1, SameHeaders
      <4>5. Gone' = KeyAt(1)' - 1 /\ received' < ColonAt(1)'
        BY <1>2, <1>4, <4>2, <4>3
      <4>6. QED
        BY <1>1, <1>2, <1>3, <2>4, <4>4, <4>5 DEF Stage, Between
    <3>3. CASE j # 1
      <4>1. j - 1 \in Headers
        <5>1. Count \in Nat /\ Headers = 1 .. Count
          BY <1>6
        <5>2. QED
          BY <3>3, <5>1
      <4>2. KeyAt(j) = EndAt(j - 1) + 2
        BY <1>5, <3>3, HeaderGrammar
      <4>3. /\ EndAt(j - 1) \in Nat /\ ColonAt(j - 1) \in Nat
            /\ ColonAt(j - 1) + 2 <= EndAt(j - 1) /\ ColonAt(1) <= ColonAt(j - 1)
        BY <1>6, <4>1
      <4>4. ColonAt(1) <= received /\ received < TextEnd - 1
        <5>1. Place = received + 1
          BY <2>2
        <5>2. QED
          BY <1>a, <2>3, <3>1, <4>2, <4>3, <5>1
      <4>5. ColonAt(1)' <= received' /\ received' < TextEnd' - 1
        BY <1>2, <1>4, <4>4
      <4>6. QED
        BY <1>1, <1>2, <1>3, <2>4, <4>5 DEF Stage, Between
    <3>4. QED
      BY <3>2, <3>3
  <2>5. CASE parse_state_ # "KEY"
    <3>1. Place >= ColonAt(j) + 1 /\ Place <= EndAt(j) + 1
      BY <1>9, <2>1, <2>3, <2>5 DEF InHeader
    <3>2. ColonAt(1) <= received /\ received < TextEnd - 1
      <4>1. Place = received + 1
        BY <2>2
      <4>2. QED
        BY <1>a, <2>3, <3>1, <4>1
    <3>3. ColonAt(1)' <= received' /\ received' < TextEnd' - 1
      BY <1>2, <1>4, <3>2
    <3>4. QED
      BY <1>1, <1>2, <1>3, <1>9, <3>3 DEF Stage, Between
  <2>6. QED
    BY <2>4, <2>5
<1>10. CASE parse_state_ = "LF"
  <2>1. PICK j \in Headers : Behind(j)
    BY <1>10, StageAt
  <2>2. Place = received + 1 /\ Place = EndAt(j) + 2
    BY <1>1, <2>1 DEF Behind
  <2>3. /\ ColonAt(j) \in Nat /\ EndAt(j) \in Nat /\ ColonAt(1) \in Nat
        /\ ColonAt(j) + 2 <= EndAt(j) /\ ColonAt(1) <= ColonAt(j) /\ EndAt(j) + 3 <= TextEnd
    BY <1>6
  <2>4. ColonAt(1) <= received /\ received < TextEnd - 1
    BY <1>a, <2>2, <2>3
  <2>5. ColonAt(1)' <= received' /\ received' < TextEnd' - 1
    BY <1>2, <1>4, <2>4
  <2>6. QED
    BY <1>1, <1>2, <1>3, <1>10, <2>5 DEF Stage, Between
<1>11. CASE parse_state_ \in {"END_CR", "END_LF"} /\ lastCut < ColonAt(1) /\ AtEnd
  <2>1. TakenTo(Count)'
    BY <1>2, <1>11, SameCount DEF AtEnd
  <2>2. CASE parse_state_ = "END_CR"
    <3>1. Place = TextEnd /\ LinePlace = TextEnd - 2 /\ Place = received + 1
      BY <1>1, <1>11, <2>2 DEF AtEnd
    <3>2. Gone' = TextEnd - 3
      <4>1. Gone' = Gone + now_read_line_begin
        BY <1>1, <2>2
      <4>2. QED
        BY <1>7, <1>a, <1>b, <3>1, <4>1
    <3>3. received = TextEnd - 1
      BY <1>a, <3>1
    <3>4. Gone' = TextEnd' - 3 /\ received' = TextEnd' - 1
      BY <1>2, <1>4, <3>2, <3>3
    <3>5. QED
      BY <1>1, <1>2, <1>3, <2>1, <2>2, <3>4 DEF Stage, Between
  <2>3. CASE parse_state_ = "END_LF"
    <3>1. inBuffer_' = Part(TextEnd + 2, received)
      <4>1. CASE finish
        BY <1>1, <1>11, <2>3, <4>1 DEF AtEnd
      <4>2. CASE ~finish
        <5>1. Place = TextEnd + 1 /\ Place = received + 1
          BY <1>1, <1>11, <2>3, <4>2 DEF AtEnd
        <5>2. received = TextEnd
          BY <1>a, <5>1
        <5>3. /\ SubSeq(sent.text, TextEnd + 1, TextEnd) = <<>>
              /\ SubSeq(sent.text, TextEnd + 2, TextEnd) = <<>>
          BY <1>a, SubSeqEmpty
        <5>4. QED
          BY <1>1, <2>3, <5>1, <5>2, <5>3 DEF Part
      <4>3. QED
        BY <4>1, <4>2
    <3>2. lastCut # TextEnd - 1
      <4>1. /\ ColonAt(Count) \in Nat /\ EndAt(Count) \in Nat /\ ColonAt(1) \in Nat
            /\ ColonAt(Count) + 2 <= EndAt(Count) /\ ColonAt(1) <= ColonAt(Count)
            /\ EndAt(Count) + 3 = TextEnd
        <5>1. Count \in Headers
          BY <1>6
        <5>2. QED
          BY <1>6, <5>1
      <4>2. lastCut \in Nat /\ lastCut < ColonAt(1)
        BY <1>11 DEF ParserShape
      <4>3. QED
        BY <4>1, <4>2
    <3>3. (IF lastCut = TextEnd - 1 THEN Part(TextEnd, received)
           ELSE Part(TextEnd + 2, received))' = Part(TextEnd + 2, received)
      BY <1>2, <1>4, <3>2 DEF Part
    <3>4. (ReadAsSent /\ FineTo(Count))'
      BY <1>3, <2>1, <3>1, <3>3 DEF ReadAsSent, LineRead, TakenTo, Count, TextEnd
    <3>5. QED
      BY <1>1, <1>2, <2>3, <3>4 DEF Stage, Between
  <2>4. QED
    BY <1>11, <2>2, <2>3
<1>12. CASE /\ parse_state_ \in {"END_CR", "END_LF"}
            /\ lastCut = TextEnd - 1 /\ received >= TextEnd /\ AtEndAgain
  <2>1. TakenTo(Count)'
    BY <1>2, <1>12, SameCount DEF AtEndAgain
  <2>2. Len(inBuffer_) >= 3 /\ Len(inBuffer_) \in Nat
    BY <1>5, <1>6, <1>12, BufferTyped DEF AtEndAgain
  <2>3. finish
    <3>1. SUFFICES ASSUME ~finish PROVE FALSE
      OBVIOUS
    <3>2. index = 0 \/ index = 1
      BY <1>12, <3>1 DEF AtEndAgain
    <3>3. QED
      BY <1>2, <2>2, <3>1, <3>2
  <2>4. parse_state_ = "END_LF" /\ index = 2 /\ Gone = TextEnd - 3
    BY <1>12, <2>3 DEF AtEndAgain
  <2>5. Place = TextEnd
    BY <1>6, <2>4 DEF Place
  <2>6. inBuffer_' = Part(TextEnd, received)
    BY <1>1, <2>4, <2>5
  <2>7. (IF lastCut = TextEnd - 1 THEN Part(TextEnd, received)
         ELSE Part(TextEnd + 2, received))' = Part(TextEnd, received)
    BY <1>2, <1>4, <1>12 DEF Part
  <2>8. (ReadAsSent /\ FineTo(Count))'
    BY <1>3, <2>1, <2>6, <2>7 DEF ReadAsSent, LineRead, TakenTo, Count, TextEnd
  <2>9. QED
    BY <1>1, <1>2, <2>4, <2>8 DEF Stage, Between
<1>13. QED
  BY <1>8, <1>9, <1>10, <1>11, <1>12, StageAt

-----------------------------------------------------------------------------
(* The request line.                                                       *)
LEMMA LineTextFacts ==
  ASSUME sent \in Sendable
  PROVE  /\ LineText \in Seq(Chars) /\ Len(LineText) = sent.eol - 1
         /\ \A p \in 1 .. sent.eol - 1 : LineText[p] = sent.text[p]
         /\ sent.eol <= Len(sent.text)
<1>a. /\ sent.space \in Nat /\ sent.eol \in Nat
      /\ sent.space >= 4 /\ sent.eol >= sent.space + 3
  BY LineGrammar
<1>1. /\ sent.text \in Seq(Chars) /\ Len(sent.text) \in Nat
      /\ sent.eol \in Nat /\ sent.eol >= 1
  BY <1>a, TextTyped
<1>2. sent.eol <= Len(sent.text)
  <2>1. IsRequest(sent) /\ sent.headers \in Seq([key : Nat, colon : Nat, end : Nat])
    BY RequestsAssumption DEF IsRequest
  <2>2. CASE sent.headers = <<>>
    <3>1. Len(sent.headers) + 1 = 1
      BY <2>2
    <3>2. LineBefore(sent, Len(sent.headers) + 1) = sent.eol
      BY <3>1 DEF LineBefore
    <3>3. HeadersEnd(sent) = sent.eol + 3 /\ HeadersEnd(sent) <= Len(sent.text)
      BY <2>1, <3>2 DEF HeadersEnd, IsRequest
    <3>4. QED
      BY <1>1, <3>3
  <2>3. CASE sent.headers # <<>>
    <3>1. /\ Headers = 1 .. Count /\ Count \in Nat /\ Count >= 1 /\ TextEnd <= Len(sent.text)
          /\ TextEnd \in Nat
      BY <2>3, EndGrammar
    <3>2. 1 \in Headers
      BY <3>1
    <3>3. /\ KeyAt(1) = sent.eol + 2 /\ KeyAt(1) < ColonAt(1) /\ ColonAt(1) + 2 <= EndAt(1)
          /\ ColonAt(1) \in Nat /\ EndAt(1) \in Nat
      BY <3>2, HeaderGrammar
    <3>4. EndAt(1) + 3 <= TextEnd
      BY <2>3, <3>2, InOrder
    <3>5. QED
      BY <1>1, <3>1, <3>3, <3>4
  <2>4. QED
    BY <2>2, <2>3
<1>3. /\ SubSeq(sent.text, 1, sent.eol - 1) \in Seq(Chars)
      /\ Len(SubSeq(sent.text, 1, sent.eol - 1)) = (sent.eol - 1) - 1 + 1
      /\ \A p \in 1 .. (sent.eol - 1) - 1 + 1 :
           SubSeq(sent.text, 1, sent.eol - 1)[p] = sent.text[1 + p - 1]
  <2> DEFINE b == sent.eol - 1
  <2>1. b \in 0 .. Len(sent.text) /\ 1 <= b + 1
    BY <1>1, <1>2
  <2> HIDE DEF b
  <2>2. /\ SubSeq(sent.text, 1, b) \in Seq(Chars) /\ Len(SubSeq(sent.text, 1, b)) = b - 1 + 1
        /\ \A p \in 1 .. b - 1 + 1 : SubSeq(sent.text, 1, b)[p] = sent.text[1 + p - 1]
    BY <1>1, <2>1, SubSeqFacts
  <2>3. QED
    BY <2>2 DEF b
<1>4. QED
  BY <1>1, <1>2, <1>3 DEF LineText, Part

(* A line with its parts in their places. *)
LaidOut(line, space) ==
  /\ line[1] # "/" /\ line[2] = " " /\ line[3] = "/" /\ line[space] = " "
  /\ line[space + 1] = "HTTP" /\ line[space + 2] = "/"
  /\ \A p \in 4 .. space - 1 : line[p] # " "

LEMMA FindsInLine ==
  ASSUME NEW S, NEW line \in Seq(S), NEW space \in Nat, space >= 4, space + 2 <= Len(line),
         LaidOut(line, space)
  PROVE  /\ find(line, line[1], 1) = 1 /\ find(line, "/", 1) = 3
         /\ find(line, " ", 3) = space /\ find(line, "/", space) = space + 2
<1>1. Len(line) \in Nat
  OBVIOUS
<1>2. find(line, line[1], 1) = 1
  <2>1. 1 \in 1 .. Len(line) /\ \A p \in 1 .. 1 - 1 : line[p] # line[1]
    BY <1>1
  <2>2. QED
    BY <2>1, FindsFirst
<1>3. find(line, "/", 1) = 3
  <2>1. 3 \in 1 .. Len(line)
    BY <1>1
  <2>2. \A p \in 1 .. 3 - 1 : p = 1 \/ p = 2
    OBVIOUS
  <2>3. \A p \in 1 .. 3 - 1 : line[p] # "/"
    BY <2>2 DEF LaidOut
  <2>4. QED
    BY <2>1, <2>3, FindsFirst DEF LaidOut
<1>4. find(line, " ", 3) = space
  <2>1. space \in 3 .. Len(line)
    BY <1>1
  <2>2. \A p \in 3 .. space - 1 : p = 3 \/ p \in 4 .. space - 1
    OBVIOUS
  <2>3. \A p \in 3 .. space - 1 : line[p] # " "
    BY <2>2 DEF LaidOut
  <2>4. QED
    BY <2>1, <2>3, FindsFirst DEF LaidOut
<1>5. find(line, "/", space) = space + 2
  <2>1. space + 2 \in space .. Len(line)
    BY <1>1
  <2>2. \A p \in space .. (space + 2) - 1 : p = space \/ p = space + 1
    OBVIOUS
  <2>3. \A p \in space .. (space + 2) - 1 : line[p] # "/"
    BY <2>2 DEF LaidOut
  <2>4. QED
    BY <2>1, <2>3, FindsFirst DEF LaidOut
<1>6. QED
  BY <1>2, <1>3, <1>4, <1>5

LEMMA LineFinds ==
  ASSUME sent \in Sendable, Readable
  PROVE  /\ find(LineText, MethodOf(LineText), 1) = 1 /\ find(LineText, "/", 1) = 3
         /\ find(LineText, " ", 3) = sent.space
         /\ find(LineText, "/", sent.space) = sent.space + 2
<1>a. /\ sent.space \in Nat /\ sent.eol \in Nat
      /\ sent.space >= 4 /\ sent.eol >= sent.space + 3
  BY LineGrammar
<1>1. /\ sent.space \in Nat /\ sent.eol \in Nat
      /\ sent.text[2] = " " /\ sent.text[3] = "/"
      /\ sent.space >= 4 /\ \A p \in 4 .. sent.space - 1 : sent.text[p] # " "
      /\ sent.text[sent.space] = " " /\ sent.text[sent.space + 1] = "HTTP"
      /\ sent.text[sent.space + 2] = "/" /\ sent.eol >= sent.space + 3
  BY LineGrammar
<1>2. /\ LineText \in Seq(Chars) /\ Len(LineText) = sent.eol - 1
      /\ \A p \in 1 .. sent.eol - 1 : LineText[p] = sent.text[p]
  BY LineTextFacts
<1>3. sent.text[1] \in Methods /\ MethodOf(LineText) = sent.text[1]
  BY DEF Readable
<1>4. /\ LineText[1] = sent.text[1] /\ LineText[2] = " " /\ LineText[3] = "/"
      /\ LineText[sent.space] = " " /\ LineText[sent.space + 1] = "HTTP"
      /\ LineText[sent.space + 2] = "/"
      /\ \A p \in 4 .. sent.space - 1 : LineText[p] # " "
  <2> DEFINE sp == sent.space
             e == sent.eol
  <2>1. /\ sp \in Nat /\ e \in Nat /\ sp >= 4 /\ e >= sp + 3
    BY <1>a
  <2>2. /\ \A p \in 1 .. e - 1 : LineText[p] = sent.text[p]
        /\ \A p \in 4 .. sp - 1 : sent.text[p] # " "
        /\ sent.text[sp] = " " /\ sent.text[sp + 1] = "HTTP" /\ sent.text[sp + 2] = "/"
    BY <1>1, <1>2
  <2> HIDE DEF sp, e
  <2>3. /\ 1 \in 1 .. e - 1 /\ 2 \in 1 .. e - 1 /\ 3 \in 1 .. e - 1
        /\ sp \in 1 .. e - 1 /\ sp + 1 \in 1 .. e - 1 /\ sp + 2 \in 1 .. e - 1
        /\ \A p \in 4 .. sp - 1 : p \in 1 .. e - 1
    BY <2>1
  <2>4. /\ LineText[1] = sent.text[1] /\ LineText[2] = sent.text[2]
        /\ LineText[3] = sent.text[3] /\ LineText[sp] = " " /\ LineText[sp + 1] = "HTTP"
        /\ LineText[sp + 2] = "/" /\ \A p \in 4 .. sp - 1 : LineText[p] # " "
    BY <2>2, <2>3
  <2>5. QED
    BY <1>1, <2>4 DEF sp
<1>5. LineText[1] # "/"
  BY <1>3, <1>4 DEF Methods
<1>6. sent.space + 2 <= Len(LineText)
  BY <1>a, <1>2
<1>7. QED
  <2>1. LaidOut(LineText, sent.space)
    BY <1>4, <1>5 DEF LaidOut
  <2>2. sent.space \in Nat /\ sent.space >= 4 /\ LineText \in Seq(Chars)
    BY <1>a, <1>2
  <2>3. /\ find(LineText, LineText[1], 1) = 1 /\ find(LineText, "/", 1) = 3
        /\ find(LineText, " ", 3) = sent.space
        /\ find(LineText, "/", sent.space) = sent.space + 2
    BY <1>6, <2>1, <2>2, FindsInLine
  <2>4. MethodOf(LineText) = LineText[1]
    BY <1>3, <1>4
  <2>5. QED
    BY <2>3, <2>4

LEMMA LineParsed ==
  ASSUME sent \in Sendable, Readable, ParseLine(LineText)
  PROVE  /\ state_' = "headers" /\ method_' = sent.text[1] /\ version_' = Version
         /\ filename_' = IF Path = <<>> THEN Index ELSE Named(Path)
<1>1. sent.text \in Seq(Chars)
  BY LineGrammar
<1>a. /\ sent.space \in Nat /\ sent.eol \in Nat
      /\ sent.space >= 4 /\ sent.eol >= sent.space + 3
  BY LineGrammar
<1>2. /\ Len(LineText) = sent.eol - 1 /\ LineText = SubSeq(sent.text, 1, sent.eol - 1)
      /\ sent.eol <= Len(sent.text) /\ Len(sent.text) \in Nat
  BY LineTextFacts, TextTyped DEF LineText, Part
<1>3. /\ sent.text[1] \in Methods /\ MethodOf(LineText) = sent.text[1] /\ Version \in Versions
  BY DEF Readable
<1>4. \A p \in Nat, q \in Nat : p >= 1 /\ q <= sent.eol - 1 =>
        SubSeq(LineText, p, q) = SubSeq(sent.text, p, q)
  <2> SUFFICES ASSUME NEW p \in Nat, NEW q \in Nat, p >= 1, q <= sent.eol - 1
               PROVE  SubSeq(LineText, p, q) = SubSeq(sent.text, p, q)
    OBVIOUS
  <2> DEFINE b == sent.eol - 1
             one == 1
  <2>1. b \in 0 .. Len(sent.text) /\ one \in Nat /\ one >= 1 /\ one <= b + 1 /\ q <= b - one + 1
    <3>1. sent.eol <= Len(sent.text) /\ Len(sent.text) \in Nat
      BY <1>2
    <3>2. QED
      BY <1>a, <3>1
  <2>2. one + p - 1 = p /\ one + q - 1 = q
    OBVIOUS
  <2> HIDE DEF b, one
  <2>3. SubSeq(SubSeq(sent.text, one, b), p, q) = SubSeq(sent.text, one + p - 1, one + q - 1)
    BY <1>1, <2>1, PartOfPart
  <2>4. SubSeq(SubSeq(sent.text, one, b), p, q) = SubSeq(sent.text, p, q)
    BY <2>2, <2>3
  <2>5. QED
    BY <1>2, <2>4 DEF b, one
<1>5. Len(Version) = 3 /\ Len(Version) = sent.eol - sent.space - 3
  <2>1. Len(Version) = 3
    BY <1>3 DEF Versions
  <2>2. Len(Version) = sent.eol - sent.space - 3
    <3> DEFINE a == sent.space + 3
               b == sent.eol - 1
    <3>1. a \in Nat /\ a >= 1 /\ b \in 0 .. Len(sent.text) /\ a <= b + 1
          /\ b - a + 1 = sent.eol - sent.space - 3
      <4>1. sent.eol <= Len(sent.text) /\ Len(sent.text) \in Nat
        BY <1>2
      <4>2. QED
        BY <1>a, <4>1
    <3> HIDE DEF a, b
    <3>2. Len(SubSeq(sent.text, a, b)) = b - a + 1
      BY <1>1, <3>1, SubSeqFacts
    <3>3. QED
      BY <3>1, <3>2 DEF Version, Part, a, b
  <2>3. QED
    BY <2>1, <2>2
<1>6. sent.eol - 1 = sent.space + 5
  <2>1. 3 = sent.eol - sent.space - 3
    BY <1>5
  <2>2. QED
    BY <1>a, <2>1
<1>7. SubSeq(LineText, sent.space + 3, sent.space + 5) = Version
  <2>1. SubSeq(LineText, sent.space + 3, sent.space + 5)
          = SubSeq(sent.text, sent.space + 3, sent.space + 5)
    <3>1. /\ sent.space + 3 \in Nat /\ sent.space + 5 \in Nat /\ sent.space + 3 >= 1
          /\ sent.space + 5 <= sent.eol - 1
      BY <1>a, <1>6
    <3>2. QED
      BY <1>4, <3>1
  <2>2. QED
    BY <1>6, <2>1 DEF Version, Part
<1>8. SubSeq(LineText, 4, sent.space - 1) = Path
  <2>1. 4 \in Nat /\ sent.space - 1 \in Nat /\ 4 >= 1 /\ sent.space - 1 <= sent.eol - 1
    BY <1>a
  <2>2. QED
    BY <1>4, <2>1 DEF Path, Part
<1>9. Path = <<>> <=> ~(sent.space - 3 > 1)
  <2> DEFINE b == sent.space - 1
  <2>1. b \in 0 .. Len(sent.text) /\ 4 <= b + 1 /\ b - 4 + 1 = sent.space - 4
    <3>1. sent.eol <= Len(sent.text) /\ Len(sent.text) \in Nat
      BY <1>2
    <3>2. QED
      BY <1>a, <3>1
  <2> HIDE DEF b
  <2>2. Len(SubSeq(sent.text, 4, b)) = b - 4 + 1 /\ SubSeq(sent.text, 4, b) \in Seq(Chars)
    BY <1>1, <2>1, SubSeqFacts
  <2>3. Path = SubSeq(sent.text, 4, b)
    BY DEF Path, Part, b
  <2>4. Len(Path) = sent.space - 4 /\ Path \in Seq(Chars)
    BY <2>1, <2>2, <2>3
  <2>5. Path = <<>> <=> Len(Path) = 0
    BY <2>4, EmptySeq
  <2>6. QED
    BY <1>a, <2>4, <2>5
<1>10. /\ find(LineText, MethodOf(LineText), 1) = 1 /\ find(LineText, "/", 1) = 3
       /\ find(LineText, " ", 3) = sent.space
       /\ find(LineText, "/", sent.space) = sent.space + 2
  BY LineFinds
<1> DEFINE method == MethodOf(LineText)
           slash == find(LineText, "/", find(LineText, method, 1))
           space == find(LineText, " ", slash)
           second == find(LineText, "/", space)
           complete == second # 0 /\ Len(LineText) - second >= 3
           version == IF complete THEN SubSeq(LineText, second + 1, second + 3) ELSE <<>>
<1>11. slash = 3 /\ space = sent.space /\ second = sent.space + 2
  BY <1>10
<1>12. method # "none"
  BY <1>3 DEF Methods
<1>13. version = Version
  <2>1. second + 1 = sent.space + 3 /\ second + 3 = sent.space + 5
    <3>1. second = sent.space + 2
      BY <1>11
    <3> HIDE DEF second
    <3>2. QED
      BY <1>a, <3>1
  <2>2. complete
    <3>1. second = sent.space + 2 /\ Len(LineText) = sent.space + 5
      BY <1>2, <1>6, <1>11
    <3> HIDE DEF second
    <3>2. QED
      BY <1>a, <3>1
  <2>3. SubSeq(LineText, second + 1, second + 3) = Version
    BY <1>7, <2>1
  <2>4. QED
    BY <2>2, <2>3
<1>14. /\ method_' = method
       /\ filename_' = IF space - slash > 1
                       THEN Named(SubSeq(LineText, slash + 1, space - 1)) ELSE Index
       /\ version_' = IF version \in Versions THEN version ELSE version_
       /\ state_' = IF version \in Versions THEN "headers" ELSE "error"
  <2>1. slash # 0 /\ space # 0
    <3>1. slash = 3 /\ space = sent.space
      BY <1>11
    <3> HIDE DEF slash, space
    <3>2. QED
      BY <1>a, <3>1
  <2>2. QED
    BY <1>12, <2>1 DEF ParseLine
<1>15. filename_' = IF Path = <<>> THEN Index ELSE Named(Path)
  <2>1. slash = 3 /\ space = sent.space
    BY <1>11
  <2>2. /\ slash + 1 = 4 /\ space - 1 = sent.space - 1 /\ space - slash = sent.space - 3
    <3> HIDE DEF slash, space
    <3>1. QED
      BY <2>1
  <2>3. filename_' = IF space - slash > 1
                     THEN Named(SubSeq(LineText, slash + 1, space - 1)) ELSE Index
    BY <1>14
  <2> HIDE DEF slash, space
  <2>4. filename_' = IF sent.space - 3 > 1 THEN Named(Path) ELSE Index
    BY <1>8, <2>2, <2>3
  <2>5. QED
    BY <1>9, <2>4
<1>16. QED
  BY <1>3, <1>13, <1>14, <1>15

-----------------------------------------------------------------------------
(* A read.                                                                 *)
LEMMA LineComes ==
  ASSUME ParserShape, Readable, Between, state_ = "uri", NEW n \in 1 .. Len(sent.text),
         HandleRead(n)
  PROVE  Stage'
<1> DEFINE buffer == inBuffer_ \o SubSeq(sent.text, received + 1, received + n)
           come == received + n
<1>1. /\ received + n <= Len(sent.text) /\ received' = received + n /\ sent' = sent
      /\ lastCut' = received /\ TakeLine(buffer) /\ headers_' = headers_
      /\ parse_state_' = parse_state_
      /\ index' = 0 /\ now_read_line_begin' = 0 /\ finish' = FALSE
  BY DEF HandleRead, StartLoop
<1>2. /\ parse_state_ = "START" /\ TakenTo(0) /\ Gone = 0 /\ received < sent.eol
      /\ phase = "read"
  BY DEF Between, HandleRead
<1>3. /\ buffer = SubSeq(sent.text, 1, come) /\ buffer \in Seq(Chars) /\ Len(buffer) = come
      /\ come \in 0 .. Len(sent.text)
  <2>1. /\ buffer = Part(Gone + 1, received + n) /\ buffer \in Seq(Chars)
        /\ Len(buffer) = Len(inBuffer_) + n /\ received + n \in 0 .. Len(sent.text)
    <3>1. received + n <= Len(sent.text) /\ n \in Nat
      BY <1>1
    <3>2. QED
      BY <3>1, Received, Zenon
  <2>2. Len(inBuffer_) = received - Gone /\ received \in Nat
    BY BufferTyped
  <2>3. Len(inBuffer_) = received
    BY <1>2, <2>2
  <2>4. Part(Gone + 1, received + n) = SubSeq(sent.text, 1, come)
    BY <1>2 DEF Part
  <2>5. QED
    BY <2>1, <2>3, <2>4
<1>4. /\ sent \in Sendable /\ sent.text \in Seq(Chars) /\ Len(sent.text) \in Nat
      /\ received \in Nat /\ come \in Nat
  <2>1. /\ sent \in Sendable /\ sent.text \in Seq(Chars) /\ Len(sent.text) \in Nat
        /\ received \in Nat
    BY BufferTyped
  <2>2. come \in 0 .. Len(sent.text)
    BY <1>3
  <2> HIDE DEF come, buffer
  <2>3. come \in Nat
    BY <2>1, <2>2
  <2>4. QED
    BY <2>1, <2>3
<1>5. /\ sent.eol \in Nat /\ sent.text[sent.eol] = CR
      /\ \A p \in 1 .. sent.eol - 1 : sent.text[p] # CR
  BY <1>4, LineGrammar
<1>a. sent.eol \in Nat /\ sent.eol >= 1
  <2>1. /\ sent.space \in Nat /\ sent.eol \in Nat
        /\ sent.space >= 4 /\ sent.eol >= sent.space + 3
    BY <1>4, LineGrammar
  <2>2. QED
    BY <2>1
<1>6. \A p \in 1 .. come : buffer[p] = sent.text[p]
  <2> HIDE DEF buffer, come
  <2>1. \A p \in 1 .. come - 1 + 1 : SubSeq(sent.text, 1, come)[p] = sent.text[1 + p - 1]
    BY <1>3, <1>4, SubSeqFacts
  <2>2. QED
    BY <1>3, <1>4, <2>1
<1>7. TakenTo(0)'
  BY <1>1, <1>2, SameHeaders
<1>8. CASE come < sent.eol
  <2>1. find(buffer, CR, 1) = 0
    <3> HIDE DEF buffer, come
    <3>1. \A p \in 1 .. come : p \in 1 .. sent.eol - 1
      BY <1>4, <1>a, <1>8
    <3>2. \A p \in 1 .. Len(buffer) : buffer[p] # CR
      BY <1>3, <1>5, <1>6, <3>1
    <3>3. QED
      BY <1>3, <3>2, FindsNone
  <2>2. inBuffer_' = buffer /\ phase' = phase /\ state_' = state_
    BY <1>1, <2>1 DEF TakeLine
  <2>3. Gone' = 0
    <3>1. Gone' = received' - Len(inBuffer_')
      BY DEF Gone
    <3>2. QED
      BY <1>1, <1>3, <1>4, <2>2, <3>1
  <2>4. received' < sent'.eol
    BY <1>1, <1>8
  <2>5. QED
    BY <1>1, <1>2, <1>7, <2>2, <2>3, <2>4 DEF Stage, Between
<1>9. CASE come >= sent.eol
  <2>1. find(buffer, CR, 1) = sent.eol
    <3> DEFINE e == sent.eol
    <3>1. e \in 1 .. Len(buffer)
      BY <1>3, <1>4, <1>9, <1>a
    <3>2. buffer[e] = CR /\ \A p \in 1 .. e - 1 : buffer[p] # CR
      <4>1. e \in 1 .. come /\ \A p \in 1 .. e - 1 : p \in 1 .. come
        BY <1>4, <1>9, <1>a
      <4> HIDE DEF buffer, come
      <4>2. QED
        BY <1>5, <1>6, <4>1
    <3> HIDE DEF buffer, e
    <3>3. find(buffer, CR, 1) = e
      <4>1. buffer \in Seq(Chars)
        BY <1>3
      <4> DEFINE one == 1
      <4>2. /\ one \in Nat /\ e \in one .. Len(buffer) /\ buffer[e] = CR
            /\ \A p \in one .. e - 1 : buffer[p] # CR
        BY <3>1, <3>2
      <4> HIDE DEF one, come
      <4>3. find(buffer, CR, one) = e
        BY <4>1, <4>2, FindsFirst
      <4>4. QED
        BY <4>3 DEF one
    <3>4. QED
      BY <3>3 DEF e
  <2>2. SubSeq(buffer, 1, sent.eol - 1) = LineText
    <3> DEFINE one == 1
               q == sent.eol - 1
    <3>1. come \in 0 .. Len(sent.text) /\ one \in Nat /\ one >= 1 /\ one <= come + 1
          /\ q \in Nat /\ q <= come - one + 1 /\ one + one - 1 = one /\ one + q - 1 = q
      BY <1>3, <1>4, <1>9, <1>a
    <3>2. buffer = SubSeq(sent.text, one, come)
      BY <1>3
    <3> HIDE DEF buffer, come, one, q
    <3>3. SubSeq(SubSeq(sent.text, one, come), one, q)
            = SubSeq(sent.text, one + one - 1, one + q - 1)
      BY <1>4, <3>1, PartOfPart
    <3>4. SubSeq(buffer, one, q) = SubSeq(sent.text, one, q)
      BY <3>1, <3>2, <3>3
    <3>5. QED
      BY <3>4 DEF LineText, Part, one, q
  <2>3. sent.eol # 0
    BY <1>a
  <2>4. /\ ParseLine(LineText)
        /\ state_' # "error" => inBuffer_' = from(buffer, sent.eol + 1) /\ phase' = "parse"
    <3> HIDE DEF buffer
    <3>1. TakeLine(buffer) /\ find(buffer, CR, 1) # 0
      BY <1>1, <2>1, <2>3
    <3>2. /\ ParseLine(SubSeq(buffer, 1, find(buffer, CR, 1) - 1))
          /\ inBuffer_' = IF state_' = "error" THEN <<>>
                          ELSE from(buffer, find(buffer, CR, 1) + 1)
          /\ phase' = IF state_' = "error" THEN "read" ELSE "parse"
      BY <3>1 DEF TakeLine
    <3>3. QED
      BY <2>1, <2>2, <3>2
  <2>5. /\ state_' = "headers" /\ method_' = sent.text[1] /\ version_' = Version
        /\ filename_' = IF Path = <<>> THEN Index ELSE Named(Path)
    BY <1>4, <2>4, LineParsed
  <2>6. inBuffer_' = from(buffer, sent.eol + 1) /\ phase' = "parse"
    BY <2>4, <2>5
  <2>7. LineRead'
    <3>1. Version' = Version /\ Path' = Path
      BY <1>1, SameRequest
    <3>2. QED
      BY <1>1, <2>5, <3>1 DEF LineRead
  <2>8. Gone' = sent.eol
    <3> DEFINE text == sent.text
               one == 1
               p == sent.eol + 1
    <3>1. text \in Seq(Chars) /\ one \in Nat /\ come \in 0 .. Len(text) /\ one >= 1
          /\ one <= come + 1 /\ p \in 1 .. come - one + 2 /\ buffer = SubSeq(text, one, come)
      BY <1>3, <1>4, <1>9, <1>a
    <3>2. come - one - p + 2 = come - sent.eol
      BY <1>4, <1>a
    <3>3. inBuffer_' = from(buffer, p)
      BY <2>6
    <3> HIDE DEF text, one, p, buffer, come
    <3>4. Len(from(SubSeq(text, one, come), p)) = come - one - p + 2
      BY <3>1, CutAt
    <3>5. Len(inBuffer_') = come - sent.eol
      BY <3>1, <3>2, <3>3, <3>4
    <3>6. Gone' = received' - Len(inBuffer_') /\ received' = come
      BY <1>1 DEF Gone, come
    <3>7. QED
      BY <1>4, <1>a, <3>5, <3>6
  <2>9. Place' = sent.eol + 1
    <3>1. Place' = Gone' + index' + 1
      BY DEF Place
    <3>2. QED
      BY <1>1, <1>a, <2>8, <3>1
  <2>10. AtStart'
    <3>1. Place' \in sent'.eol + 1 .. sent'.eol + 2 /\ Gone' = sent'.eol
      BY <1>1, <1>a, <2>8, <2>9
    <3>2. QED
      BY <1>1, <1>2, <1>7, <3>1 DEF AtStart
  <2>11. lastCut' < ColonAt(1)'
    <3>1. 1 \in Headers
      BY <1>4, ReadableFacts
    <3>2. KeyAt(1) = sent.eol + 2 /\ KeyAt(1) < ColonAt(1) /\ ColonAt(1) \in Nat
      BY <1>4, <3>1, HeaderGrammar
    <3>3. ColonAt(1)' = ColonAt(1) /\ lastCut' = received /\ received < sent.eol
      BY <1>1, <1>2, SameRequest
    <3>4. QED
      BY <1>4, <1>a, <3>2, <3>3
  <2>12. QED
    BY <2>6, <2>7, <2>10, <2>11 DEF Stage, Within
<1>10. QED
  BY <1>4, <1>8, <1>9, <1>a

LEMMA HeadersCome ==
  ASSUME ParserShape, Readable, Between, state_ = "headers", NEW n \in 1 .. Len(sent.text),
         HandleRead(n), SafeCut(received)
  PROVE  Stage'
<1> DEFINE buffer == inBuffer_ \o SubSeq(sent.text, received + 1, received + n)
<1>1. /\ received + n <= Len(sent.text) /\ received' = received + n /\ sent' = sent
      /\ lastCut' = received /\ headers_' = headers_ /\ parse_state_' = parse_state_
      /\ index' = 0 /\ key_start' = 0 /\ now_read_line_begin' = 0 /\ finish' = FALSE
      /\ inBuffer_' = buffer /\ phase' = "parse" /\ UNCHANGED request
  BY DEF HandleRead, StartLoop
<1>2. received \in Nat /\ Gone \in Nat /\ sent \in Sendable
  BY BufferTyped
<1>3. Gone' = Gone
  <2>1. Len(buffer) = Len(inBuffer_) + n
    BY <1>1, Received
  <2>2. Len(inBuffer_) = received - Gone /\ n \in Nat
    BY BufferTyped
  <2>3. Gone' = received' - Len(inBuffer_')
    BY DEF Gone
  <2> HIDE DEF buffer
  <2>4. Gone' = (received + n) - ((received - Gone) + n)
    BY <1>1, <2>1, <2>2, <2>3
  <2>5. QED
    BY <1>2, <2>2, <2>4
<1>4. Place' = Gone + 1 /\ LinePlace' = Gone + 1 /\ (Gone + key_start + 1)' = Gone + 1
  BY <1>1, <1>2, <1>3 DEF Place, LinePlace
<1>5. /\ KeyAt(1)' = KeyAt(1) /\ ColonAt(1)' = ColonAt(1) /\ TextEnd' = TextEnd
      /\ Headers' = Headers
  BY <1>1, SameRequest
<1>6. LineRead'
  BY <1>1, SameLine DEF Between
<1>7. 1 \in Headers /\ sent.headers # <<>>
  BY <1>2, ReadableFacts
<1>8. /\ KeyAt(1) = sent.eol + 2 /\ KeyAt(1) < ColonAt(1) /\ ColonAt(1) \in Nat
      /\ KeyAt(1) \in Nat
  BY <1>2, <1>7, HeaderGrammar
<1>a. sent.eol \in Nat
  BY <1>2, LineGrammar
<1>9. CASE parse_state_ = "START" /\ TakenTo(0) /\ Gone = sent.eol /\ received <= sent.eol + 1
  <2>1. Place' \in sent'.eol + 1 .. sent'.eol + 2 /\ Gone' = sent'.eol
    <3>1. Place' = Gone + 1 /\ sent'.eol = sent.eol /\ Gone = sent.eol /\ Gone' = Gone
      BY <1>1, <1>3, <1>4, <1>9
    <3>2. QED
      BY <1>a, <3>1
  <2>2. AtStart'
    BY <1>1, <1>9, <2>1, SameHeaders DEF AtStart
  <2>3. lastCut' < ColonAt(1)'
    <3>1. lastCut' = received /\ received <= sent.eol + 1 /\ ColonAt(1)' = ColonAt(1)
      BY <1>1, <1>5, <1>9
    <3>2. QED
      BY <1>2, <1>8, <1>a, <3>1
  <2>4. QED
    BY <1>1, <1>6, <2>2, <2>3 DEF Stage, Within
<1>10. CASE parse_state_ = "KEY" /\ TakenTo(0) /\ Gone = KeyAt(1) - 1 /\ received < ColonAt(1)
  <2>1. /\ Place' \in KeyAt(1)' .. ColonAt(1)' /\ LinePlace' = KeyAt(1)'
        /\ (Gone + key_start + 1)' = KeyAt(1)'
    <3>1. Gone + 1 = KeyAt(1)
      BY <1>8, <1>10
    <3>2. KeyAt(1) \in KeyAt(1) .. ColonAt(1)
      BY <1>8
    <3>3. QED
      BY <1>4, <1>5, <3>1, <3>2
  <2>2. TakenTo(1 - 1)'
    BY <1>1, <1>10, SameHeaders
  <2>3. InHeader(1)'
    BY <1>1, <1>10, <2>1, <2>2 DEF InHeader
  <2>4. lastCut' < ColonAt(1)'
    BY <1>1, <1>5, <1>10
  <2>5. QED
    BY <1>1, <1>5, <1>6, <1>7, <2>3, <2>4 DEF Stage, Within
<1>11. CASE /\ parse_state_ = "END_CR" /\ TakenTo(Count)
            /\ Gone = TextEnd - 3 /\ received = TextEnd - 1
  <2>1. AtEndAgain'
    <3>1. TakenTo(Count)'
      BY <1>1, <1>11, SameCount
    <3>2. Gone' = TextEnd' - 3
      BY <1>3, <1>5, <1>11
    <3>3. QED
      BY <1>1, <1>11, <3>1, <3>2 DEF AtEndAgain
  <2>2. lastCut' = TextEnd' - 1 /\ received' >= TextEnd'
    <3>1. /\ received' = received + n /\ lastCut' = received /\ received = TextEnd - 1
          /\ TextEnd' = TextEnd
      BY <1>1, <1>5, <1>11
    <3>2. TextEnd \in Nat /\ n \in Nat /\ n >= 1
      BY <1>2, <1>7, EndGrammar
    <3>3. QED
      BY <3>1, <3>2
  <2>3. QED
    BY <1>1, <1>6, <2>1, <2>2 DEF Stage, Within
<1>12. ~(ColonAt(1) <= received /\ received < TextEnd - 1)
  <2>1. received < ColonAt(1) \/ received >= TextEnd - 1
    BY <1>7 DEF SafeCut, ColonAt, TextEnd
  <2>2. TextEnd \in Nat
    BY <1>2, <1>7, EndGrammar
  <2>3. QED
    BY <1>2, <1>8, <2>1, <2>2
<1>13. QED
  BY <1>9, <1>10, <1>11, <1>12 DEF Between

-----------------------------------------------------------------------------
(* The invariant, and what it says of a request that was read.             *)
LEMMA ParserInitial == ParserInit => ParserInv
<1> SUFFICES ASSUME ParserInit PROVE ParserInv
  OBVIOUS
<1>1. ParserShape
  BY ShapeInitial
<1>2. TakenTo(0)
  <2>1. headers_ = <<>> /\ DOMAIN <<>> = {}
    BY DEF ParserInit
  <2>2. 1 .. 0 = {}
    OBVIOUS
  <2>3. QED
    BY <2>1, <2>2 DEF TakenTo, HeadersSent, FineTo
<1>3. Gone = 0 /\ received < sent.eol
  <2>1. received = 0 /\ Len(inBuffer_) = 0
    BY DEF ParserInit
  <2>2. /\ sent.space \in Nat /\ sent.eol \in Nat
        /\ sent.space >= 4 /\ sent.eol >= sent.space + 3
    BY LineGrammar DEF ParserInit
  <2>3. QED
    BY <2>1, <2>2 DEF Gone
<1>4. Between
  BY <1>2, <1>3 DEF Between, ParserInit
<1>5. QED
  BY <1>1, <1>4 DEF ParserInv, Stage, ParserInit

LEMMA ParserStep == ParserInv /\ [ParserNext]_parserVars => ParserInv'
<1> SUFFICES ASSUME ParserInv, [ParserNext]_parserVars PROVE ParserInv'
  OBVIOUS
<1>0. ParserShape /\ (safe /\ Readable => Stage)
  BY DEF ParserInv
<1>1. CASE HeaderLoop
  <2>1. ParserShape'
    BY <1>0, <1>1, ShapeLoop
  <2>2. phase = "parse" /\ sent' = sent /\ safe' = safe
    BY <1>1 DEF HeaderLoop, OnStart, OnKey, OnColon, OnSpaces, OnValue, OnCR, OnLF, OnEndCR,
                OnEndLF, Return, Loop, client
  <2>3. ASSUME safe', Readable' PROVE Stage'
    <3>1. safe /\ Readable
      BY <2>2, <2>3, SameReadable, Zenon
    <3>2. Within
      BY <1>0, <2>2, <3>1 DEF Stage
    <3>3. QED
      BY <1>0, <1>1, <3>1, <3>2, StartStage, KeyStage, ColonStage, ValueStage, CRStage, LFStage,
         EndStage, ReturnStage DEF HeaderLoop
  <2>4. QED
    BY <2>1, <2>3 DEF ParserInv
<1>2. ASSUME NEW n \in 1 .. Len(sent.text), HandleRead(n) PROVE ParserInv'
  <2>1. ParserShape'
    BY <1>0, <1>2, ShapeRead
  <2>2. /\ phase = "read" /\ sent' = sent /\ state_ \in {"uri", "headers"}
        /\ safe' = (safe /\ SafeCut(received))
    BY <1>2 DEF HandleRead
  <2>3. ASSUME safe', Readable' PROVE Stage'
    <3>1. safe /\ SafeCut(received) /\ Readable
      BY <2>2, <2>3, SameReadable, Zenon
    <3>2. Between
      BY <1>0, <2>2, <3>1 DEF Stage
    <3>3. QED
      BY <1>0, <1>2, <2>2, <3>1, <3>2, LineComes, HeadersCome
  <2>4. QED
    BY <2>1, <2>3 DEF ParserInv
<1>3. CASE UNCHANGED parserVars
  <2>1. /\ UNCHANGED <<sent, received, lastCut, safe, phase, inBuffer_, state_, parse_state_>>
        /\ UNCHANGED <<method_, filename_, version_, headers_, index, key_start, key_end>>
        /\ UNCHANGED <<value_start, value_end, now_read_line_begin, finish>>
    BY <1>3 DEF parserVars, client, request, locals
  <2>2. QED
    <3>1. Gone' = Gone /\ Place' = Place /\ LinePlace' = LinePlace
      BY <2>1 DEF Gone, Place, LinePlace
    <3>2. \A a, b : Part(a, b)' = Part(a, b)
      BY <2>1 DEF Part
    <3>3. Part(Gone + 1, received)' = Part(Gone + 1, received)
      BY <2>1, <3>1 DEF Part
    <3>4. ParserShape'
      BY <1>0, <2>1, <3>1, <3>3, Zenon DEF ParserInv, ParserShape
    <3>5. /\ \A j : /\ KeyAt(j)' = KeyAt(j) /\ ColonAt(j)' = ColonAt(j) /\ EndAt(j)' = EndAt(j)
                    /\ Length(j)' = Length(j)
          /\ Headers' = Headers /\ Count' = Count /\ TextEnd' = TextEnd
      BY <2>1, SameRequest
    <3>6. \A j : TakenTo(j)' <=> TakenTo(j)
      BY <2>1, SameHeaders
    <3>7. (LineRead' <=> LineRead) /\ (Readable' <=> Readable) /\ \A j : FineTo(j)' <=> FineTo(j)
      BY <2>1, SameLine, SameReadable, SameLengths DEF request
    <3>8. ReadAsSent' <=> ReadAsSent
      <4>1. /\ Path' = Path /\ Version' = Version /\ Key(1)' = Key(1)
            /\ HeadersEnd(sent)' = HeadersEnd(sent) /\ Len(sent.headers)' = Len(sent.headers)
        BY <2>1, SameRequest DEF Key, Part
      <4>2. HeadersSent(Len(sent.headers))' <=> HeadersSent(Len(sent.headers))
        BY <2>1 DEF HeadersSent, Key, Value, Part
      <4>3. /\ Part(HeadersEnd(sent), received)' = Part(HeadersEnd(sent), received)
            /\ Part(HeadersEnd(sent) + 2, received)' = Part(HeadersEnd(sent) + 2, received)
        BY <2>1 DEF Part
      <4>4. QED
        BY <2>1, <4>1, <4>2, <4>3 DEF ReadAsSent
    <3>9. Between' <=> Between
      BY <2>1, <3>1, <3>5, <3>6, <3>7, <3>8 DEF Between
    <3>10. /\ AtStart' <=> AtStart
           /\ \A j : (InHeader(j)' <=> InHeader(j)) /\ (Behind(j)' <=> Behind(j))
           /\ AtEnd' <=> AtEnd
           /\ AtEndAgain' <=> AtEndAgain
      BY <2>1, <3>1, <3>5, <3>6 DEF AtStart, InHeader, Behind, AtEnd, AtEndAgain
    <3>11. Within' <=> Within
      BY <2>1, <3>5, <3>7, <3>10 DEF Within
    <3>12. QED
      BY <1>0, <2>1, <3>4, <3>7, <3>9, <3>11 DEF ParserInv, Stage
<1>4. QED
  BY <1>1, <1>2, <1>3 DEF ParserNext

LEMMA ParserAlways == ParserSpec => []ParserInv
BY ParserInitial, ParserStep, PTL DEF ParserSpec

(* A request of which every header is fine is read as it was sent, however *)
(* it is cut where the code bears it; one with a value too long is refused *)
(* (parseURI and parseHeaders, httpdata.cc:232-383).                       *)
THEOREM ReadAsWritten == ParserSpec => []ParsedAsSent
<1>1. ParserInv => ParsedAsSent
  <2> SUFFICES ASSUME ParserInv, phase = "read", safe, Readable
               PROVE  IF \E j \in Headers : Length(j) > MaxValue + 1 THEN state_ # "done"
                      ELSE /\ state_ # "error"
                           /\ received = Len(sent.text) => state_ = "done"
                           /\ state_ = "done" => ReadAsSent
    BY DEF ParsedAsSent
  <2>1. ParserShape /\ Between
    BY DEF ParserInv, Stage
  <2>2. sent \in Sendable /\ received \in Nat /\ Len(sent.text) \in Nat
    BY <2>1, BufferTyped
  <2>3. Headers = 1 .. Count /\ MaxValue \in Nat
    BY <2>2, ReadableFacts
  <2>4. \A j \in Headers : Length(j) \in Int
    <3>1. \A j \in Headers : EndAt(j) \in Nat /\ ColonAt(j) \in Nat
      BY <2>2, HeaderGrammar
    <3>2. \A j : Length(j) = EndAt(j) - ColonAt(j) - 2
      BY DEF Length, EndAt, ColonAt
    <3>3. QED
      BY <3>1, <3>2
  <2>5. FineTo(Count) <=> ~(\E j \in Headers : Length(j) > MaxValue + 1)
    BY <2>3, <2>4 DEF FineTo
  <2>6. state_ = "done" => FineTo(Count) /\ ReadAsSent
    BY <2>1 DEF Between
  <2>7. state_ = "error" => ~FineTo(Count)
    BY <2>1 DEF Between
  <2>8. state_ \in {"uri", "headers"} => received < Len(sent.text)
    <3>1. 1 \in Headers /\ sent.headers # <<>>
      BY <2>2, ReadableFacts
    <3>2. /\ KeyAt(1) = sent.eol + 2 /\ KeyAt(1) < ColonAt(1) /\ ColonAt(1) + 2 <= EndAt(1)
          /\ ColonAt(1) \in Nat /\ EndAt(1) \in Nat /\ KeyAt(1) \in Nat
      BY <2>2, <3>1, HeaderGrammar
    <3>3. EndAt(1) + 3 <= TextEnd /\ TextEnd <= Len(sent.text) /\ TextEnd \in Nat
      BY <2>2, <3>1, InOrder, EndGrammar
    <3>4. sent.eol \in Nat
      BY <2>2, LineGrammar
    <3>5. state_ \in {"uri", "headers"} =>
            \/ received < sent.eol \/ received <= sent.eol + 1 \/ received < ColonAt(1)
            \/ received = TextEnd - 1 \/ received < TextEnd - 1
      BY <2>1 DEF Between
    <3>6. QED
      BY <2>2, <3>2, <3>3, <3>4, <3>5
  <2>9. state_ \in {"uri", "headers", "error", "done"}
    BY <2>1 DEF ParserShape
  <2>10. QED
    BY <2>2, <2>5, <2>6, <2>7, <2>8, <2>9
<1>2. QED
  BY <1>1, ParserAlways, PTL

=============================================================================
