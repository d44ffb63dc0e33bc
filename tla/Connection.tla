------------------------------ MODULE Connection ------------------------------
(***************************************************************************)
(* The connections of one I/O loop: HttpData with its Channel, the Epoll   *)
(* that dispatches them and the timers that close them (glacier/           *)
(* httpdata.cc, channel.cc, epoll.cc, timer.cc, readn and writen of        *)
(* utils.cc).                                                              *)
(*                                                                         *)
(* The thread of the loop alternates between epoll_wait, the callbacks of  *)
(* the channels it reported, the queued functors (HttpData::newEvent) and  *)
(* the expired timers.  Peers send, half-close, reset and drain the        *)
(* sockets between any two system calls of that thread, and the epoll      *)
(* instance is edge-triggered.  The heap of timers is TimerManager's; here *)
(* a connection has at most one timer, which may become due at any time,   *)
(* however long keepAlive_ makes it.                                       *)
(*                                                                         *)
(* The input is a sequence of pieces: a request line, named for what the   *)
(* request asks for, or headers, complete or cut short.  A piece never     *)
(* splits a request line.  Output is counted in units.                     *)
(***************************************************************************)
EXTENDS Naturals, Sequences

CONSTANTS Conns,      \* connection slots: a descriptor and its HttpData
          Lines,      \* the request lines peers send, a subset of LineKinds
          MaxInput,   \* bound: pieces unread or unparsed of one connection
          SndBuf,     \* units the kernel buffers for a peer
          Response    \* units of a response with its file

LineKinds == {"get", "missing", "post", "head", "bad"}
Requests == LineKinds \ {"bad"}
Pieces == Lines \cup {"end", "part", "bad"}  \* headers: to the end; a part

ASSUME LinesAssumption == Lines \subseteq LineKinds
ASSUME SizesAssumption == /\ MaxInput \in Nat /\ SndBuf \in Nat \ {0}
                          /\ Response \in Nat \ {0}

VARIABLES
  pc,     \* where the loop's thread is
  cur,    \* the connection whose callbacks it is running
  rev,    \* revents_ of the active channels still to be handled
  batch,  \* connections whose newEvent functor has been taken to be run
  http,   \* HttpData, its Channel and its entries in Epoll, by connection
  sock    \* the socket and its epoll item in the kernel, by connection

vars == <<pc, cur, rev, batch, http, sock>>

(* st is state_, or the request's method while in PARSE_HEADERS; split is  *)
(* set when parseHeaders returned AGAIN; ev and last are events_ and       *)
(* lastevents_; chan, that fd2chan_ is set; obj is "queued", then "open"   *)
(* once the HttpData is in fd2http_; timer is "running", then "due".       *)
NoHttp == [obj |-> "none", in |-> <<>>, out |-> 0, conn |-> "connected",
           err |-> FALSE, st |-> "uri", split |-> FALSE,
           ev |-> {}, last |-> {}, chan |-> FALSE, timer |-> "none"]

(* rcv is the unread input, fin the peer's FIN; rst goes from "no" to      *)
(* "err", a reset still to be reported, to "dead"; free is room to write;  *)
(* armed and ready are of the epoll item.                                  *)
NewSock == [rcv |-> <<>>, fin |-> FALSE, rst |-> "no", free |-> SndBuf,
            armed |-> FALSE, ready |-> FALSE]

Init ==
  /\ pc = "poll" /\ cur \in Conns /\ batch = {}
  /\ rev = [c \in Conns |-> {}]
  /\ http = [c \in Conns |-> NoHttp]
  /\ sock = [c \in Conns |-> NewSock]

-----------------------------------------------------------------------------
(* The kernel.                                                             *)

(* What poll() says of a socket. *)
Events(s) ==
  (IF s.rcv # <<>> \/ s.fin \/ s.rst # "no" THEN {"IN"} ELSE {})
  \cup (IF s.free > 0 \/ s.rst # "no" THEN {"OUT"} ELSE {})
  \cup (IF s.rst = "err" THEN {"ERR"} ELSE {})
  \cup (IF s.rst # "no" THEN {"HUP"} ELSE {})

(* What epoll_wait reports of a connection c whose socket is s. *)
ReportedOf(c, s) ==
  IF s.armed THEN Events(s) \cap (http[c].last \cup {"ERR", "HUP"}) ELSE {}
Reported(c) == ReportedOf(c, sock[c])

(* An event that the epoll item asks for puts it on the ready list: data   *)
(* and room only if they are asked for by name.                            *)
Edge(c, e) == sock[c].ready \/ (sock[c].armed /\ e \in http[c].last)
Woken(c, s) == [s EXCEPT !.ready = @ \/ ReportedOf(c, s) # {}]

(* The epoll item is armed with mask: an event that is there is reported.  *)
Armed(s, mask) ==
  [s EXCEPT !.armed = TRUE, !.ready = @ \/ Events(s) \cap mask # {}]

-----------------------------------------------------------------------------
(* Peers, clock and acceptor.                                              *)

(* The steps of "handle" and "parse" make no system call: what others do   *)
(* during them they may as well do before the system call that follows.    *)
Others == pc \notin {"handle", "parse", "killed"}

Peer(c) == Others /\ http[c].obj # "none" /\ sock[c].rst = "no"

PeerSends(c, p) ==
  /\ Peer(c) /\ ~sock[c].fin
  /\ Len(sock[c].rcv) + Len(http[c].in) < MaxInput
  /\ sock' = [sock EXCEPT ![c].rcv = Append(@, p), ![c].ready = Edge(c, "IN")]
  /\ UNCHANGED <<pc, cur, rev, batch, http>>

PeerFinishes(c) ==
  /\ Peer(c) /\ ~sock[c].fin
  /\ sock' = [sock EXCEPT ![c] = Woken(c, [@ EXCEPT !.fin = TRUE])]
  /\ UNCHANGED <<pc, cur, rev, batch, http>>

PeerResets(c) ==
  /\ Peer(c)
  /\ sock' = [sock EXCEPT ![c] = Woken(c, [@ EXCEPT !.rst = "err"])]
  /\ UNCHANGED <<pc, cur, rev, batch, http>>

PeerDrains(c) ==
  /\ Peer(c) /\ sock[c].free < SndBuf
  /\ sock' = [sock EXCEPT ![c].free = @ + 1, ![c].ready = Edge(c, "OUT")]
  /\ UNCHANGED <<pc, cur, rev, batch, http>>

(* The clock: a timer becomes due. *)
TimerDue(c) ==
  /\ Others /\ http[c].timer = "running"
  /\ http' = [http EXCEPT ![c].timer = "due"]
  /\ UNCHANGED <<pc, cur, rev, batch, sock>>

(* The acceptor creates an HttpData and queues its newEvent. *)
Accept(c) ==
  /\ Others /\ http[c].obj = "none"
  /\ http' = [http EXCEPT ![c].obj = "queued"]
  /\ UNCHANGED <<pc, cur, rev, batch, sock>>

-----------------------------------------------------------------------------
(* Epoll.                                                                  *)

(* Epoll::poll: it returns with the channels of the descriptors reported,  *)
(* or with the wakeup channel when a functor has been queued; it goes on   *)
(* waiting, timers due or not, while there is neither.                     *)
Fired == {c \in Conns : sock[c].ready /\ http[c].chan /\ Reported(c) # {}}

PollReturns ==
  /\ pc = "poll"
  /\ rev' = [c \in Conns |-> IF c \in Fired THEN Reported(c) ELSE {}]
  /\ sock' = [c \in Conns |->
       [sock[c] EXCEPT
          !.ready = FALSE,
          !.armed = @ /\ ~(c \in Fired /\ "ONESHOT" \in http[c].last)]]
  /\ pc' = "handle"
  /\ UNCHANGED <<cur, batch, http>>

Poll ==
  /\ Fired # {} \/ \E c \in Conns : http[c].obj = "queued"
  /\ PollReturns

(* It returns for other channels of the loop only. *)
PollOther == Fired = {} /\ PollReturns

(* Channel::handleEvents up to its first callback.  No error callback is   *)
(* ever set: an error, like a hang-up, ends the handling at once.          *)
Dispatch(c) ==
  /\ pc = "handle" /\ rev[c] # {}
  /\ cur' = c
  /\ http' = [http EXCEPT ![c].ev = {}]
  /\ IF "ERR" \in rev[c] \/ ("HUP" \in rev[c] /\ "IN" \notin rev[c])
     THEN pc' = "handle" /\ rev' = [rev EXCEPT ![c] = {}]
     ELSE /\ pc' = IF "IN" \in rev[c] THEN "read" ELSE "write"
          /\ UNCHANGED rev
  /\ UNCHANGED <<batch, sock>>

(* Where handleEvents goes after the read callback. *)
AfterRead == IF "OUT" \in rev[cur] THEN "write" ELSE "conn"

-----------------------------------------------------------------------------
(* HttpData::handleRead.                                                   *)

(* Mutant of ReadN: one piece is read, not all there is. *)
ReadOnce ==
  /\ pc = "read"
  /\ sock[cur].rcv # <<>>
  /\ sock' = [sock EXCEPT ![cur].rcv = Tail(@)]
  /\ http' = [http EXCEPT ![cur].in = Append(@, Head(sock[cur].rcv))]
  /\ pc' = "parse"
  /\ UNCHANGED <<cur, rev, batch>>

(* readn reads all there is.  The first tests of handleRead follow: what   *)
(* arrives after the peer's FIN was seen is dropped; a failed read is      *)
(* answered with an error; end of file disconnects, but a request that     *)
(* came with it is still parsed.                                           *)
ReadN ==
  LET h == http[cur]
      s == sock[cur]
      got == h.in \o s.rcv
      closing == h.conn = "disconnecting"
      failed == ~closing /\ s.rst = "err"
      eof == ~closing /\ ~failed /\ (s.fin \/ s.rst = "dead")
  IN  /\ pc = "read"
      /\ sock' = [sock EXCEPT ![cur].rcv = <<>>,
                              ![cur].rst = IF @ = "err" THEN "dead" ELSE @]
      /\ http' = [http EXCEPT
           ![cur].in = IF closing THEN <<>> ELSE got,
           ![cur].err = @ \/ failed,
           ![cur].conn = IF eof THEN "disconnecting" ELSE @]
      /\ pc' = IF failed THEN "error"
               ELSE IF closing \/ (eof /\ s.rcv = <<>>) THEN "flush"
               ELSE "parse"
      /\ UNCHANGED <<cur, rev, batch>>

(* Parsing works on the buffer alone. *)
Parsing(h) == pc = "parse" /\ h = http[cur] /\ UNCHANGED <<cur, rev, batch, sock>>

(* parseURI finds no complete request line, parseHeaders no blank line, or *)
(* the body of a POST is being received: nothing more is done.             *)
ParseAgain == \E h \in {http[cur]} :
  /\ Parsing(h)
  /\ h.in = <<>> \/ h.st = "body"
  /\ pc' = "flush"
  /\ UNCHANGED http

ParseURI == \E h \in {http[cur]} :
  /\ Parsing(h)
  /\ h.st = "uri" /\ h.in # <<>> /\ Head(h.in) \in Requests
  /\ http' = [http EXCEPT ![cur].st = Head(h.in), ![cur].in = Tail(@)]
  /\ UNCHANGED pc

(* The part of the headers that has come is parsed; the positions of the   *)
(* key and of the value, local to parseHeaders, are forgotten.             *)
ParsePart == \E h \in {http[cur]} :
  /\ Parsing(h)
  /\ h.st \in Requests /\ h.in # <<>> /\ Head(h.in) = "part"
  /\ http' = [http EXCEPT ![cur].split = TRUE, ![cur].in = Tail(@)]
  /\ UNCHANGED pc

(* A request line that is none (parseURI then drops the input), or headers *)
(* that are none; headers resumed in the middle of a line may fail too.    *)
ParseError == \E h \in {http[cur]} :
  /\ Parsing(h)
  /\ h.in # <<>>
  /\ \/ h.st = "uri" /\ Head(h.in) \notin Requests
     \/ h.st \in Requests /\ Head(h.in) \notin {"end", "part"}
     \/ h.st \in Requests /\ Head(h.in) = "end" /\ h.split
  /\ http' = [http EXCEPT ![cur].err = TRUE,
                          ![cur].in = IF h.st = "uri" THEN <<>> ELSE @]
  /\ pc' = "error"

(* The blank line has come and the request is analysed.  parseHeaders eats *)
(* the first character of what follows in the buffer, which is no request  *)
(* line any more; resumed, it may not.                                     *)
ParseHeaders ==
  LET h == http[cur]
      bitten == IF Len(h.in) > 1 THEN <<"bad">> \o SubSeq(h.in, 3, Len(h.in)) ELSE <<>>
  IN  /\ Parsing(h)
      /\ h.st \in Requests /\ h.in # <<>> /\ Head(h.in) = "end"
      /\ \E rest \in {bitten} \cup (IF h.split THEN {Tail(h.in)} ELSE {}),
            out \in IF h.st = "get" THEN {h.out + Response}
                    ELSE IF h.st = "missing" THEN {h.out, 0} ELSE {h.out} :
           http' = [http EXCEPT
             ![cur].in = rest,
             ![cur].out = out,
             ![cur].err = h.st \in {"missing", "head"},
             ![cur].st = CASE @ = "get" -> "finish" [] @ = "post" -> "body"
                           [] OTHER -> @]
      /\ pc' = CASE h.st = "missing" -> "error" [] h.st = "head" -> AfterRead
                 [] OTHER -> "flush"

(* handleError writes past outBuffer_ and drops what the socket does not   *)
(* take.  It writes twice: on a socket that was reset the second write, if *)
(* not the first, raises SIGPIPE, which nothing handles.                   *)
HandleError ==
  /\ pc = "error"
  /\ IF sock[cur].rst = "no"
     THEN /\ pc' = AfterRead
          /\ sock' = [sock EXCEPT ![cur].free = IF @ > 0 THEN @ - 1 ELSE 0]
     ELSE pc' = "killed" /\ UNCHANGED sock
  /\ UNCHANGED <<cur, rev, batch, http>>

-----------------------------------------------------------------------------
(* HttpData::handleWrite.                                                  *)

(* writen on a socket whose reset has already been reported: SIGPIPE. *)
Killed == http[cur].out > 0 /\ ~http[cur].err /\ sock[cur].rst = "dead"

(* What the socket takes of outBuffer_. *)
Taken(c) == IF http[c].err \/ sock[c].rst # "no" THEN 0
            ELSE IF http[c].out < sock[c].free THEN http[c].out ELSE sock[c].free

(* Mutant of Wrote: EPOLLOUT is not asked for. *)
WroteNoOut(c) == [http[c] EXCEPT !.out = @ - Taken(c)]

(* HttpData after handleWrite; its socket after handleWrite. *)
Wrote(c) ==
  LET h == http[c]
      left == h.out - Taken(c)
      failed == h.out > 0 /\ ~h.err /\ sock[c].rst = "err"
  IN  [h EXCEPT !.out = left,
                !.err = @ \/ failed,
                !.ev = IF h.err \/ left = 0 THEN @
                       ELSE IF failed THEN {"OUT"} ELSE @ \cup {"OUT"}]
WroteSock(c) ==
  [sock[c] EXCEPT !.free = @ - Taken(c),
                  !.rst = IF @ = "err" /\ Wrote(c).err /\ ~http[c].err THEN "dead" ELSE @]

(* The end of handleRead: the response is written as far as it goes and,   *)
(* the request finished, the HttpData is reset and the rest of the buffer  *)
(* read at once.                                                           *)
Flush ==
  LET h == Wrote(cur)
      finished == ~h.err /\ h.st = "finish"
  IN  /\ pc = "flush"
      /\ IF Killed
         THEN pc' = "killed" /\ UNCHANGED <<http, sock>>
         ELSE /\ sock' = [sock EXCEPT ![cur] = WroteSock(cur)]
              /\ http' = [http EXCEPT ![cur] =
                   IF finished
                   THEN [h EXCEPT !.st = "uri", !.split = FALSE, !.timer = "none"]
                   ELSE h]
              /\ pc' = IF finished /\ h.in # <<>> /\ h.conn = "connected"
                       THEN "read" ELSE AfterRead
      /\ UNCHANGED <<cur, rev, batch>>

(* The write callback. *)
HandleWrite ==
  /\ pc = "write"
  /\ IF Killed
     THEN pc' = "killed" /\ UNCHANGED <<http, sock>>
     ELSE /\ sock' = [sock EXCEPT ![cur] = WroteSock(cur)]
          /\ http' = [http EXCEPT ![cur] = Wrote(cur)]
          /\ pc' = "conn"
  /\ UNCHANGED <<cur, rev, batch>>

-----------------------------------------------------------------------------
(* HttpData::handleConn, which ends the handling of a channel.             *)

EndHandling ==
  /\ pc = "conn"
  /\ pc' = "handle"
  /\ rev' = [rev EXCEPT ![cur] = {}]
  /\ UNCHANGED <<cur, batch>>

(* Mutant of Rearm: the timer is added only if the mask changes. *)
RearmKeepsTimer == \E h \in {http[cur]} :
  LET mask == IF h.ev = {} THEN {"IN"} ELSE {"OUT"}
  IN  /\ EndHandling
      /\ ~h.err /\ h.conn = "connected"
      /\ http' = [http EXCEPT ![cur].last = mask,
                              ![cur].timer = IF mask = h.last THEN "none" ELSE "running"]
      /\ sock' = [sock EXCEPT ![cur] = Armed(@, mask)]

(* Mutant of Rearm: the epoll item is never modified. *)
RearmTimerOnly == \E h \in {http[cur]} :
  /\ EndHandling
  /\ ~h.err /\ h.conn = "connected"
  /\ http' = [http EXCEPT ![cur].timer = "running"]
  /\ UNCHANGED sock

(* The timer is replaced and the epoll item re-armed, if its mask changes; *)
(* should that fail, the channel is forgotten.                             *)
Rearm == \E h \in {http[cur]} :
  LET mask == IF h.ev = {} THEN {"IN"} ELSE IF "OUT" \in h.ev THEN {"OUT"} ELSE h.ev
  IN  /\ EndHandling
      /\ ~h.err /\ h.conn = "connected"
      /\ \E ok \in BOOLEAN :
           /\ mask = h.last => ok
           /\ http' = [http EXCEPT ![cur].ev = mask, ![cur].last = mask,
                                   ![cur].timer = "running",
                                   ![cur].chan = @ /\ ok]
           /\ sock' = IF mask = h.last \/ ~ok THEN sock
                      ELSE [sock EXCEPT ![cur] = Armed(@, mask)]

(* The peer has finished and output is left: the mask is set, and the      *)
(* timer separated, but neither is the epoll item re-armed nor a timer     *)
(* added.                                                                  *)
Linger == \E h \in {http[cur]} :
  /\ EndHandling
  /\ ~h.err /\ h.conn = "disconnecting" /\ "OUT" \in h.ev
  /\ http' = [http EXCEPT ![cur].ev = {"OUT"}, ![cur].timer = "none"]
  /\ UNCHANGED sock

(* handleClose, run at once: the last references to the HttpData go, and   *)
(* its destructor closes the descriptor.                                   *)
Close == \E h \in {http[cur]} :
  /\ EndHandling
  /\ h.err \/ (h.conn = "disconnecting" /\ "OUT" \notin h.ev)
  /\ http' = [http EXCEPT ![cur] = NoHttp]
  /\ sock' = [sock EXCEPT ![cur] = NewSock]

-----------------------------------------------------------------------------
(* The rest of an iteration.                                               *)

HandleDone ==
  /\ pc = "handle" /\ \A c \in Conns : rev[c] = {}
  /\ batch' = {c \in Conns : http[c].obj = "queued"}
  /\ pc' = "functors"
  /\ UNCHANGED <<cur, rev, http, sock>>

(* newEvent: epoll_add starts a timer; should the registration fail, the   *)
(* channel is forgotten and the timer stays.                               *)
NewEvent(c) ==
  /\ pc = "functors" /\ c \in batch
  /\ batch' = batch \ {c}
  /\ \E ok \in BOOLEAN :
       /\ http' = [http EXCEPT
            ![c].obj = "open", ![c].ev = {"IN", "ONESHOT"},
            ![c].last = {"IN", "ONESHOT"}, ![c].timer = "running",
            ![c].chan = ok]
       /\ sock' = IF ok THEN [sock EXCEPT ![c] = Armed(@, {"IN"})] ELSE sock
  /\ UNCHANGED <<pc, cur, rev>>

FunctorsDone ==
  /\ pc = "functors" /\ batch = {}
  /\ pc' = "expire"
  /\ UNCHANGED <<cur, rev, batch, http, sock>>

(* Mutant of HandleExpired: the timers are looked at before the channels   *)
(* that epoll_wait reported are handled.                                   *)
HandleExpiredFirst ==
  LET due == {c \in Conns : http[c].timer = "due"}
  IN  /\ pc \in {"expire", "handle"}
      /\ http' = [c \in Conns |-> IF c \in due THEN NoHttp ELSE http[c]]
      /\ sock' = [c \in Conns |-> IF c \in due THEN NewSock ELSE sock[c]]
      /\ pc' = IF pc = "expire" THEN "poll" ELSE pc
      /\ UNCHANGED <<cur, rev, batch>>

(* handleExpired: destroying a timer that is due closes its connection. *)
HandleExpired ==
  LET due == {c \in Conns : http[c].timer = "due"}
  IN  /\ pc = "expire"
      /\ http' = [c \in Conns |-> IF c \in due THEN NoHttp ELSE http[c]]
      /\ sock' = [c \in Conns |-> IF c \in due THEN NewSock ELSE sock[c]]
      /\ pc' = "poll"
      /\ UNCHANGED <<cur, rev, batch>>

-----------------------------------------------------------------------------

Handling ==
  \/ ReadN \/ ParseAgain \/ ParseURI \/ ParsePart \/ ParseError \/ ParseHeaders
  \/ HandleError \/ Flush \/ HandleWrite \/ Rearm \/ Linger \/ Close

LoopStep ==
  \/ Poll \/ Handling \/ HandleDone \/ FunctorsDone \/ HandleExpired
  \/ \E c \in Conns : Dispatch(c) \/ NewEvent(c)

Environment ==
  \/ PollOther
  \/ \E c \in Conns :
    \/ Accept(c) \/ PeerFinishes(c) \/ PeerResets(c) \/ PeerDrains(c)
    \/ TimerDue(c)
    \/ \E p \in Pieces : PeerSends(c, p)

Next == LoopStep \/ Environment

Spec == Init /\ [][Next]_vars

(* The thread of the loop is scheduled; peers and clock owe nothing. *)
FairSpec == Spec /\ WF_vars(LoopStep)

-----------------------------------------------------------------------------
(* Properties.                                                             *)

Waiting(c) == http[c].obj = "open" /\ rev[c] = {} /\ pc # "killed"

(* The callbacks hold a raw pointer to the HttpData: a channel that was    *)
(* reported is handled while its HttpData exists, whatever the handling of *)
(* the other channels did before (channel.cc:12-49, httpdata.cc:55-57).    *)
HandledAlive ==
  \A c \in Conns : rev[c] # {} => http[c].obj = "open" /\ http[c].chan

(* A connection that is not being handled has a timer to close it, except  *)
(* one whose peer finished while its response was blocked                  *)
(* (httpdata.cc:171-197).                                                  *)
TimedUnlessLingering ==
  \A c \in Conns :
    Waiting(c) /\ http[c].timer = "none"
    => http[c].conn = "disconnecting"

(* Edge-triggered, yet no input of a connected peer is left unread without *)
(* an edge to come, unless the peer has to make room first                 *)
(* (httpdata.cc:82-197, utils.cc:127-149).                                 *)
NoInputForgotten ==
  \A c \in Conns :
    /\ Waiting(c) /\ http[c].chan /\ http[c].conn = "connected"
    /\ sock[c].rst = "no" /\ (sock[c].rcv # <<>> \/ sock[c].fin)
    => (sock[c].ready /\ "IN" \in Reported(c)) \/ http[c].last = {"OUT"}

(* Nor is a connected peer that has made room left waiting, whether there  *)
(* still is output for it or not (httpdata.cc:159-186).                    *)
NoOutputForgotten ==
  \A c \in Conns :
    /\ Waiting(c) /\ http[c].chan /\ http[c].conn = "connected"
    /\ sock[c].rst = "no" /\ sock[c].free > 0
    /\ http[c].out > 0 \/ http[c].last = {"OUT"}
    => sock[c].ready /\ "OUT" \in Reported(c)

(* handleConn closes a connection with output left only after an error.    *)
NoTruncation ==
  [][\A c \in Conns :
       Close /\ cur = c => http[c].err \/ http[c].out = 0]_vars

(* What a peer sends is read, unless it has to make room first, whatever   *)
(* the other connections do (epoll.cc:60-85, channel.cc:12-49).            *)
InputServed ==
  \A c \in Conns :
    (Waiting(c) /\ http[c].chan /\ sock[c].rcv # <<>> /\ sock[c].rst = "no")
    ~> (sock[c].rcv = <<>> \/ http[c].last = {"OUT"} \/ sock[c].rst # "no"
        \/ http[c].obj = "none" \/ pc = "killed")

(* HttpData "is closed on a timeout by means of a timer" (httpdata.h:55).  *)
ClosedOnTimeout ==
  \A c \in Conns :
    http[c].timer = "due" /\ http[c].chan
    ~> http[c].timer # "due" \/ pc = "killed"

=============================================================================
