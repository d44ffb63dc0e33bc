-------------------------------- MODULE Server --------------------------------
(***************************************************************************)
(* The way of a descriptor through the server: TcpServer (glacier/         *)
(* tcpserver.cc) accepts it in the main loop, EventLoopThreadPool gives it *)
(* to an I/O loop in turn, the functor HttpData::newEvent enters it into   *)
(* that loop's Epoll, and it is taken out and closed there.  The number of *)
(* a closed descriptor is the next one that accept returns, in the thread  *)
(* of the main loop, and may go to another loop.  Files that responses are *)
(* read from take descriptors for a moment.                                *)
(*                                                                         *)
(* What a loop does with a connection in between is Connection's; the      *)
(* queue of functors is EventLoop's, here a sequence.                      *)
(***************************************************************************)
EXTENDS Naturals, FiniteSetsExt, SequencesExt

CONSTANTS NumLoops,    \* I/O loops: the threads, or the main loop alone
          NumFds,      \* descriptors the process may have open
          Limit,       \* MAXFDS
          MaxConns     \* bound: connections that clients open

ASSUME NumbersAssumption ==
  NumLoops \in Nat \ {0} /\ NumFds \in Nat /\ Limit \in Nat /\ MaxConns \in Nat

VARIABLES
  arrived,  \* connections opened so far
  backlog,  \* how many of them wait to be accepted
  edge,     \* the listening socket is on the main loop's ready list
  armed,    \* its epoll item asks for input
  acc,      \* where the main loop is in the acceptor's callbacks
  errno,    \* why the last round of accept ended
  hand,     \* the set of the descriptor just accepted
  next,     \* next_, counting from one
  open,     \* descriptors of connections that are open
  lost,     \* history: open ones that nothing refers to any more
  pending,  \* queued newEvent functors of each loop
  http, chan, \* fd2http_ and fd2chan_ of each loop: the entries that are set
  reg,      \* descriptors registered with each loop's epoll instance
  closing,  \* those whose HttpData is being destroyed
  file      \* the descriptor of the file that a loop is reading

acceptor == <<backlog, edge, armed, acc, errno, hand, next, lost>>
tables == <<pending, http, chan, reg, closing>>
vars == <<arrived, acceptor, open, tables, file>>

Loops == 1..NumLoops
Fds == 1..NumFds       \* 0 is taken long before: the loop takes it for a failure
Usable == 1..Limit-1   \* indices of fd2chan_ and fd2http_

Init ==
  /\ arrived = 0 /\ backlog = 0 /\ edge = FALSE /\ armed = TRUE
  /\ acc = "idle" /\ errno = "EAGAIN" /\ hand = {} /\ next = 1
  /\ open = {} /\ lost = {}
  /\ pending = [l \in Loops |-> <<>>]
  /\ http = [l \in Loops |-> {}] /\ chan = [l \in Loops |-> {}]
  /\ reg = [l \in Loops |-> {}] /\ closing = [l \in Loops |-> {}]
  /\ file = [l \in Loops |-> {}]

-----------------------------------------------------------------------------
(* The listening socket, edge-triggered.                                   *)

ClientConnects ==
  /\ arrived < MaxConns
  /\ arrived' = arrived + 1
  /\ backlog' = backlog + 1
  /\ edge' = (edge \/ armed)
  /\ UNCHANGED <<armed, acc, errno, hand, next, lost, open, tables, file>>

(* The main loop takes the item from the ready list; it handles the        *)
(* acceptor's channel if there still is something to accept and the item   *)
(* asks for it.                                                            *)
ListenReady ==
  /\ acc = "idle" /\ edge
  /\ edge' = FALSE
  /\ acc' = IF backlog > 0 /\ armed THEN "accept" ELSE "idle"
  /\ UNCHANGED <<arrived, backlog, armed, errno, hand, next, lost, open, tables, file>>

-----------------------------------------------------------------------------
(* TcpServer::handleNewConn                                                *)

Free == Fds \ (open \cup UNION {file[l] : l \in Loops})

Lowest == {fd \in Free : \A g \in Free : fd <= g}

(* accept returns the lowest free descriptor; one beyond the limit is      *)
(* closed again.                                                           *)
Accept ==
  /\ acc = "accept" /\ backlog > 0
  /\ backlog' = backlog - 1
  /\ \E fd \in Lowest :
       IF fd >= Limit
       THEN UNCHANGED <<acc, hand, open, file>>
       ELSE /\ hand' = {fd}
            /\ open' = open \cup {fd}
            /\ acc' = "setup"
  /\ UNCHANGED <<arrived, edge, armed, errno, next, lost, tables, file>>

(* Its HttpData is created and newEvent queued to the loop whose turn it   *)
(* is (getNextLoop).                                                       *)
GiveToLoop ==
  /\ acc = "setup"
  /\ \E fd \in hand : pending' = [pending EXCEPT ![next] = Append(@, fd)]
  /\ next' = (next % NumLoops) + 1
  /\ hand' = {}
  /\ acc' = "accept"
  /\ UNCHANGED <<arrived, backlog, edge, armed, errno, lost, open,
                 http, chan, reg, closing, file>>

(* setSocketNonBlocking fails: the handler returns at once, the descriptor *)
(* stays open and the mask empty.                                          *)
SetupFails ==
  /\ acc = "setup"
  /\ lost' = lost \cup hand
  /\ hand' = {}
  /\ errno' = "fcntl"
  /\ acc' = "conn"
  /\ UNCHANGED <<arrived, backlog, edge, armed, next, open, tables, file>>

(* Mutant of AcceptEnds: one connection is accepted per event. *)
AcceptOne ==
  /\ acc = "accept"
  /\ errno' = "EAGAIN"
  /\ acc' = "conn"
  /\ UNCHANGED <<arrived, backlog, edge, armed, hand, next, lost, open, tables, file>>

(* accept fails, for want of a connection or of a descriptor, or because   *)
(* the client has gone: the loop ends all the same.                        *)
AcceptEnds ==
  /\ acc = "accept"
  /\ \/ backlog = 0 /\ errno' = "EAGAIN" /\ UNCHANGED backlog
     \/ backlog > 0 /\ Free = {} /\ errno' = "EMFILE" /\ UNCHANGED backlog
     \/ backlog > 0 /\ errno' = "ECONNABORTED" /\ backlog' = backlog - 1
  /\ acc' = "conn"
  /\ UNCHANGED <<arrived, edge, armed, hand, next, lost, open, tables, file>>

(* handleThisConn: the mask is the one registered last, and the item left  *)
(* alone; but an empty one disarms it.                                     *)
HandleThisConn ==
  /\ acc = "conn"
  /\ armed' = (armed /\ errno # "fcntl")
  /\ acc' = "idle"
  /\ UNCHANGED <<arrived, backlog, edge, errno, hand, next, lost, open, tables, file>>

-----------------------------------------------------------------------------
(* The I/O loops.                                                          *)

(* newEvent: epoll_add enters the HttpData and the channel; the channel is *)
(* taken out again if the registration fails.                              *)
NewEvent(l) ==
  /\ pending[l] # <<>>
  /\ LET fd == Head(pending[l]) IN
     /\ http' = [http EXCEPT ![l] = @ \cup {fd}]
     /\ \/ /\ chan' = [chan EXCEPT ![l] = @ \cup {fd}]
           /\ reg' = [reg EXCEPT ![l] = @ \cup {fd}]
        \/ chan' = [chan EXCEPT ![l] = @ \ {fd}] /\ UNCHANGED reg
  /\ pending' = [pending EXCEPT ![l] = Tail(@)]
  /\ UNCHANGED <<arrived, acceptor, open, closing, file>>

(* epoll_mod fails: the channel is taken out, the registration stays. *)
ModFails(l, fd) ==
  /\ fd \in chan[l]
  /\ chan' = [chan EXCEPT ![l] = @ \ {fd}]
  /\ UNCHANGED <<arrived, acceptor, open, pending, http, reg, closing, file>>

(* Mutant of EpollDel: fd2http_ keeps the HttpData. *)
DelKeepsHttp(l, fd) ==
  /\ fd \in http[l]
  /\ reg' = [reg EXCEPT ![l] = @ \ {fd}]
  /\ chan' = [chan EXCEPT ![l] = @ \ {fd}]
  /\ closing' = [closing EXCEPT ![l] = @ \cup {fd}]
  /\ UNCHANGED <<arrived, acceptor, open, pending, http, file>>

(* Mutant of EpollDel: fd2chan_ keeps the channel. *)
DelKeepsChan(l, fd) ==
  /\ fd \in http[l]
  /\ reg' = [reg EXCEPT ![l] = @ \ {fd}]
  /\ http' = [http EXCEPT ![l] = @ \ {fd}]
  /\ closing' = [closing EXCEPT ![l] = @ \cup {fd}]
  /\ UNCHANGED <<arrived, acceptor, open, pending, chan, file>>

(* analysisRequest opens the file of a response, if it gets a descriptor,  *)
(* and closes it when it has copied it.                                    *)
OpenFile(l) ==
  /\ http[l] # {}
  /\ \E fd \in Lowest : file' = [file EXCEPT ![l] = {fd}]
  /\ UNCHANGED <<arrived, acceptor, open, tables>>

CloseFile(l) ==
  /\ file[l] # {}
  /\ file' = [file EXCEPT ![l] = {}]
  /\ UNCHANGED <<arrived, acceptor, open, tables>>

(* handleClose, at the end of a handling or by a timer: epoll_del.         *)
EpollDel(l, fd) ==
  /\ fd \in http[l]
  /\ reg' = [reg EXCEPT ![l] = @ \ {fd}]
  /\ chan' = [chan EXCEPT ![l] = @ \ {fd}]
  /\ http' = [http EXCEPT ![l] = @ \ {fd}]
  /\ closing' = [closing EXCEPT ![l] = @ \cup {fd}]
  /\ UNCHANGED <<arrived, acceptor, open, pending, file>>

(* ~HttpData closes the descriptor. *)
CloseFd(l, fd) ==
  /\ fd \in closing[l]
  /\ closing' = [closing EXCEPT ![l] = @ \ {fd}]
  /\ open' = open \ {fd}
  /\ UNCHANGED <<arrived, acceptor, pending, http, chan, reg, file>>

-----------------------------------------------------------------------------

AcceptorStep ==
  \/ ListenReady \/ Accept \/ GiveToLoop \/ SetupFails \/ AcceptEnds
  \/ HandleThisConn

LoopStep(l) ==
  \/ CloseFile(l)
  \/ /\ file[l] = {}
     /\ \/ NewEvent(l) \/ OpenFile(l)
        \/ \E fd \in Fds : ModFails(l, fd) \/ EpollDel(l, fd) \/ CloseFd(l, fd)

Next == ClientConnects \/ AcceptorStep \/ \E l \in Loops : LoopStep(l)

Spec == Init /\ [][Next]_vars

-----------------------------------------------------------------------------
(* Properties.                                                             *)

(* What a loop has to do with: in its functors, in its table, and about to *)
(* be closed.                                                              *)
Waiting(l) == ToSet(pending[l])
OfLoop(l) == Waiting(l) \cup http[l] \cup closing[l]

(* An open descriptor is in one place: in the acceptor's hand, in one      *)
(* functor of one loop, in the table of one loop, about to be closed, or   *)
(* lost; and nothing refers to a closed one, whose number another loop may *)
(* be given next (tcpserver.cc:35-56, epoll.cc:15-58, httpdata.h:65).      *)
DescriptorOwned ==
  /\ open = hand \cup lost \cup UNION {OfLoop(l) : l \in Loops}
  /\ hand \cap lost = {}
  /\ \A l \in Loops :
       /\ IsInjective(pending[l])
       /\ (hand \cup lost) \cap OfLoop(l) = {}
       /\ Waiting(l) \cap http[l] = {}
       /\ (Waiting(l) \cup http[l]) \cap closing[l] = {}
       /\ \A m \in Loops \ {l} : OfLoop(l) \cap OfLoop(m) = {}

(* An event that a loop's epoll instance reports finds the connection it   *)
(* is about, or no channel at all; a channel in the table has its HttpData *)
(* there and is registered (epoll.cc:15-58, 72-85).                        *)
TablesAgree ==
  \A l \in Loops : chan[l] \subseteq reg[l] /\ reg[l] \subseteq http[l]

(* No connection is left in the backlog without an edge to come, unless    *)
(* accept has failed (tcpserver.cc:35-58).                                 *)
NoBacklogForgotten ==
  acc = "idle" /\ backlog > 0 => edge \/ errno # "EAGAIN"

=============================================================================
