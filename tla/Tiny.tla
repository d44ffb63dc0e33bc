-------------------------------- MODULE Tiny --------------------------------
(***************************************************************************)
(* The iterative Web server csapp/tiny.c with the parts of csapp/csapp.c   *)
(* it uses: the buffered reading of package Rio, and wrappers that end the *)
(* process when a system call fails.  The server serves one connection at  *)
(* a time and waits for what it needs; a CGI program runs in a child that  *)
(* writes to the connection while the parent waits for it.                 *)
(*                                                                         *)
(* The bytes of a request are single characters for a word of its first    *)
(* line or the text of a header; a response is the sequence of its parts,  *)
(* of which the program writes some in several calls of Rio_writen.        *)
(* Clients may stop sending or reading, and may reset their connection;    *)
(* files may be removed or emptied at any time; fork may fail, and a CGI   *)
(* program may never end.                                                  *)
(***************************************************************************)
EXTENDS Integers, Sequences, SequencesExt

CONSTANTS
  Clients, None,
  Chars,         \* the characters of requests, methods and URIs among them
  Requests,      \* what a client may send: [words, headers], with the words
                 \* of the first line, in order, and the text of the rest
  Garbage,       \* what the stack may hold where no word was put
  Files,         \* what is at each URI when the server starts
  MAXLINE, RIO_BUFSIZE,
  SendSizes,     \* bound: how much clients send at a time that do not send all
  SocketRoom     \* how many parts of a response fit the buffers of a connection

ASSUME TinyAssumption ==
  /\ MAXLINE \in Nat /\ MAXLINE > 2 /\ RIO_BUFSIZE \in Nat \ {0}
  /\ SendSizes \subseteq Nat \ {0} /\ SocketRoom \in Nat \ {0}
  /\ None \notin Clients

(* What stat may find at a URI: nothing, a file whose owner may not read   *)
(* or run it, what serve_static copies or, if parse_uri finds "cgi-bin" in *)
(* the URI, what serve_dynamic runs.  What its owner may read the server   *)
(* may not, if the file is a foreign one.                                  *)
Static == {"file", "empty", "foreign"}
Programs == {"program", "noexec"}
Kinds == {"none", "private"} \cup Static \cup Programs

(* What parts words, and is none. *)
White == {"CR", "NL"}

ASSUME ContentAssumption ==
  /\ None \notin Kinds
  /\ Files \in [DOMAIN Files -> Kinds]
  /\ White \subseteq Chars
  /\ Requests \subseteq [words : Seq(Chars \ White), headers : Seq(Chars)]

VARIABLES
  request,  \* of each client
  sent,     \* how many of its characters each client has sent
  conn,     \* its connection: "none", "backlog", "open" or "closed"
  fin, rst, \* it sends no more; it has reset the connection
  in,       \* what the server has not read of what it sent
  out,      \* what was written to it
  unread,   \* how much of that the client that is served has not read
  deaf,     \* that client reads no more
  queue,    \* the connections that wait for accept, in order
  disk,     \* what is at each URI now
  pc,       \* where the server is
  fd,       \* the client it serves
  rio,      \* the unread part of rio_buf
  line,     \* the line rio_readlineb reads, as far as it has come
  method, uri,  \* doit's: never initialised, they keep what they had
  stat,     \* what stat found
  todo,     \* what is to be written before the server goes on
  child,    \* where the CGI program is: "none", "exec", "run", "hung" or
            \* "dead"; "failed" if it could not be forked
  asked,    \* history: method and uri as they were used for each client
  found     \* history: what stat found for each client

clientVars == <<request, sent, fin, rst>>
outVars == <<out, unread, deaf>>
doitVars == <<rio, line, method, uri, stat, todo, asked, found>>
vars == <<clientVars, conn, in, outVars, queue, disk, pc, fd, doitVars, child>>

Blank == <<"CR", "NL">>
Text(r) == r.words \o <<"NL">> \o r.headers \o Blank

Init ==
  /\ request \in [Clients -> Requests]
  /\ sent = [c \in Clients |-> 0] /\ conn = [c \in Clients |-> "none"]
  /\ fin = [c \in Clients |-> FALSE] /\ rst = [c \in Clients |-> FALSE]
  /\ in = [c \in Clients |-> <<>>] /\ out = [c \in Clients |-> <<>>] 
  /\ unread = 0 /\ deaf = FALSE
  /\ queue = <<>> /\ disk = Files
  /\ pc = "accept" /\ fd = None /\ rio = <<>> /\ line = <<>>
  /\ method \in Garbage /\ uri \in Garbage
  /\ stat = "none" /\ todo = <<>> /\ child = "none"
  /\ asked = [c \in Clients |-> <<>>] /\ found = [c \in Clients |-> None]

-----------------------------------------------------------------------------
(* The clients and the file system.                                        *)
Apart == UNCHANGED <<pc, fd, doitVars>>

Connect(c) ==
  /\ conn[c] = "none"
  /\ conn' = [conn EXCEPT ![c] = "backlog"]
  /\ queue' = Append(queue, c)
  /\ Apart /\ UNCHANGED <<clientVars, in, outVars, disk, child>>

Sending(c) == conn[c] \in {"backlog", "open"} /\ ~fin[c] /\ ~rst[c]
                /\ sent[c] < Len(Text(request[c]))

Send(c) ==
  /\ Sending(c)
  /\ \E n \in {Len(Text(request[c])) - sent[c]}
               \cup {m \in SendSizes : m < Len(Text(request[c])) - sent[c]} :
       /\ sent' = [sent EXCEPT ![c] = @ + n]
       /\ in' = [in EXCEPT ![c] = @ \o SubSeq(Text(request[c]), sent[c] + 1, sent[c] + n)]
  /\ Apart /\ UNCHANGED <<request, fin, rst, conn, outVars, queue, disk, child>>

Shutdown(c) ==
  /\ Sending(c)
  /\ fin' = [fin EXCEPT ![c] = TRUE]
  /\ Apart /\ UNCHANGED <<request, sent, rst, conn, in, outVars, queue, disk, child>>

(* What was sent and not read is lost. *)
Reset(c) ==
  /\ conn[c] \in {"backlog", "open"} /\ ~rst[c]
  /\ rst' = [rst EXCEPT ![c] = TRUE]
  /\ in' = [in EXCEPT ![c] = <<>>]
  /\ Apart /\ UNCHANGED <<request, sent, fin, conn, outVars, queue, disk, child>>

(* The client that is served reads some of what was written to it. *)
Drain ==
  /\ fd # None /\ unread > 0 /\ ~deaf /\ ~rst[fd]
  /\ unread' \in 0 .. unread - 1
  /\ Apart /\ UNCHANGED <<clientVars, conn, in, out, deaf, queue, disk, child>>

(* It will read no more, which makes no difference before there is         *)
(* something to read.                                                      *)
StopReading ==
  /\ fd # None /\ unread > 0 /\ ~deaf /\ ~rst[fd]
  /\ deaf' = TRUE
  /\ Apart /\ UNCHANGED <<clientVars, conn, in, out, unread, queue, disk, child>>

ChangeFile(u) ==
  /\ disk[u] = "file"
  /\ \E s \in {"none", "empty"} : disk' = [disk EXCEPT ![u] = s]
  /\ Apart /\ UNCHANGED <<clientVars, conn, in, outVars, queue, child>>

-----------------------------------------------------------------------------
(* main and the reading of a request.                                      *)
Serving == UNCHANGED <<clientVars, queue, disk, child>>

(* Mutant of readinitb: what was left of the last request stays. *)
readinitbKeeps == rio' = rio

readinitb == rio' = <<>>

Accept ==
  /\ pc = "accept" /\ queue # <<>>
  /\ fd' = Head(queue) /\ queue' = Tail(queue)
  /\ conn' = [conn EXCEPT ![fd'] = "open"]
  /\ readinitb /\ line' = <<>>
  /\ unread' = 0 /\ deaf' = FALSE
  /\ pc' = "request"
  /\ UNCHANGED <<clientVars, in, out, disk, method, uri, stat, todo, asked, found, child>>

Reading == pc \in {"request", "first", "headers"}

(* unix_error: the process ends, and closes what is open. *)
Exit == pc' = "exited"

(* rio_read refills its empty buffer with what has come. *)
Refill ==
  /\ Reading /\ rio = <<>> /\ in[fd] # <<>>
  /\ LET n == IF Len(in[fd]) < RIO_BUFSIZE THEN Len(in[fd]) ELSE RIO_BUFSIZE
     IN  /\ rio' = SubSeq(in[fd], 1, n)
         /\ in' = [in EXCEPT ![fd] = SubSeq(@, n + 1, Len(@))]
  /\ Serving
  /\ UNCHANGED <<conn, outVars, pc, fd, line, method, uri, stat, todo, asked, found>>

ReadError ==
  /\ Reading /\ rio = <<>> /\ rst[fd]
  /\ Exit
  /\ Serving /\ UNCHANGED <<conn, in, outVars, fd, doitVars>>

(* A line ends behind its '\n' and where it fills the caller's buffer. *)
Ends(l) == l # <<>> /\ (Last(l) = "NL" \/ Len(l) = MAXLINE - 1)

(* rio_readlineb takes the characters of the line that are there. *)
TakeChars ==
  /\ Reading /\ rio # <<>> /\ ~Ends(line)
  /\ \E n \in 1 .. Len(rio) :
       /\ \A m \in 1 .. n - 1 : ~Ends(line \o SubSeq(rio, 1, m))
       /\ n = Len(rio) \/ Ends(line \o SubSeq(rio, 1, n))
       /\ line' = line \o SubSeq(rio, 1, n) /\ rio' = SubSeq(rio, n + 1, Len(rio))
  /\ Serving
  /\ UNCHANGED <<conn, in, outVars, pc, fd, method, uri, stat, todo, asked, found>>

(* The peer has sent its last: rio_read returns 0. *)
AtEof == rio = <<>> /\ in[fd] = <<>> /\ fin[fd] /\ ~rst[fd] /\ ~Ends(line)

(* What clienterror writes: its header and its page. *)
Error(number) == <<number, "page">>

(* Whether sscanf finds an i-th word, and what the i-th of doit's locals   *)
(* is then: nobody looks at the result of sscanf, and what it does not set *)
(* is what the last call of doit left there, or what came there since.     *)
HasWord(i) == i <= Len(line) /\ \A j \in 1 .. i : line[j] \notin White

Scanned(i, old) == IF HasWord(i) THEN {line[i]} ELSE {old} \cup Garbage

(* The request line, which is what there is of it at the end of the input. *)
RequestLine ==
  /\ pc = "request" /\ (Ends(line) \/ (AtEof /\ line # <<>>))
  /\ line' = <<>>
  /\ method' \in Scanned(1, method) /\ uri' \in Scanned(2, uri)
  /\ asked' = [asked EXCEPT ![fd] = <<method', uri'>>]
  /\ IF method' = "GET"
     THEN pc' = "first" /\ UNCHANGED todo
     ELSE pc' = "close" /\ todo' = Error("501")
  /\ Serving /\ UNCHANGED <<conn, in, outVars, fd, rio, stat, found>>

(* Mutant of NoRequest: the result of Rio_readlineb is not looked at. *)
NoRequestGoesOn ==
  /\ pc = "request" /\ AtEof /\ line = <<>>
  /\ pc' = "headers"
  /\ Serving /\ UNCHANGED <<conn, in, outVars, fd, doitVars>>

NoRequest ==
  /\ pc = "request" /\ AtEof /\ line = <<>>
  /\ pc' = "close"
  /\ Serving /\ UNCHANGED <<conn, in, outVars, fd, doitVars>>

(* read_requesthdrs looks for the blank line and nothing else.  At the end *)
(* of the input its buffer keeps the last line: it reads on for ever.      *)
HeaderLine ==
  /\ pc \in {"first", "headers"} /\ (Ends(line) \/ (AtEof /\ line # <<>>))
  /\ line' = <<>>
  /\ pc' = IF line = Blank THEN "stat" ELSE "headers"
  /\ Serving /\ UNCHANGED <<conn, in, outVars, fd, rio, method, uri, stat, todo, asked, found>>

(* Without any line its buffer was never written, and has what the stack   *)
(* had: the blank line of an earlier request, or something else for ever.  *)
NoHeaders ==
  /\ pc = "first" /\ AtEof /\ line = <<>>
  /\ pc' = "stat"
  /\ Serving /\ UNCHANGED <<conn, in, outVars, fd, doitVars>>

-----------------------------------------------------------------------------
(* The rest of doit.                                                       *)
Head200 == <<"200 OK">>
FileHead == Head200 \o <<"length and type">>

(* What is at u in d, or at some other name. *)
KindAt(d, u) == IF u \in DOMAIN d THEN d[u] ELSE "none"

(* parse_uri, stat and the tests of its result. *)
Stat ==
  /\ pc = "stat"
  /\ stat' = KindAt(disk, uri) /\ found' = [found EXCEPT ![fd] = stat']
  /\ \/ stat' = "none" /\ pc' = "close" /\ todo' = Error("404")
     \/ stat' = "private" /\ pc' = "close" /\ todo' = Error("403")
     \/ stat' \in Programs /\ pc' = "fork" /\ todo' = Head200
     \/ stat' \in Static /\ pc' = "open" /\ todo' = FileHead
  /\ Serving /\ UNCHANGED <<conn, in, outVars, fd, rio, line, method, uri, asked>>

Blocked == unread = SocketRoom

Put(part) == out' = [out EXCEPT ![fd] = Append(@, part)] /\ unread' = unread + 1 /\ UNCHANGED deaf

(* Rio_writen waits for room.  Writing to a connection that was reset ends *)
(* the server, by an error or by SIGPIPE; so does an error in reading what *)
(* is mapped from a file that has been emptied.                            *)
WriteFails ==
  rst[fd] \/ (~Blocked /\ Head(todo) = "body" /\ KindAt(disk, uri) = "empty")

Write ==
  /\ pc # "exited" /\ todo # <<>>
  /\ \/ WriteFails /\ Exit /\ UNCHANGED <<outVars, todo>>
     \/ ~WriteFails /\ ~Blocked /\ Put(Head(todo)) /\ todo' = Tail(todo) /\ UNCHANGED pc
  /\ Serving /\ UNCHANGED <<conn, in, fd, rio, line, method, uri, stat, asked, found>>

At(place) == pc = place /\ todo = <<>>

(* Open fails if the file has gone since stat or is one that the server    *)
(* may not read, Mmap if it was empty then.                                *)
Open ==
  /\ At("open")
  /\ IF KindAt(disk, uri) = "none" \/ stat \in {"empty", "foreign"}
     THEN Exit /\ UNCHANGED todo
     ELSE pc' = "close" /\ todo' = <<"body">>
  /\ Serving /\ UNCHANGED <<conn, in, outVars, fd, rio, line, method, uri, stat, asked, found>>

Fork ==
  /\ At("fork")
  /\ \/ child' = "exec" /\ pc' = "wait"
     \/ child' = "failed" /\ Exit
  /\ UNCHANGED <<clientVars, conn, in, outVars, queue, disk, fd, doitVars>>

(* What the child writes: the output of the program or, if it cannot be    *)
(* executed, the copy of the server's own buffered output, flushed by exit *)
(* to the client's descriptor.                                             *)
Output == IF stat = "program" THEN "output" ELSE "log"

ChildRuns ==
  /\ \/ child = "exec" /\ rst[fd] /\ child' = "dead" /\ UNCHANGED outVars
     \/ child = "exec" /\ ~rst[fd] /\ ~Blocked /\ child' = "run" /\ Put(Output)
     \/ child = "run" /\ child' = "dead" /\ UNCHANGED outVars
  /\ UNCHANGED <<clientVars, conn, in, queue, disk, pc, fd, doitVars>>

(* The program never ends. *)
ProgramHangs ==
  /\ child \in {"exec", "run"} /\ stat = "program"
  /\ child' = "hung"
  /\ Apart /\ UNCHANGED <<clientVars, conn, in, outVars, queue, disk>>

Wait ==
  /\ At("wait") /\ child = "dead"
  /\ child' = "none" /\ pc' = "close"
  /\ UNCHANGED <<clientVars, conn, in, outVars, queue, disk, fd, doitVars>>

Close ==
  /\ At("close")
  /\ conn' = [conn EXCEPT ![fd] = "closed"]
  /\ fd' = None /\ pc' = "accept"
  /\ Serving /\ UNCHANGED <<in, outVars, doitVars>>

Server ==
  \/ Accept \/ Refill \/ ReadError \/ TakeChars
  \/ RequestLine \/ NoRequest \/ HeaderLine \/ NoHeaders
  \/ Stat \/ Write \/ Open \/ Fork \/ Wait \/ Close

Environment ==
  \/ \E c \in Clients : Connect(c) \/ Send(c) \/ Shutdown(c) \/ Reset(c)
  \/ Drain \/ StopReading \/ ProgramHangs
  \/ \E u \in DOMAIN disk : ChangeFile(u)

Next == Server \/ ChildRuns \/ Environment

(* The server runs on, and a CGI program that does not hang; a client that *)
(* neither shuts down nor resets its connection sends its whole request,   *)
(* and one that has not stopped reading reads what is written to it.       *)
Spec == /\ Init /\ [][Next]_vars
        /\ WF_vars(Server) /\ WF_vars(ChildRuns) /\ WF_vars(Drain)
        /\ \A c \in Clients : WF_vars(Send(c))

-----------------------------------------------------------------------------
(* Hazard: one buffer serves one connection after the other, locals keep   *)
(* what the last call left, and two processes write to one descriptor.     *)
(* The words of a request line are taken as the client sent them, as far   *)
(* as it sent them; a word it did not send is that of a request served     *)
(* before, or garbage.  What is written to it is the response to these     *)
(* words, in order, and the whole of it before its connection is closed,   *)
(* unless it sent nothing at all (tiny.c:62-107, csapp.c:805-893).         *)
Page == FileHead \o <<"body">>

(* "log" is a part of the server's own output, which the copy of its       *)
(* buffer in the child makes part of the response: see Output.             *)
Answer == [none |-> Error("404"), private |-> Error("403"),
           file |-> Page, empty |-> Page, foreign |-> Page,
           program |-> Head200 \o <<"output">>, noexec |-> Head200 \o <<"log">>]

Response(c) ==
  IF asked[c] = <<>> THEN <<>>
  ELSE IF asked[c][1] # "GET" THEN Error("501")
  ELSE IF found[c] = None THEN <<>> ELSE Answer[found[c]]

(* The i-th words of the requests that were read, and garbage. *)
Left(i) == Garbage \cup {request[d].words[i] :
                           d \in {e \in Clients : asked[e] # <<>> /\ i <= Len(request[e].words)}}

MayBe(kind, first) == kind = first \/ (first = "file" /\ kind \in {"none", "empty"})

ServedAsAsked ==
  \A c \in Clients :
    /\ asked[c] # <<>> => \A i \in {1, 2} :
         IF i <= Len(request[c].words) /\ i <= sent[c]
         THEN asked[c][i] = request[c].words[i] ELSE asked[c][i] \in Left(i)
    /\ found[c] # None => asked[c] # <<>> /\ MayBe(found[c], KindAt(Files, asked[c][2]))
    /\ IsPrefix(out[c], Response(c))
    /\ conn[c] = "closed" /\ ~rst[c] /\ sent[c] > 0 => asked[c] # <<>> /\ out[c] = Response(c)

(* Hazard: everyone waits for the one that is served.  A connection is     *)
(* closed in the end unless some client shuts its connection down within   *)
(* its headers, for which the server spins, or resets it, or reads no more *)
(* of a response that does not fit its buffers; or a file is empty or not  *)
(* the server's to read when it is asked for, or changed meanwhile, or     *)
(* fork fails, which end the server; or a CGI program never ends           *)
(* (tiny.c:44-54, 114-125, 164-186, 210-227; csapp.c:70-94, 775-792).      *)
Fault ==
  \/ \E c \in Clients : rst[c] \/ (fin[c] /\ sent[c] > 0)
  \/ deaf /\ Blocked /\ (todo # <<>> \/ child = "exec")
  \/ disk # Files
  \/ \E c \in Clients : found[c] \in {"empty", "foreign"}
  \/ child \in {"failed", "hung"}

EachClosed == \A c \in Clients : conn[c] # "none" ~> (conn[c] = "closed" \/ Fault)
=============================================================================
