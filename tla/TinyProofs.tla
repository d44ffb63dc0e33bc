------------------------------ MODULE TinyProofs ------------------------------
(***************************************************************************)
(* Proofs about Tiny, for any clients, requests and files, any sizes of    *)
(* the buffers and any way in which requests come in parts: the words that *)
(* are used for a client are its own where it sent them, and what is       *)
(* written to it is the response to these words, in order, and the whole   *)
(* of it when its connection is closed.                                    *)
(*                                                                         *)
(* The invariant says what of a client's request is where (read as a line, *)
(* in rio_buf, in its socket), so that the request line is the one of the  *)
(* client that is served; that doit's locals hold words of requests that   *)
(* were read, or garbage; and that what was written to the client with     *)
(* what is still to be written, by the server and by the child, is its     *)
(* response.                                                               *)
(***************************************************************************)
EXTENDS Tiny, SequenceTheorems, TLAPS

Places == {"accept", "request", "first", "headers", "stat", "fork", "open", "wait",
           "close", "exited"}

(* The parts of the responses. *)
Parts == {"501", "404", "403", "page", "200 OK", "length and type", "body", "output", "log"}

(* What the locals of doit may hold for a word. *)
Words == Chars \cup Garbage

(* The type invariant. *)
Shape ==
  /\ request \in [Clients -> Requests]
  /\ sent \in [Clients -> Nat]
  /\ conn \in [Clients -> {"none", "backlog", "open", "closed"}]
  /\ fin \in [Clients -> BOOLEAN] /\ rst \in [Clients -> BOOLEAN]
  /\ in \in [Clients -> Seq(Chars)] /\ out \in [Clients -> Seq(Parts)]
  /\ unread \in 0 .. SocketRoom /\ deaf \in BOOLEAN
  /\ queue \in Seq(Clients)
  /\ disk \in [DOMAIN Files -> Kinds]
  /\ pc \in Places /\ fd \in (IF pc = "accept" THEN {None} ELSE Clients)
  /\ rio \in Seq(Chars) /\ line \in Seq(Chars)
  /\ method \in Words /\ uri \in Words
  /\ asked \in [Clients -> Seq(Words)]
  /\ todo \in Seq(Parts)
  /\ stat \in Kinds /\ child \in {"none", "exec", "run", "hung", "dead", "failed"}
  /\ found \in [Clients -> Kinds \cup {None}]

(* Every connection is in one place: in the queue, once, or served.        *)
Connections ==
  /\ \A i \in 1 .. Len(queue) : conn[queue[i]] = "backlog"
  /\ \A i, j \in 1 .. Len(queue) : queue[i] = queue[j] => i = j
  /\ \A c \in Clients : conn[c] = "open" <=> c = fd

(* s is what c sent from its k-th character on, as far as s goes.          *)
Follows(s, c, k) ==
  /\ k + Len(s) <= sent[c]
  /\ \A i \in 1 .. Len(s) : s[i] = Text(request[c])[k + i]

(* What c sent behind its first k characters waits to be read, or was lost. *)
Waits(c, k) == ~rst[c] => Len(in[c]) = sent[c] - k /\ Follows(in[c], c, k)

Input ==
  /\ \A c \in Clients : sent[c] <= Len(Text(request[c]))
  /\ \A c \in Clients : rst[c] => in[c] = <<>>
  /\ \A c \in Clients : conn[c] \in {"none", "backlog"} => Waits(c, 0)
  /\ pc = "request" => /\ Follows(line, fd, 0) /\ Follows(rio, fd, Len(line))
                       /\ Waits(fd, Len(line) + Len(rio))

(* The i-th word that was used for c: its own if it sent one, and it will  *)
(* not send one any more if it did not.                                    *)
Used(c, i) ==
  IF i <= Len(request[c].words) /\ i <= sent[c]
  THEN asked[c][i] = request[c].words[i]
  ELSE asked[c][i] \in Left(i) /\ (i <= Len(request[c].words) => fin[c])

Locals ==
  /\ method \in Left(1) /\ uri \in Left(2)
  /\ \A c \in Clients : asked[c] # <<>> => \A i \in {1, 2} : Used(c, i)

Content ==
  /\ \A u \in DOMAIN Files : MayBe(disk[u], Files[u])
  /\ \A c \in Clients :
       found[c] # None => asked[c] # <<>> /\ MayBe(found[c], KindAt(Files, asked[c][2]))

Untouched(c) == out[c] = <<>> /\ found[c] = None

Asked == method = "GET" /\ asked[fd] = <<method, uri>>

(* The response is being written, or has been.                             *)
Responding == pc \in {"fork", "open", "wait", "close", "exited"}

(* What will be put in todo, or written by the child. *)
ToCome ==
  IF pc = "fork" \/ child = "exec" THEN <<Output>>
  ELSE IF pc = "open" THEN <<"body">> ELSE <<>>

(* The response was cut short, or the client sent no request. *)
CutShort ==
  /\ IsPrefix(out[fd], Response(fd))
  /\ pc \in {"wait", "close", "exited"}
  /\ pc # "exited" => /\ child # "exec" /\ todo = <<>>
                      /\ rst[fd] \/ (fin[fd] /\ sent[fd] = 0) \/ child = "hung"

Answered(c) ==
  /\ IsPrefix(out[c], Response(c))
  /\ ~rst[c] /\ sent[c] > 0 => asked[c] # <<>> /\ out[c] = Response(c)

(* By the place where the server is. *)
Serves ==
  /\ pc = "accept" => todo = <<>>
  /\ pc \in {"request", "first", "headers", "stat"} => Untouched(fd) /\ todo = <<>>
  /\ pc = "request" => asked[fd] = <<>>
  /\ pc \in {"first", "headers", "stat", "fork", "open", "wait"} => Asked
  /\ pc \in {"fork", "open", "wait"} => found[fd] = stat
  /\ pc \in {"fork", "wait"} => stat \in Programs
  /\ pc = "open" => stat \in Static
  /\ pc = "wait" => todo = <<>>
  /\ child \in {"exec", "run", "hung", "dead"} <=> pc = "wait"
  /\ child = "failed" => pc = "exited"
  /\ Responding => \/ asked[fd] # <<>> /\ out[fd] \o todo \o ToCome = Response(fd)
                   \/ CutShort

Others ==
  /\ \A c \in Clients : conn[c] \in {"none", "backlog"} => Untouched(c) /\ asked[c] = <<>>
  /\ \A c \in Clients : conn[c] = "closed" => Answered(c)

IInv == Shape /\ Connections /\ Input /\ Locals /\ Content /\ Serves /\ Others

-----------------------------------------------------------------------------

(* Sequences: the provers take such a fact as it stands and not from the   *)
(* definitions in the middle of a proof.                                   *)
LEMMA Tuples ==
  ASSUME NEW S
  PROVE  (\A p \in S : <<p>> \in Seq(S)) /\ (\A p, q \in S : <<p, q>> \in Seq(S))
  OBVIOUS

LEMMA Concatenated ==
  ASSUME NEW S, NEW s \in Seq(S), NEW t \in Seq(S)
  PROVE  /\ s \o t \in Seq(S) /\ Len(s \o t) = Len(s) + Len(t)
         /\ \A i \in 1 .. Len(s) : (s \o t)[i] = s[i]
         /\ \A i \in 1 .. Len(t) : (s \o t)[Len(s) + i] = t[i]
  OBVIOUS

(* u is s and t in one. *)
Joins(u, s, t) ==
  /\ Len(u) = Len(s) + Len(t)
  /\ \A i \in 1 .. Len(s) : u[i] = s[i]
  /\ \A i \in 1 .. Len(t) : u[Len(s) + i] = t[i]

LEMMA Joined == ASSUME NEW S PROVE \A s, t \in Seq(S) : Joins(s \o t, s, t)
  BY Concatenated DEF Joins

LEMMA Parted ==
  ASSUME NEW S, NEW s \in Seq(S)
  PROVE  /\ \A m, n \in Nat : m >= 1 /\ n <= Len(s) => SubSeq(s, m, n) \in Seq(S)
         /\ s # <<>> => Head(s) \in S /\ Tail(s) \in Seq(S) /\ s[1] \in S /\ Len(s) > 0
         /\ Len(s) \in Nat
         /\ \A e \in S : Append(s, e) \in Seq(S)
  OBVIOUS

LEMMA QueueEnds ==
  ASSUME NEW S, NEW q \in Seq(S)
  PROVE  /\ Len(q) \in Nat
         /\ \A e \in S : /\ Len(Append(q, e)) = Len(q) + 1 /\ Append(q, e)[Len(q) + 1] = e
                         /\ \A i \in 1 .. Len(q) : Append(q, e)[i] = q[i]
         /\ q # <<>> => /\ Head(q) = q[1] /\ Len(q) >= 1 /\ Len(Tail(q)) = Len(q) - 1
                        /\ \A i \in 1 .. Len(q) - 1 : Tail(q)[i] = q[i + 1]
         /\ \A i \in 1 .. Len(q) : q[i] \in S
  OBVIOUS

LEMMA Moved ==
  ASSUME NEW S, NEW s \in Seq(S), NEW t \in Seq(S), t # <<>>
  PROVE  Append(s, Head(t)) \o Tail(t) = s \o t
  OBVIOUS

LEMMA Appended ==
  ASSUME NEW S, NEW s \in Seq(S), NEW e \in S
  PROVE  Append(s, e) = s \o <<e>> /\ s \o <<e>> \in Seq(S)
  OBVIOUS

LEMMA WithEmpty ==
  ASSUME NEW S, NEW s \in Seq(S)
  PROVE  s \o <<>> = s /\ <<>> \o s = s
  OBVIOUS

LEMMA Prefix ==
  ASSUME NEW S, NEW s \in Seq(S), NEW t \in Seq(S)
  PROVE  IsPrefix(s, s \o t)
  BY DEF IsPrefix

LEMMA EmptyPrefix ==
  ASSUME NEW S, NEW s \in Seq(S)
  PROVE  IsPrefix(<<>>, s) /\ (IsPrefix(s, <<>>) => s = <<>>)
  <1>1. IsPrefix(<<>>, s)
    BY DEF IsPrefix
  <1>2. IsPrefix(s, <<>>) => s = <<>>
    BY DEF IsPrefix
  <1> QED
    BY <1>1, <1>2

-----------------------------------------------------------------------------
(* The constants: parts of responses, and the text of a request.           *)

LEMMA Literals ==
  /\ <<>> \in Seq(Parts) /\ <<>> \in Seq(Chars)
  /\ Head200 \in Seq(Parts) /\ FileHead \in Seq(Parts)
  /\ <<"body">> \in Seq(Parts) /\ Output \in Parts /\ <<Output>> \in Seq(Parts)
  /\ \A n \in {"501", "404", "403"} : Error(n) \in Seq(Parts)
  <1>1. /\ "501" \in Parts /\ "404" \in Parts /\ "403" \in Parts /\ "page" \in Parts
        /\ "200 OK" \in Parts /\ "length and type" \in Parts /\ "body" \in Parts
    BY DEF Parts
  <1>2. Output \in Parts
    BY DEF Output, Parts
  <1>3. /\ Head200 \in Seq(Parts) /\ <<"body">> \in Seq(Parts) /\ <<Output>> \in Seq(Parts)
        /\ <<"length and type">> \in Seq(Parts)
    BY <1>1, <1>2, Tuples, Zenon DEF Head200
  <1>4. FileHead \in Seq(Parts)
    BY <1>3, Concatenated DEF FileHead
  <1>5. \A n \in {"501", "404", "403"} : Error(n) \in Seq(Parts)
    BY <1>1, Tuples DEF Error
  <1>6. <<>> \in Seq(Parts) /\ <<>> \in Seq(Chars)
    OBVIOUS
  <1> QED
    BY <1>2, <1>3, <1>4, <1>5, <1>6

LEMMA TextIs ==
  ASSUME NEW r \in Requests
  PROVE  /\ Text(r) \in Seq(Chars) /\ r.words \in Seq(Chars \ White)
         /\ Len(r.words) \in Nat /\ Len(Text(r)) \in Nat /\ Len(Text(r)) > Len(r.words)
         /\ \A i \in 1 .. Len(r.words) : Text(r)[i] = r.words[i] /\ r.words[i] \in Chars \ White
         /\ Text(r)[Len(r.words) + 1] = "NL"
  <1> DEFINE w == r.words
             h == r.headers
             l == w \o <<"NL">>
  <1>1. /\ w \in Seq(Chars \ White) /\ w \in Seq(Chars) /\ h \in Seq(Chars) /\ Len(w) \in Nat
        /\ "NL" \in Chars /\ "CR" \in Chars
        /\ \A i \in 1 .. Len(w) : w[i] \in Chars \ White
    BY ContentAssumption DEF ContentAssumption, White
  <1>2. Blank \in Seq(Chars) /\ <<"NL">> \in Seq(Chars)
    BY <1>1 DEF Blank
  <1>3. Text(r) = l \o h \o Blank
    BY DEF Text
  <1> HIDE DEF w, h
  <1>4. /\ l \in Seq(Chars) /\ Len(l) = Len(w) + 1 /\ l[Len(w) + 1] = "NL"
        /\ \A i \in 1 .. Len(w) : l[i] = w[i]
    BY <1>1, <1>2
  <1> HIDE DEF l
  <1>5. /\ l \o h \in Seq(Chars) /\ Len(l \o h) \in Nat /\ Len(l \o h) >= Len(l)
        /\ \A i \in 1 .. Len(l) : (l \o h)[i] = l[i]
    BY <1>1, <1>4
  <1>6. \A y \in Seq(Chars) :
          /\ y \o Blank \in Seq(Chars) /\ Len(y \o Blank) \in Nat /\ Len(y \o Blank) >= Len(y)
          /\ \A i \in 1 .. Len(y) : (y \o Blank)[i] = y[i]
    BY <1>2
  <1>7. /\ l \o h \o Blank \in Seq(Chars) /\ Len(l \o h \o Blank) \in Nat
        /\ Len(l \o h \o Blank) >= Len(l \o h)
        /\ \A i \in 1 .. Len(l \o h) : (l \o h \o Blank)[i] = (l \o h)[i]
    BY <1>5, <1>6
  <1>8. ASSUME NEW i \in 1 .. Len(l) PROVE Text(r)[i] = l[i]
    BY <1>3, <1>4, <1>5, <1>7
  <1>9. Len(Text(r)) \in Nat /\ Len(Text(r)) > Len(w)
    BY <1>1, <1>3, <1>4, <1>5, <1>7
  <1>10. /\ \A i \in 1 .. Len(w) : i \in 1 .. Len(l)
         /\ Len(w) + 1 \in 1 .. Len(l)
    BY <1>1, <1>4
  <1>11. Text(r) \in Seq(Chars)
    BY <1>3, <1>7
  <1> QED
    BY <1>1, <1>4, <1>8, <1>9, <1>10, <1>11 DEF w

LEMMA Answers ==
  /\ Answer["none"] = Error("404") /\ Answer["private"] = Error("403")
  /\ \A k \in Static : Answer[k] = FileHead \o <<"body">>
  /\ Answer["program"] = Head200 \o <<"output">> /\ Answer["noexec"] = Head200 \o <<"log">>
  <1>1. /\ Answer["none"] = Error("404") /\ Answer["private"] = Error("403")
        /\ Answer["file"] = Page /\ Answer["empty"] = Page /\ Answer["foreign"] = Page
        /\ Answer["program"] = Head200 \o <<"output">>
        /\ Answer["noexec"] = Head200 \o <<"log">>
    BY DEF Answer
  <1> QED
    BY <1>1, Zenon DEF Page, Static

-----------------------------------------------------------------------------
(* The initial states, and the steps that keep each part of the invariant. *)

LEMMA ShapeInitial == Init => Shape
  <1> SUFFICES ASSUME Init PROVE Shape
    OBVIOUS
  <1>1. Files \in [DOMAIN Files -> Kinds]
    BY ContentAssumption DEF ContentAssumption
  <1>2. /\ <<>> \in Seq(Chars) /\ <<>> \in Seq(Parts) /\ <<>> \in Seq(Clients)
        /\ <<>> \in Seq(Words)
    OBVIOUS
  <1>3. 0 \in 0 .. SocketRoom
    BY TinyAssumption DEF TinyAssumption
  <1>4. "none" \in Kinds /\ method \in Words /\ uri \in Words
    BY DEF Init, Kinds, Words
  <1> QED
    BY <1>1, <1>2, <1>3, <1>4 DEF Init, Shape, Places

(* What is somewhere, of all that may be. *)
LEMMA Found ==
  ASSUME Shape, NEW u
  PROVE  KindAt(disk, u) \in Kinds /\ KindAt(disk, u) # None
  <1>1. \A v \in DOMAIN Files : disk[v] \in Kinds
    BY DEF Shape
  <1>2. "none" \in Kinds /\ None \notin Kinds /\ DOMAIN disk = DOMAIN Files
    BY ContentAssumption DEF Kinds, ContentAssumption, Shape
  <1> QED
    BY <1>1, <1>2 DEF KindAt

(* Write keeps to the types in the states of Serves. *)
LEMMA ShapeStep ==
  ASSUME Shape, [Next]_vars, pc = "accept" => todo = <<>>
  PROVE  Shape'
  <1> USE DEF Apart, Serving, clientVars, outVars, doitVars
  <1>0. CASE UNCHANGED vars
    BY <1>0 DEF vars, Shape
  <1>p. ASSUME NEW p \in Parts, ~Blocked, Put(p)
        PROVE  out' \in [Clients -> Seq(Parts)] /\ unread' \in 0 .. SocketRoom /\ deaf' = deaf
    <2>1. \A c \in Clients : Append(out[c], p) \in Seq(Parts)
      BY Parted DEF Shape
    <2>2. out' = [out EXCEPT ![fd] = Append(out[fd], p)]
      BY <1>p DEF Put
    <2>3. out' \in [Clients -> Seq(Parts)]
      BY <2>1, <2>2 DEF Shape
    <2>4. unread' \in 0 .. SocketRoom
      BY <1>p, TinyAssumption DEF Blocked, Put, Shape, TinyAssumption
    <2> QED
      BY <1>p, <2>3, <2>4 DEF Put
  <1>1. ASSUME NEW c \in Clients, Connect(c) PROVE Shape'
    <2>1. Append(queue, c) \in Seq(Clients)
      BY Parted DEF Shape
    <2> QED
      BY <1>1, <2>1 DEF Connect, Shape
  <1>2. ASSUME NEW c \in Clients, Send(c) PROVE Shape'
    <2> DEFINE t == Text(request[c])
    <2>1. request[c] \in Requests /\ t \in Seq(Chars) /\ Len(t) \in Nat /\ sent[c] \in Nat
      BY TextIs, Parted DEF Shape
    <2> HIDE DEF t
    <2>2. sent[c] < Len(t) /\ SendSizes \subseteq Nat
      BY <1>2, TinyAssumption DEF Send, Sending, t, TinyAssumption
    <2>3. PICK n \in {Len(t) - sent[c]} \cup {m \in SendSizes : m < Len(t) - sent[c]} :
            /\ sent' = [sent EXCEPT ![c] = sent[c] + n]
            /\ in' = [in EXCEPT ![c] = in[c] \o SubSeq(t, sent[c] + 1, sent[c] + n)]
      BY <1>2 DEF Send, t
    <2>4. n \in Nat /\ n <= Len(t) - sent[c] /\ sent[c] + n \in Nat
      <3>1. n = Len(t) - sent[c] \/ (n \in SendSizes /\ n < Len(t) - sent[c])
        BY <2>3
      <3> QED
        BY <2>1, <2>2, <3>1
    <2>5. SubSeq(t, sent[c] + 1, sent[c] + n) \in Seq(Chars)
      BY <2>1, <2>3, <2>4, Parted
    <2>6. in[c] \in Seq(Chars)
      BY DEF Shape
    <2>7. in[c] \o SubSeq(t, sent[c] + 1, sent[c] + n) \in Seq(Chars)
      BY <2>5, <2>6, Concatenated
    <2>8. sent' \in [Clients -> Nat]
      BY <2>3, <2>4 DEF Shape
    <2>9. in' \in [Clients -> Seq(Chars)]
      BY <2>3, <2>7 DEF Shape
    <2> QED
      BY <1>2, <2>8, <2>9 DEF Send, Shape
  <1>3. ASSUME NEW c \in Clients, Shutdown(c) PROVE Shape'
    BY <1>3 DEF Shutdown, Shape
  <1>4. ASSUME NEW c \in Clients, Reset(c) PROVE Shape'
    BY <1>4, Literals DEF Reset, Shape
  <1>5. ASSUME NEW u \in DOMAIN disk, ChangeFile(u) PROVE Shape'
    BY <1>5 DEF ChangeFile, Shape, Kinds, Static
  <1>6. CASE Accept
    <2>1. Head(queue) \in Clients /\ Tail(queue) \in Seq(Clients)
      BY <1>6, Parted DEF Accept, Shape
    <2>2. 0 \in 0 .. SocketRoom
      BY TinyAssumption DEF TinyAssumption
    <2> QED
      BY <1>6, <2>1, <2>2, Literals DEF Accept, readinitb, Shape, Places
  <1>7. CASE Refill
    <2>1. fd \in Clients /\ in[fd] \in Seq(Chars)
      BY <1>7 DEF Refill, Reading, Shape
    <2>2. PICK n : /\ n = IF Len(in[fd]) < RIO_BUFSIZE THEN Len(in[fd]) ELSE RIO_BUFSIZE
                   /\ rio' = SubSeq(in[fd], 1, n)
                   /\ in' = [in EXCEPT ![fd] = SubSeq(in[fd], n + 1, Len(in[fd]))]
      BY <1>7 DEF Refill
    <2>3. n \in Nat /\ n <= Len(in[fd]) /\ Len(in[fd]) \in Nat
      BY <2>1, <2>2, TinyAssumption, Parted DEF TinyAssumption
    <2>4. SubSeq(in[fd], 1, n) \in Seq(Chars) /\ SubSeq(in[fd], n + 1, Len(in[fd])) \in Seq(Chars)
      BY <2>1, <2>3, Parted
    <2>5. rio' \in Seq(Chars) /\ in' \in [Clients -> Seq(Chars)]
      BY <2>1, <2>2, <2>4 DEF Shape
    <2> QED
      BY <1>7, <2>5 DEF Refill, Shape
  <1>8. CASE ReadError
    BY <1>8 DEF ReadError, Reading, Exit, Shape, Places
  <1>9. CASE TakeChars
    <2>1. PICK n \in 1 .. Len(rio) :
            line' = line \o SubSeq(rio, 1, n) /\ rio' = SubSeq(rio, n + 1, Len(rio))
      BY <1>9 DEF TakeChars
    <2>2. rio \in Seq(Chars) /\ line \in Seq(Chars) /\ Len(rio) \in Nat
      BY Parted DEF Shape
    <2>3. SubSeq(rio, 1, n) \in Seq(Chars) /\ SubSeq(rio, n + 1, Len(rio)) \in Seq(Chars)
      BY <2>1, <2>2, Parted
    <2>4. line' \in Seq(Chars)
      BY <2>1, <2>2, <2>3, Concatenated
    <2> QED
      BY <1>9, <2>1, <2>3, <2>4 DEF TakeChars, Shape
  <1>10. CASE RequestLine
    <2>1. \A i \in {1, 2}, w \in Words : Scanned(i, w) \subseteq Words
      <3>1. ASSUME NEW i \in {1, 2}, HasWord(i) PROVE line[i] \in Chars
        BY <3>1 DEF HasWord, Shape
      <3> QED
        BY <3>1 DEF Scanned, Words
    <2>2. method' \in Words /\ uri' \in Words
      BY <1>10, <2>1 DEF RequestLine, Shape
    <2>3. asked' = [asked EXCEPT ![fd] = <<method', uri'>>]
      BY <1>10 DEF RequestLine
    <2>4. asked' \in [Clients -> Seq(Words)]
      BY <2>2, <2>3, Tuples DEF Shape
    <2> QED
      BY <1>10, <2>2, <2>4, Literals DEF RequestLine, Shape, Places
  <1>11. CASE NoRequest
    BY <1>11 DEF NoRequest, Shape, Places
  <1>12. CASE HeaderLine
    BY <1>12, Literals DEF HeaderLine, Shape, Places
  <1>13. CASE NoHeaders
    BY <1>13 DEF NoHeaders, Shape, Places
  <1>14. CASE Stat
    BY <1>14, Found, Literals DEF Stat, Shape, Places
  <1>15. CASE Write
    <2>1. CASE WriteFails
      BY <1>15, <2>1 DEF Write, Exit, Shape, Places
    <2>2. CASE ~WriteFails
      <3>1. Head(todo) \in Parts /\ Tail(todo) \in Seq(Parts)
        BY <1>15, Parted DEF Write, Shape
      <3>2. out' \in [Clients -> Seq(Parts)] /\ unread' \in 0 .. SocketRoom /\ deaf' = deaf
        BY <1>15, <1>p, <2>2, <3>1 DEF Write
      <3> QED
        BY <1>15, <2>2, <3>1, <3>2 DEF Write, Shape
    <2> QED
      BY <2>1, <2>2
  <1>16. CASE Open
    BY <1>16, Literals DEF Open, At, Exit, Shape, Places
  <1>17. CASE Fork
    BY <1>17 DEF Fork, At, Exit, Shape, Places
  <1>18. CASE ChildRuns
    <2>1. out' \in [Clients -> Seq(Parts)] /\ unread' \in 0 .. SocketRoom /\ deaf' = deaf
      <3>1. CASE UNCHANGED outVars
        BY <3>1 DEF Shape
      <3>2. CASE ~Blocked /\ Put(Output)
        BY <1>p, <3>2, Literals
      <3> QED
        BY <1>18, <3>1, <3>2 DEF ChildRuns
    <2>2. child' \in {"run", "dead"}
      BY <1>18 DEF ChildRuns
    <2> QED
      BY <1>18, <2>1, <2>2 DEF ChildRuns, Shape
  <1>19. CASE Wait
    BY <1>19 DEF Wait, At, Shape, Places
  <1>20. CASE Close
    BY <1>20 DEF Close, At, Shape, Places
  <1>21. CASE Drain
    <2>1. unread' \in 0 .. SocketRoom
      BY <1>21, TinyAssumption DEF Drain, Shape, TinyAssumption
    <2> QED
      BY <1>21, <2>1 DEF Drain, Shape
  <1>22. CASE StopReading
    BY <1>22 DEF StopReading, Shape
  <1>23. CASE ProgramHangs
    BY <1>23 DEF ProgramHangs, Shape
  <1> QED
    BY <1>0, <1>1, <1>2, <1>3, <1>4, <1>5, <1>6, <1>7, <1>8, <1>9, <1>10, <1>11, <1>12,
       <1>13, <1>14, <1>15, <1>16, <1>17, <1>18, <1>19, <1>20,
       <1>21, <1>22, <1>23
       DEF Next, Server, Environment

(* What each part of the invariant says at the start. *)
LEMMA InitialInv == Init => IInv
  <1> SUFFICES ASSUME Init PROVE IInv
    OBVIOUS
  <1>1. Shape
    BY ShapeInitial
  <1>2. Connections
    <2>1. Len(queue) = 0
      BY DEF Init
    <2> QED
      BY <2>1, TinyAssumption DEF Init, Connections, TinyAssumption
  <1>3. Input
    <2>1. ASSUME NEW c \in Clients
          PROVE  sent[c] <= Len(Text(request[c])) /\ in[c] = <<>> /\ Waits(c, 0)
      <3>1. sent[c] = 0 /\ in[c] = <<>> /\ Len(Text(request[c])) \in Nat
        BY TextIs DEF Init
      <3> QED
        BY <3>1 DEF Waits, Follows
    <2> QED
      BY <2>1 DEF Init, Input
  <1>4. Locals /\ Content
    BY DEF Init, Locals, Left, Content, MayBe
  <1>5. Serves
    BY DEF Init, Serves, Responding
  <1>6. Others
    BY DEF Init, Others, Untouched
  <1> QED
    BY <1>1, <1>2, <1>3, <1>4, <1>5, <1>6 DEF IInv

(* A connection is put in the queue once and leaves it to be served.       *)
LEMMA ConnectionsStep == IInv /\ [Next]_vars => Connections'
  <1> SUFFICES ASSUME IInv, [Next]_vars PROVE Connections'
    OBVIOUS
  <1>0. /\ Shape /\ Connections /\ queue \in Seq(Clients)
        /\ conn \in [Clients -> {"none", "backlog", "open", "closed"}]
    BY DEF IInv, Shape
  <1> DEFINE Same == UNCHANGED <<queue, conn, fd>>
  <1>1. Same => Connections'
    BY <1>0 DEF Connections
  <1>2. ASSUME NEW c \in Clients, Connect(c) PROVE Connections'
    <2>1. /\ conn[c] = "none" /\ conn' = [conn EXCEPT ![c] = "backlog"]
          /\ queue' = Append(queue, c) /\ fd' = fd
      BY <1>2 DEF Connect, Apart
    <2>2. /\ Len(queue) \in Nat /\ Len(queue') = Len(queue) + 1 /\ queue'[Len(queue) + 1] = c
          /\ \A i \in 1 .. Len(queue) : queue'[i] = queue[i] /\ queue[i] \in Clients
      BY <1>0, <2>1, QueueEnds
    <2> QED
      BY <1>0, <2>1, <2>2 DEF Connections
  <1>3. CASE Accept
    <2>1. /\ queue # <<>> /\ fd' = Head(queue) /\ queue' = Tail(queue)
          /\ conn' = [conn EXCEPT ![fd'] = "open"] /\ fd = None
      BY <1>0, <1>3 DEF Accept, Shape
    <2>2. /\ fd' = queue[1] /\ Len(queue) >= 1 /\ Len(queue) \in Nat /\ Len(queue') = Len(queue) - 1
          /\ \A i \in 1 .. Len(queue) - 1 : queue'[i] = queue[i + 1]
          /\ \A i \in 1 .. Len(queue) : queue[i] \in Clients
      BY <1>0, <2>1, QueueEnds
    <2>3. \A i \in 1 .. Len(queue') : queue'[i] = queue[i + 1] /\ queue[i + 1] # fd'
      BY <1>0, <2>2 DEF Connections
    <2>4. fd' \in Clients
      BY <2>2
    <2>5. \A c \in Clients : conn'[c] = "open" <=> c = fd'
      BY <1>0, <2>1, <2>4, TinyAssumption DEF Connections, TinyAssumption
    <2>6. \A i \in 1 .. Len(queue') : conn'[queue'[i]] = "backlog"
      BY <1>0, <2>1, <2>2, <2>3 DEF Connections
    <2>7. \A i, j \in 1 .. Len(queue') : queue'[i] = queue'[j] => i = j
      BY <1>0, <2>2 DEF Connections
    <2> QED
      BY <2>5, <2>6, <2>7 DEF Connections
  <1>4. CASE Close
    <2>1. conn' = [conn EXCEPT ![fd] = "closed"] /\ fd' = None /\ queue' = queue
      BY <1>4 DEF Close, Serving
    <2>2. \A i \in 1 .. Len(queue) : queue[i] \in Clients /\ queue[i] # fd
      BY <1>0, QueueEnds DEF Connections
    <2>3. fd \in Clients
      BY <1>0, <1>4 DEF Close, At, Shape
    <2> QED
      BY <1>0, <2>1, <2>2, <2>3, TinyAssumption DEF Connections, TinyAssumption
  <1>5. CASE UNCHANGED vars
    BY <1>1, <1>5 DEF vars
  <1>6. ASSUME NEW c \in Clients, Send(c) \/ Shutdown(c) \/ Reset(c) PROVE Same
    BY <1>6 DEF Send, Shutdown, Reset, Apart
  <1>7. ASSUME NEW u \in DOMAIN disk, ChangeFile(u) PROVE Same
    BY <1>7 DEF ChangeFile, Apart
  <1>8. CASE \/ Refill \/ ReadError \/ TakeChars \/ RequestLine \/ NoRequest \/ HeaderLine
             \/ NoHeaders \/ Stat \/ Write \/ Open \/ Fork \/ Wait \/ ChildRuns
             \/ Drain \/ StopReading \/ ProgramHangs
    BY <1>1, <1>8 DEF Drain, StopReading, ProgramHangs, Apart, Serving, Refill, ReadError, TakeChars, RequestLine, NoRequest, HeaderLine,
         NoHeaders, Stat, Write, Open, Fork, Wait, ChildRuns
  <1> QED
    BY <1>1, <1>2, <1>3, <1>4, <1>5, <1>6, <1>7, <1>8 DEF Next, Server, Environment

(* Once it was noted for a client, what was asked and found does not       *)
(* change; neither does what was sent by one that has shut down.           *)
LEMMA History ==
  ASSUME IInv, [Next]_vars, NEW c \in Clients
  PROVE  /\ request' = request
         /\ asked[c] # <<>> /\ pc # "request" => asked'[c] = asked[c]
         /\ sent'[c] \in Nat /\ sent'[c] >= sent[c]
         /\ fin[c] => fin'[c] /\ sent'[c] = sent[c]
  <1>0. Shape
    BY DEF IInv
  <1> USE DEF Apart, Serving, clientVars, outVars, doitVars
  <1>1. CASE Send(c)
    <2> DEFINE t == Text(request[c])
    <2>1. sent[c] \in Nat /\ Len(t) \in Nat /\ sent[c] < Len(t) /\ SendSizes \subseteq Nat /\ ~fin[c]
      BY <1>0, <1>1, TextIs, TinyAssumption DEF Shape, Send, Sending, TinyAssumption
    <2>2. PICK n \in {Len(t) - sent[c]} \cup {m \in SendSizes : m < Len(t) - sent[c]} :
            sent' = [sent EXCEPT ![c] = sent[c] + n]
      BY <1>1 DEF Send
    <2> HIDE DEF t
    <2>3. sent'[c] = sent[c] + n /\ n \in Nat
      BY <1>0, <2>1, <2>2 DEF Shape
    <2> QED
      BY <1>1, <2>1, <2>3 DEF Send
  <1>2. CASE ~Send(c)
    <2>1. UNCHANGED <<request, sent>> \/ \E d \in Clients \ {c} : Send(d)
      BY <1>2 DEF Next, Server, Environment, vars, Connect, Send, Shutdown, Reset, Drain, StopReading,
           ProgramHangs, ChangeFile, Accept, Refill, ReadError, TakeChars, RequestLine, NoRequest,
           HeaderLine, NoHeaders, Stat, Write, Open, Fork, ChildRuns, Wait, Close
    <2>2. request' = request /\ sent'[c] = sent[c] /\ sent[c] \in Nat
      BY <1>0, <2>1 DEF Send, Shape
    <2>3. fin[c] => fin'[c]
      BY <1>0, <1>2 DEF Next, Server, Environment, vars, Connect, Send, Shutdown, Reset, Drain,
           StopReading, ProgramHangs, ChangeFile, Accept, Refill, ReadError, TakeChars, RequestLine,
           NoRequest, HeaderLine, NoHeaders, Stat, Write, Open, Fork, ChildRuns, Wait, Close, Shape
    <2>4. asked' = asked \/ RequestLine
      BY <1>2 DEF Next, Server, Environment, vars, Connect, Send, Shutdown, Reset, Drain,
           StopReading, ProgramHangs, ChangeFile, Accept, Refill, ReadError, TakeChars,
           NoRequest, HeaderLine, NoHeaders, Stat, Write, Open, Fork, ChildRuns, Wait, Close
    <2> QED
      BY <2>2, <2>3, <2>4 DEF RequestLine
  <1> QED
    BY <1>1, <1>2

(* What was found is what is, or was, there: Stat looks at the URI that is *)
(* asked for, and files are only removed or emptied.                       *)
LEMMA ContentStep == IInv /\ [Next]_vars => Content'
  <1> SUFFICES ASSUME IInv, [Next]_vars PROVE Content'
    OBVIOUS
  <1>0. Shape /\ Content /\ Serves
    BY DEF IInv
  <1> USE DEF Apart, Serving, clientVars, outVars, doitVars
  <1>1. UNCHANGED <<disk, found, asked>> => Content'
    BY <1>0 DEF Content
  <1>2. ASSUME NEW u \in DOMAIN disk, ChangeFile(u) PROVE Content'
    BY <1>0, <1>2 DEF ChangeFile, Content, MayBe, Shape
  <1>3. CASE Stat
    <2>1. asked[fd] = <<method, uri>> /\ fd \in Clients /\ asked' = asked
      BY <1>0, <1>3 DEF Stat, Serves, Asked, Shape
    <2>2. found' = [found EXCEPT ![fd] = KindAt(disk, uri)] /\ disk' = disk
      BY <1>3 DEF Stat
    <2>3. MayBe(KindAt(disk, uri), KindAt(Files, uri))
      BY <1>0 DEF Content, KindAt, MayBe, Shape
    <2>4. asked[fd] # <<>> /\ asked[fd][2] = uri
      BY <2>1
    <2> QED
      BY <1>0, <2>1, <2>2, <2>3, <2>4 DEF Content, Shape
  <1>4. CASE RequestLine
    <2>1. /\ asked' = [asked EXCEPT ![fd] = <<method', uri'>>] /\ UNCHANGED <<disk, found>>
          /\ fd \in Clients /\ found[fd] = None
      BY <1>0, <1>4 DEF RequestLine, Serves, Untouched, Shape
    <2> QED
      BY <1>0, <2>1 DEF Content, Shape
  <1>5. CASE UNCHANGED vars
    BY <1>1, <1>5 DEF vars
  <1>6. ASSUME NEW c \in Clients, Connect(c) \/ Send(c) \/ Shutdown(c) \/ Reset(c) PROVE Content'
    BY <1>1, <1>6 DEF Connect, Send, Shutdown, Reset
  <1>7. CASE \/ Accept \/ Refill \/ ReadError \/ TakeChars \/ NoRequest
             \/ HeaderLine \/ NoHeaders \/ Write \/ Open \/ Fork \/ Wait \/ Close \/ ChildRuns
             \/ Drain \/ StopReading \/ ProgramHangs
    BY <1>1, <1>7 DEF Accept, Refill, ReadError, TakeChars, NoRequest, HeaderLine, NoHeaders,
         Write, Open, Fork, Wait, Close, ChildRuns, Drain, StopReading, ProgramHangs
  <1> QED
    BY <1>2, <1>3, <1>4, <1>5, <1>6, <1>7 DEF Next, Server, Environment

(* The input of a client to whose connection nothing happens stays as it   *)
(* is, and the lines that were read too.                                   *)
LEMMA InputKept ==
  ASSUME Input, UNCHANGED <<request, sent, rst, in>>,
         \A c \in Clients : conn'[c] \in {"none", "backlog"} => conn[c] \in {"none", "backlog"},
         pc' = "request" => pc = "request" /\ UNCHANGED <<fd, line, rio>>
  PROVE  Input'
  BY DEF Input, Waits, Follows

(* The line, the buffer and the socket of the client that is served hold   *)
(* what it sent, one after the other.                                      *)
LEMMA InputStep == IInv /\ [Next]_vars => Input'
  <1> SUFFICES ASSUME IInv, [Next]_vars PROVE Input'
    OBVIOUS
  <1> USE DEF Apart, Serving, clientVars, outVars, doitVars
  <1>0. Shape /\ Connections /\ Input
    BY DEF IInv
  <1>1. CASE UNCHANGED vars
    BY <1>0, <1>1, InputKept DEF vars
  <1>2. ASSUME NEW c \in Clients, Connect(c) \/ Shutdown(c) PROVE Input'
    BY <1>0, <1>2, InputKept DEF Connect, Shutdown, Shape
  <1>3. ASSUME NEW c \in Clients, Send(c) PROVE Input'
    <2> DEFINE t == Text(request[c])
               k == sent[c]
    <2>1. /\ request[c] \in Requests /\ t \in Seq(Chars) /\ Len(t) \in Nat
          /\ k \in Nat /\ in[c] \in Seq(Chars) /\ Len(in[c]) \in Nat
      BY <1>0, TextIs, Parted DEF Shape
    <2>2. k < Len(t) /\ SendSizes \subseteq Nat \ {0} /\ ~rst[c]
      BY <1>0, <1>3, TinyAssumption DEF Send, Sending, TinyAssumption
    <2>3. PICK n \in {Len(t) - k} \cup {m \in SendSizes : m < Len(t) - k} :
            /\ sent' = [sent EXCEPT ![c] = k + n]
            /\ in' = [in EXCEPT ![c] = in[c] \o SubSeq(t, k + 1, k + n)]
      BY <1>3 DEF Send
    <2>4. UNCHANGED <<request, conn, fin, rst, pc, fd, line, rio>>
      BY <1>3 DEF Send
    <2> DEFINE z == SubSeq(t, k + 1, k + n)
    <2> HIDE DEF t, k
    <2>5. n \in Nat /\ n >= 1 /\ k + n <= Len(t) /\ k + n \in Nat
      BY <2>1, <2>2, <2>3
    <2>6. z \in Seq(Chars) /\ Len(z) = n /\ \A i \in 1 .. n : z[i] = t[k + i]
      BY <2>1, <2>5
    <2> HIDE DEF z
    <2>7. /\ sent'[c] = k + n /\ in'[c] = in[c] \o z
          /\ \A d \in Clients \ {c} : sent'[d] = sent[d] /\ in'[d] = in[d]
      BY <1>0, <2>3 DEF Shape, z
    <2>8. /\ Len(in'[c]) = Len(in[c]) + n
          /\ \A i \in 1 .. Len(in[c]) : in'[c][i] = in[c][i]
          /\ \A i \in 1 .. n : in'[c][Len(in[c]) + i] = t[k + i]
      <3> DEFINE y == in[c]
      <3>1. y \in Seq(Chars) /\ z \in Seq(Chars)
        BY <2>1, <2>6
      <3> HIDE DEF y
      <3>2. Joins(y \o z, y, z)
        BY <3>1, Joined
      <3>3. in'[c] = y \o z
        BY <2>7 DEF y
      <3>4. /\ Len(in'[c]) = Len(y) + n
            /\ \A i \in 1 .. Len(y) : in'[c][i] = y[i]
            /\ \A i \in 1 .. n : in'[c][Len(y) + i] = t[k + i]
        <4>1. Joins(in'[c], y, z)
          BY <3>2, <3>3
        <4> QED
          BY <2>6, <4>1, Zenon DEF Joins
      <3> QED
        BY <3>4, Zenon DEF y
    <2>9. ASSUME NEW m \in Nat, Waits(c, m) PROVE Waits(c, m)'
      <3>1. /\ Len(in[c]) = k - m
            /\ \A i \in 1 .. Len(in[c]) : in[c][i] = t[m + i]
        BY <2>2, <2>9 DEF Waits, Follows, t, k
      <3>2. Len(in'[c]) = k + n - m /\ m + Len(in'[c]) <= sent'[c]
        <4>1. Len(in'[c]) = Len(in[c]) + n /\ sent'[c] = k + n
          BY <2>7, <2>8
        <4>2. Len(in[c]) = k - m /\ Len(in[c]) \in Nat
          BY <2>1, <3>1
        <4>3. k \in Nat /\ n \in Nat
          BY <2>1, <2>5
        <4> QED
          BY <4>1, <4>2, <4>3
      <3>3. ASSUME NEW i \in 1 .. Len(in'[c]) PROVE in'[c][i] = t[m + i]
        <4>1. CASE i <= Len(in[c])
          BY <2>1, <2>8, <3>1, <4>1
        <4>2. CASE i > Len(in[c])
          <5>1. PICK j \in 1 .. n : i = Len(in[c]) + j
            <6>1. i - Len(in[c]) \in 1 .. n
              BY <2>1, <2>5, <2>8, <4>2
            <6>2. i = Len(in[c]) + (i - Len(in[c]))
              BY <2>1
            <6> QED
              BY <6>1, <6>2
          <5>2. m + i = k + j
            BY <2>1, <3>1, <5>1
          <5> QED
            BY <2>8, <5>1, <5>2
        <4> QED
          BY <2>1, <4>1, <4>2
      <3> QED
        <4>1. Text(request'[c]) = t /\ Len(in'[c]) = sent'[c] - m
          BY <2>1, <2>4, <2>5, <2>7, <3>2 DEF t
        <4> QED
          BY <3>2, <3>3, <4>1 DEF Waits, Follows
    <2>10. ASSUME NEW d \in Clients, NEW s \in Seq(Chars), NEW m \in Nat, Follows(s, d, m)
           PROVE  Follows(s, d, m)'
      <3>1. Len(s) \in Nat /\ sent[d] \in Nat /\ sent'[d] \in Nat /\ sent'[d] >= sent[d]
        <4>1. Len(s) \in Nat /\ sent[d] \in Nat
          BY <1>0 DEF Shape
        <4>2. CASE d = c
          BY <2>5, <2>7, <4>1, <4>2 DEF k
        <4>3. CASE d # c
          BY <2>7, <4>1, <4>3
        <4> QED
          BY <4>1, <4>2, <4>3
      <3>2. m + Len(s) <= sent'[d]
        BY <2>10, <3>1 DEF Follows
      <3> QED
        BY <2>4, <2>10, <3>2 DEF Follows
    <2>11. ASSUME NEW d \in Clients, NEW m \in Nat, Waits(d, m) PROVE Waits(d, m)'
      <3>1. CASE d = c
        BY <2>9, <2>11, <3>1
      <3>2. CASE d # c
        BY <2>4, <2>7, <2>11, <3>2 DEF Waits, Follows
      <3> QED
        BY <3>1, <3>2
    <2>12. \A d \in Clients : sent'[d] <= Len(Text(request'[d]))
      BY <1>0, <2>4, <2>5, <2>7 DEF Input, t
    <2>13. \A d \in Clients : rst'[d] => in'[d] = <<>>
      BY <1>0, <2>2, <2>4, <2>7 DEF Input
    <2>14. \A d \in Clients : conn'[d] \in {"none", "backlog"} => Waits(d, 0)'
      BY <1>0, <2>4, <2>11 DEF Input
    <2>15. ASSUME pc' = "request"
           PROVE  /\ Follows(line, fd, 0)' /\ Follows(rio, fd, Len(line))'
                  /\ Waits(fd, Len(line) + Len(rio))'
      <3>1. /\ pc = "request" /\ fd \in Clients /\ line \in Seq(Chars) /\ rio \in Seq(Chars)
            /\ Len(line) \in Nat /\ Len(line) + Len(rio) \in Nat /\ 0 \in Nat
        BY <1>0, <2>4, <2>15, Parted DEF Shape
      <3>2. /\ Follows(line, fd, 0) /\ Follows(rio, fd, Len(line))
            /\ Waits(fd, Len(line) + Len(rio))
        BY <1>0, <3>1 DEF Input
      <3>3. line' = line /\ rio' = rio /\ fd' = fd
        BY <2>4
      <3>4. Follows(line, fd, 0)'
        BY <2>10, <3>1, <3>2, <3>3
      <3>5. Follows(rio, fd, Len(line))'
        BY <2>10, <3>1, <3>2, <3>3
      <3>6. Waits(fd, Len(line) + Len(rio))'
        BY <2>11, <3>1, <3>2, <3>3
      <3> QED
        BY <3>4, <3>5, <3>6
    <2> QED
      BY <2>12, <2>13, <2>14, <2>15 DEF Input
  <1>4. ASSUME NEW c \in Clients, Reset(c) PROVE Input'
    BY <1>0, <1>4 DEF Reset, Input, Waits, Follows, Shape
  <1>5. ASSUME NEW u \in DOMAIN disk, ChangeFile(u) PROVE Input'
    BY <1>0, <1>5, InputKept DEF ChangeFile
  <1>6. CASE Accept
    <2>1. /\ line' = <<>> /\ rio' = <<>> /\ fd' = queue[1] /\ queue # <<>> /\ 1 \in 1 .. Len(queue)
          /\ UNCHANGED <<request, sent, rst, in>> /\ conn' = [conn EXCEPT ![fd'] = "open"]
      BY <1>0, <1>6, QueueEnds DEF Accept, readinitb, Shape
    <2>2. conn[fd'] = "backlog" /\ fd' \in Clients
      BY <1>0, <2>1, QueueEnds DEF Connections, Shape
    <2>3. Waits(fd', 0)
      BY <1>0, <2>2 DEF Input
    <2>4. sent[fd'] \in Nat
      BY <1>0, <2>2 DEF Shape
    <2>5. Follows(line, fd, 0)' /\ Follows(rio, fd, Len(line))' /\ Waits(fd, Len(line) + Len(rio))'
      BY <2>1, <2>3, <2>4 DEF Waits, Follows
    <2>6. \A c \in Clients : conn'[c] \in {"none", "backlog"} => conn[c] \in {"none", "backlog"}
      BY <1>0, <2>1, <2>2 DEF Shape
    <2> QED
      BY <1>0, <2>1, <2>5, <2>6 DEF Input, Waits, Follows
  <1>7. CASE Refill
    <2>1. fd \in Clients /\ in[fd] \in Seq(Chars) /\ ~rst[fd]
      BY <1>0, <1>7 DEF Refill, Reading, Shape, Input
    <2>2. PICK n : /\ n = IF Len(in[fd]) < RIO_BUFSIZE THEN Len(in[fd]) ELSE RIO_BUFSIZE
                   /\ rio' = SubSeq(in[fd], 1, n)
                   /\ in' = [in EXCEPT ![fd] = SubSeq(in[fd], n + 1, Len(in[fd]))]
      BY <1>7 DEF Refill
    <2>3. n \in Nat /\ n <= Len(in[fd]) /\ Len(in[fd]) \in Nat
      BY <2>1, <2>2, TinyAssumption, Parted DEF TinyAssumption
    <2>4. UNCHANGED <<request, sent, rst, conn, pc, fd, line>> /\ rio = <<>>
      BY <1>7 DEF Refill
    <2>5. /\ \A c \in Clients \ {fd} : in'[c] = in[c]
          /\ in'[fd] = SubSeq(in[fd], n + 1, Len(in[fd]))
      BY <1>0, <2>1, <2>2 DEF Shape
    <2>6. /\ Len(rio') = n /\ \A i \in 1 .. n : rio'[i] = in[fd][i]
          /\ Len(in'[fd]) = Len(in[fd]) - n
          /\ \A i \in 1 .. Len(in[fd]) - n : in'[fd][i] = in[fd][n + i]
      <3> DEFINE y == in[fd]
      <3>1. y \in Seq(Chars) /\ n <= Len(y)
        BY <2>1, <2>3
      <3> HIDE DEF y
      <3>2. /\ Len(SubSeq(y, 1, n)) = n /\ \A i \in 1 .. n : SubSeq(y, 1, n)[i] = y[i]
            /\ Len(SubSeq(y, n + 1, Len(y))) = Len(y) - n
            /\ \A i \in 1 .. Len(y) - n : SubSeq(y, n + 1, Len(y))[i] = y[n + i]
        BY <2>3, <3>1
      <3> QED
        BY <2>2, <2>5, <3>2, Zenon DEF y
    <2>7. ASSUME pc = "request"
          PROVE  /\ Follows(line, fd, 0)' /\ Follows(rio, fd, Len(line))'
                 /\ Waits(fd, Len(line) + Len(rio))'
      <3> DEFINE t == Text(request[fd])
                 k == Len(line)
                 y == in[fd]
      <3>1. /\ Follows(line, fd, 0) /\ Len(y) = sent[fd] - (k + 0)
            /\ \A i \in 1 .. Len(y) : y[i] = t[k + 0 + i]
        BY <1>0, <2>1, <2>4, <2>7 DEF Input, Waits, Follows
      <3>2. k \in Nat /\ sent[fd] \in Nat
        BY <1>0, <2>1, Parted DEF Shape
      <3> HIDE DEF t, k, y
      <3>3. /\ k + n <= sent[fd] /\ \A i \in 1 .. n : rio'[i] = t[k + i]
        <4>1. \A i \in 1 .. n : rio'[i] = y[i] /\ i \in 1 .. Len(y) /\ k + 0 + i = k + i
          BY <2>3, <2>6, <3>2 DEF y
        <4>2. k + n <= sent[fd]
          BY <2>3, <3>1, <3>2 DEF y
        <4> QED
          BY <3>1, <4>1, <4>2
      <3>4. /\ Len(in'[fd]) = sent[fd] - (k + n) /\ k + n + Len(in'[fd]) <= sent[fd]
            /\ \A i \in 1 .. Len(in'[fd]) : in'[fd][i] = t[k + n + i]
        <4>1. ASSUME NEW i \in 1 .. Len(in'[fd])
              PROVE  /\ in'[fd][i] = y[n + i] /\ n + i \in 1 .. Len(y)
                     /\ k + 0 + (n + i) = k + n + i
          <5>1. i \in 1 .. Len(in[fd]) - n /\ i \in Nat
            BY <2>3, <2>6
          <5>2. n + i \in 1 .. Len(in[fd]) /\ k + 0 + (n + i) = k + n + i
            BY <2>3, <3>2, <5>1
          <5> QED
            BY <2>6, <5>1, <5>2 DEF y
        <4>2. Len(in'[fd]) = sent[fd] - (k + n) /\ k + n + Len(in'[fd]) <= sent[fd]
          BY <2>3, <2>6, <3>1, <3>2 DEF y
        <4>3. ASSUME NEW i \in 1 .. Len(in'[fd]) PROVE in'[fd][i] = t[k + n + i]
          BY <3>1, <4>1, Zenon
        <4> QED
          BY <4>2, <4>3
      <3>5. Follows(line, fd, 0)'
        BY <2>4, <3>1 DEF Follows
      <3>6. Follows(rio, fd, Len(line))'
        BY <2>4, <2>6, <3>3 DEF Follows, t, k
      <3>7. Waits(fd, Len(line) + Len(rio))'
        BY <2>4, <2>6, <3>4 DEF Waits, Follows, t, k
      <3> QED
        BY <3>5, <3>6, <3>7
    <2>8. \A c \in Clients : rst'[c] => in'[c] = <<>>
      BY <1>0, <2>1, <2>4, <2>5 DEF Input
    <2>9. ASSUME NEW c \in Clients, conn'[c] \in {"none", "backlog"} PROVE Waits(c, 0)'
      <3>1. c # fd /\ Waits(c, 0)
        BY <1>0, <2>4, <2>9 DEF Connections, Input
      <3> QED
        BY <2>4, <2>5, <3>1 DEF Waits, Follows
    <2> QED
      BY <1>0, <2>4, <2>7, <2>8, <2>9 DEF Input
  <1>8. CASE TakeChars
    <2>1. PICK n \in 1 .. Len(rio) :
            line' = line \o SubSeq(rio, 1, n) /\ rio' = SubSeq(rio, n + 1, Len(rio))
      BY <1>8 DEF TakeChars
    <2>2. UNCHANGED <<request, sent, rst, in, conn, pc, fd>>
      BY <1>8 DEF TakeChars
    <2>3. ASSUME pc = "request"
          PROVE  /\ Follows(line, fd, 0)' /\ Follows(rio, fd, Len(line))'
                 /\ Waits(fd, Len(line) + Len(rio))'
      <3> DEFINE t == Text(request[fd])
                 k == Len(line)
                 l == Len(rio)
      <3>1. fd \in Clients /\ sent[fd] \in Nat /\ k \in Nat /\ l \in Nat
        BY <1>0, <2>3, Parted DEF Shape
      <3>2. /\ \A i \in 1 .. k : line[i] = t[0 + i]
            /\ k + l <= sent[fd] /\ \A i \in 1 .. l : rio[i] = t[k + i]
            /\ Waits(fd, k + l)
        BY <1>0, <2>3 DEF Input, Follows
      <3> HIDE DEF t, k, l
      <3>3. /\ SubSeq(rio, 1, n) \in Seq(Chars) /\ Len(SubSeq(rio, 1, n)) = n
            /\ \A i \in 1 .. n : SubSeq(rio, 1, n)[i] = rio[i]
            /\ Len(rio') = l - n /\ \A i \in 1 .. l - n : rio'[i] = rio[n + i]
            /\ n \in 1 .. l
        BY <1>0, <2>1 DEF Shape, l
      <3>4. /\ Len(line') = k + n
            /\ \A i \in 1 .. k : line'[i] = line[i]
            /\ \A i \in 1 .. n : line'[k + i] = rio[i]
        <4> DEFINE z == SubSeq(rio, 1, n)
        <4>1. z \in Seq(Chars) /\ Len(z) = n /\ \A i \in 1 .. n : z[i] = rio[i]
          BY <3>3
        <4>2. line \in Seq(Chars) /\ line' = line \o z
          BY <1>0, <2>1 DEF Shape
        <4> HIDE DEF z
        <4>3. Joins(line', line, z)
          BY <4>1, <4>2, Joined
        <4> QED
          BY <4>1, <4>3, Zenon DEF k, Joins
      <3>5. \A i \in 1 .. k + n : line'[i] = t[0 + i]
        <4>1. \A i \in 1 .. n : line'[k + i] = t[k + i]
          BY <3>1, <3>2, <3>3, <3>4
        <4>2. ASSUME NEW i \in 1 .. k + n, i > k PROVE line'[i] = t[i]
          <5>1. i - k \in 1 .. n /\ k + (i - k) = i
            BY <3>1, <3>3, <4>2
          <5> QED
            BY <4>1, <5>1
        <4> QED
          BY <3>1, <3>2, <3>3, <3>4, <4>2
      <3>6. \A i \in 1 .. l - n : rio'[i] = t[k + n + i]
        <4>1. ASSUME NEW i \in 1 .. l - n
              PROVE  rio'[i] = rio[n + i] /\ n + i \in 1 .. l /\ k + (n + i) = k + n + i
          <5>1. i \in Nat /\ n \in Nat /\ rio'[i] = rio[n + i]
            BY <3>1, <3>3
          <5> QED
            BY <3>1, <3>3, <5>1
        <4> QED
          BY <3>2, <4>1, Zenon
      <3>7. Follows(line, fd, 0)'
        BY <2>2, <3>1, <3>2, <3>3, <3>4, <3>5 DEF Follows, t
      <3>8. Follows(rio, fd, Len(line))'
        BY <2>2, <3>1, <3>2, <3>3, <3>4, <3>6 DEF Follows, t
      <3>9. Len(line') + Len(rio') = k + l
        BY <3>1, <3>3, <3>4
      <3>10. Waits(fd, Len(line) + Len(rio))'
        BY <2>2, <3>2, <3>9 DEF Waits, Follows
      <3> QED
        BY <3>7, <3>8, <3>10
    <2> QED
      BY <1>0, <2>2, <2>3 DEF Input, Waits, Follows
  <1>9. CASE \/ ReadError \/ RequestLine \/ NoRequest \/ HeaderLine \/ NoHeaders
             \/ Stat \/ Write \/ Open \/ Fork \/ Wait \/ ChildRuns
             \/ Drain \/ StopReading \/ ProgramHangs
    BY <1>0, <1>9, InputKept DEF Drain, StopReading, ProgramHangs, ReadError, Exit, RequestLine, NoRequest, HeaderLine,
         NoHeaders, Stat, Write, Open, Fork, Wait, ChildRuns, Reading
  <1>10. CASE Close
    BY <1>0, <1>10, InputKept DEF Close, Shape
  <1> QED
    BY <1>1, <1>2, <1>3, <1>4, <1>5, <1>6, <1>7, <1>8, <1>9, <1>10 DEF Next, Server, Environment


-----------------------------------------------------------------------------
(* The response.                                                           *)

LEMMA ResponseSeq == ASSUME Shape, NEW c \in Clients PROVE Response(c) \in Seq(Parts)
  <1>1. found[c] \in Kinds \cup {None}
    BY DEF Shape
  <1>2. /\ \A n \in {"501", "404", "403"} : Error(n) \in Seq(Parts)
        /\ Head200 \in Seq(Parts) /\ FileHead \in Seq(Parts) /\ <<>> \in Seq(Parts)
        /\ <<"output">> \in Seq(Parts) /\ <<"log">> \in Seq(Parts) /\ <<"body">> \in Seq(Parts)
    <2>1. "output" \in Parts /\ "log" \in Parts
      BY DEF Parts
    <2> QED
      BY <2>1, Literals, Tuples
  <1>3. /\ FileHead \o <<"body">> \in Seq(Parts) /\ Head200 \o <<"output">> \in Seq(Parts)
        /\ Head200 \o <<"log">> \in Seq(Parts)
    BY <1>2, Concatenated
  <1>4. Kinds = {"none", "private", "program", "noexec"} \cup Static
    BY Zenon DEF Kinds, Programs
  <1>5. \A k \in Kinds : Answer[k] \in Seq(Parts)
    BY <1>2, <1>3, <1>4, Answers, Zenon
  <1> QED
    BY <1>1, <1>2, <1>5, Zenon DEF Response

LEMMA ToComeSeq == ToCome \in Seq(Parts)
  BY Literals DEF ToCome

(* What was written is the beginning of the response. *)
LEMMA SoFar == ASSUME Shape, Serves, Responding PROVE IsPrefix(out[fd], Response(fd))
  <1>1. out[fd] \in Seq(Parts) /\ todo \in Seq(Parts) /\ ToCome \in Seq(Parts)
    BY ToComeSeq DEF Shape, Responding
  <1>2. out[fd] \o todo \o ToCome = out[fd] \o (todo \o ToCome) /\ todo \o ToCome \in Seq(Parts)
    <2> DEFINE x == out[fd]
    <2>1. x \in Seq(Parts)
      BY <1>1
    <2> HIDE DEF x
    <2>2. x \o todo \o ToCome = x \o (todo \o ToCome) /\ todo \o ToCome \in Seq(Parts)
      BY <1>1, <2>1, ConcatAssociative, Concatenated
    <2> QED
      BY <2>2, Zenon DEF x
  <1>3. IsPrefix(out[fd], out[fd] \o (todo \o ToCome))
    BY <1>1, <1>2, Prefix
  <1>4. out[fd] \o todo \o ToCome = Response(fd) \/ CutShort
    BY DEF Serves, Responding
  <1> QED
    BY <1>2, <1>3, <1>4 DEF CutShort

(* What the server and the child have to do with stays, and the client     *)
(* takes nothing back.                                                     *)
LEMMA ServesKept ==
  ASSUME Shape, Serves,
         UNCHANGED <<out, pc, fd, method, uri, asked, stat, todo, child, found>>,
         \A c \in Clients : rst[c] => rst'[c],
         \A c \in Clients : fin[c] => fin'[c] /\ sent'[c] = sent[c]
  PROVE  Serves'
  <1>1. /\ Asked' = Asked /\ ToCome' = ToCome /\ (fd \in Clients => Response(fd)' = Response(fd))
        /\ (fd \in Clients => Untouched(fd)' = Untouched(fd))
    BY DEF Asked, ToCome, Output, Response, Untouched
  <1>2. Responding => fd \in Clients
    BY DEF Responding, Shape
  <1>3. ASSUME Responding, CutShort PROVE CutShort'
    <2>1. fd \in Clients /\ Response(fd)' = Response(fd)
      BY <1>1, <1>2, <1>3
    <2>2. IsPrefix(out[fd], Response(fd))'
      BY <1>3, <2>1, Zenon DEF CutShort
    <2>3. rst[fd] \/ (fin[fd] /\ sent[fd] = 0) \/ child = "hung"
            => (rst[fd] \/ (fin[fd] /\ sent[fd] = 0) \/ child = "hung")'
      BY <2>1, Zenon
    <2> QED
      BY <1>3, <2>1, <2>2, <2>3, Zenon DEF CutShort
  <1>4. Responding => \/ asked[fd] # <<>> /\ out[fd] \o todo \o ToCome = Response(fd)
                      \/ CutShort
    BY DEF Serves, Responding
  <1>5. Responding' => \/ asked'[fd] # <<>> /\ (out[fd] \o todo \o ToCome)' = Response(fd)'
                       \/ CutShort'
    BY <1>1, <1>2, <1>3, <1>4 DEF Responding
  <1>6. pc \in {"request", "first", "headers", "stat"} => fd \in Clients
    BY DEF Shape
  <1> QED
    BY <1>1, <1>5, <1>6 DEF Serves, Responding

(* The words of the request line are those of the client's request, as far *)
(* as it was sent; a word that is not in the line is not sent any more.    *)
LEMMA LineRead ==
  ASSUME Shape, Input, pc = "request", line # <<>>, Ends(line) \/ AtEof, NEW i \in {1, 2}
  PROVE  LET w == request[fd].words
         IN  IF i <= Len(w) /\ i <= sent[fd] THEN HasWord(i) /\ line[i] = w[i]
             ELSE ~HasWord(i) /\ (i <= Len(w) => fin[fd])
  <1> DEFINE t == Text(request[fd])
             w == request[fd].words
             k == sent[fd]
  <1>1. /\ fd \in Clients /\ request[fd] \in Requests /\ k \in Nat
        /\ line \in Seq(Chars) /\ Len(line) \in Nat /\ Len(line) >= 1
    BY DEF Shape
  <1>2. /\ Len(w) \in Nat /\ t[Len(w) + 1] = "NL"
        /\ \A j \in 1 .. Len(w) : t[j] = w[j] /\ w[j] \notin White
    BY <1>1, TextIs
  <1>3. Len(line) <= k /\ \A j \in 1 .. Len(line) : line[j] = t[j]
    BY <1>1 DEF Input, Follows
  <1>4. Ends(line) => line[Len(line)] = "NL" \/ Len(line) >= 2
    BY <1>1, TinyAssumption DEF Ends, Last, TinyAssumption
  <1>5. AtEof => fin[fd] /\ k = Len(line)
    <2> SUFFICES ASSUME AtEof PROVE fin[fd] /\ k = Len(line)
      OBVIOUS
    <2>1. fin[fd] /\ ~rst[fd] /\ Len(rio) = 0 /\ Len(in[fd]) = 0
      BY DEF AtEof
    <2>2. Len(in[fd]) = sent[fd] - (Len(line) + Len(rio))
      BY <2>1 DEF Input, Waits
    <2> QED
      BY <1>1, <2>1, <2>2
  <1> HIDE DEF t, w, k
  <1>6. HasWord(i) => i <= Len(w) /\ i <= k
    <2> SUFFICES ASSUME HasWord(i) PROVE i <= Len(w) /\ i <= k
      OBVIOUS
    <2>1. i <= Len(line) /\ \A j \in 1 .. i : line[j] \notin White
      BY DEF HasWord
    <2>2. ASSUME Len(w) < i PROVE FALSE
      <3>1. Len(w) + 1 \in 1 .. i /\ Len(w) + 1 \in 1 .. Len(line)
        BY <1>1, <1>2, <2>1, <2>2
      <3>2. line[Len(w) + 1] = "NL"
        BY <1>2, <1>3, <3>1
      <3> QED
        BY <2>1, <3>1, <3>2 DEF White
    <2> QED
      BY <1>1, <1>2, <1>3, <2>1, <2>2
  <1>7. ASSUME i <= Len(w), i <= Len(line) PROVE HasWord(i) /\ line[i] = w[i]
    <2>1. ASSUME NEW j \in 1 .. i PROVE line[j] = w[j] /\ line[j] \notin White
      <3>1. j \in 1 .. Len(w) /\ j \in 1 .. Len(line)
        BY <1>1, <1>2, <1>7
      <3> QED
        BY <1>2, <1>3, <3>1
    <2>2. i \in 1 .. i
      OBVIOUS
    <2>3. line[i] = w[i]
      BY <2>1, <2>2
    <2>4. \A j \in 1 .. i : line[j] \notin White
      BY <2>1
    <2> QED
      BY <1>7, <2>3, <2>4, Zenon DEF HasWord
  <1>8. ASSUME i <= Len(w), i > Len(line) PROVE fin[fd] /\ i > k
    <2>1. Len(line) = 1 /\ 1 \in 1 .. Len(w)
      <3>1. Len(line) \in Nat /\ Len(line) >= 1 /\ Len(w) \in Nat /\ i \in {1, 2}
        BY <1>1, <1>2
      <3> QED
        BY <1>8, <3>1
    <2>2. line[Len(line)] # "NL"
      <3>1. line[1] = w[1] /\ w[1] \notin White
        BY <1>2, <1>3, <2>1
      <3> QED
        BY <2>1, <3>1 DEF White
    <2>3. AtEof
      BY <1>4, <2>1, <2>2
    <2> QED
      BY <1>5, <1>8, <2>3
  <1>9. CASE i <= Len(w) /\ i <= k
    BY <1>1, <1>7, <1>8, <1>9 DEF w, k
  <1>10. CASE ~(i <= Len(w) /\ i <= k)
    <2>1. ~HasWord(i)
      BY <1>6, <1>10
    <2>2. i <= Len(w) => fin[fd]
      BY <1>1, <1>2, <1>3, <1>7, <1>8, <2>1
    <2> QED
      BY <1>10, <2>1, <2>2 DEF w, k
  <1> QED
    BY <1>9, <1>10

(* The i-th word is one that was sent, or one that was left.               *)
LEMMA ScannedWord ==
  ASSUME IInv, RequestLine, NEW i \in {1, 2}, NEW old \in Left(i), NEW w \in Scanned(i, old)
  PROVE  IF i <= Len(request[fd].words) /\ i <= sent[fd]
         THEN w = request[fd].words[i]
         ELSE w \in Left(i) /\ (i <= Len(request[fd].words) => fin[fd])
  <1>1. /\ Shape /\ Input /\ pc = "request" /\ line # <<>> /\ (Ends(line) \/ AtEof)
    BY DEF IInv, RequestLine, Ends
  <1>2. Garbage \subseteq Left(i)
    BY DEF Left
  <1> QED
    BY <1>1, <1>2, LineRead DEF Scanned

(* Words that were left stay so, and those of the request line join them.  *)
LEMMA LocalsStep == IInv /\ [Next]_vars => Locals'
  <1> SUFFICES ASSUME IInv, [Next]_vars PROVE Locals'
    OBVIOUS
  <1>0. Shape /\ Locals /\ Serves
    BY DEF IInv
  <1>1. \A c \in Clients : /\ request'[c] = request[c]
                           /\ sent'[c] \in Nat /\ sent[c] \in Nat /\ sent'[c] >= sent[c]
                           /\ fin[c] => fin'[c] /\ sent'[c] = sent[c]
    BY <1>0, History DEF Shape
  <1>2. \A c \in Clients : Len(request[c].words) \in Nat
    BY <1>0, TextIs DEF Shape
  <1>3. ASSUME NEW i \in {1, 2}, \A c \in Clients : asked[c] # <<>> => asked'[c] # <<>>
        PROVE  Left(i) \subseteq Left(i)'
    BY <1>1, <1>3 DEF Left
  <1>4. ASSUME NEW c \in Clients, NEW i \in {1, 2}, Left(i) \subseteq Left(i)',
               Used(c, i), asked'[c] = asked[c]
        PROVE  Used(c, i)'
    BY <1>1, <1>2, <1>4 DEF Used
  <1>5. CASE UNCHANGED <<method, uri, asked>>
    BY <1>0, <1>3, <1>4, <1>5 DEF Locals
  <1>6. CASE RequestLine
    <2>1. /\ fd \in Clients /\ asked' = [asked EXCEPT ![fd] = <<method', uri'>>]
          /\ method' \in Scanned(1, method) /\ uri' \in Scanned(2, uri)
          /\ UNCHANGED <<sent, fin>>
      BY <1>0, <1>6 DEF RequestLine, Serving, clientVars, Shape
    <2>2. /\ asked'[fd] = <<method', uri'>> /\ \A c \in Clients \ {fd} : asked'[c] = asked[c]
          /\ asked'[fd] # <<>> /\ asked'[fd][1] = method' /\ asked'[fd][2] = uri'
      BY <1>0, <2>1 DEF Shape
    <2>3. \A i \in {1, 2} : Left(i) \subseteq Left(i)'
      BY <1>3, <2>2
    <2>4. ASSUME NEW i \in {1, 2}, NEW old \in Left(i), asked'[fd][i] \in Scanned(i, old)
          PROVE  Used(fd, i)' /\ asked'[fd][i] \in Left(i)'
      <3>1. IF i <= Len(request[fd].words) /\ i <= sent[fd]
            THEN asked'[fd][i] = request[fd].words[i]
            ELSE asked'[fd][i] \in Left(i) /\ (i <= Len(request[fd].words) => fin[fd])
        BY <1>6, <2>4, ScannedWord, Zenon
      <3>2. i <= Len(request[fd].words) => request[fd].words[i] \in Left(i)'
        BY <1>1, <2>1, <2>2 DEF Left
      <3>3. fd' = fd
        BY <1>6 DEF RequestLine
      <3>4. asked'[fd][i] \in Left(i)'
        BY <2>3, <3>1, <3>2
      <3> QED
        BY <1>1, <2>1, <3>1, <3>3, <3>4 DEF Used
    <2>5. /\ Used(fd, 1)' /\ Used(fd, 2)' /\ method' \in Left(1)' /\ uri' \in Left(2)'
      BY <1>0, <2>1, <2>2, <2>4 DEF Locals
    <2>6. fd' = fd
      BY <1>6 DEF RequestLine
    <2> QED
      BY <1>0, <1>4, <2>2, <2>3, <2>5, <2>6 DEF Locals
  <1> QED
    BY <1>5, <1>6 DEF Next, Server, Environment, vars, Connect, Send, Shutdown, Reset, Drain,
         StopReading, ProgramHangs, ChangeFile, Accept, Refill, ReadError, TakeChars,
         NoRequest, HeaderLine, NoHeaders, Stat, Write, Open, Fork, ChildRuns, Wait, Close,
         Apart, Serving, doitVars

(* The steps until the request was read.                                   *)
LEMMA ServesReading ==
  ASSUME IInv,
         \/ Accept \/ Refill \/ ReadError \/ TakeChars
         \/ RequestLine \/ NoRequest \/ HeaderLine \/ NoHeaders
  PROVE  Serves'
  <1>0. Shape /\ Connections /\ Input /\ Serves /\ Others
    BY DEF IInv
  <1> USE DEF Apart, Serving, clientVars, outVars, doitVars
  <1>1. CASE Accept
    <2>1. /\ queue \in Seq(Clients) /\ queue # <<>> /\ fd' = queue[1] /\ pc = "accept"
          /\ pc' = "request" /\ UNCHANGED <<out, found, asked, todo, child>> /\ 1 \in 1 .. Len(queue)
      BY <1>0, <1>1, QueueEnds DEF Accept, Shape
    <2>2. conn[fd'] = "backlog" /\ fd' \in Clients
      BY <1>0, <2>1, QueueEnds DEF Connections
    <2>3. /\ Untouched(fd)' /\ todo' = <<>> /\ asked'[fd'] = <<>>
          /\ child' \notin {"exec", "run", "hung", "dead", "failed"}
      BY <1>0, <2>1, <2>2 DEF Others, Untouched, Serves
    <2> QED
      BY <2>1, <2>3 DEF Serves, Responding
  <1>2. CASE Refill \/ TakeChars
    BY <1>0, <1>2, ServesKept DEF Refill, TakeChars
  <1>3. CASE ReadError
    <2>1. /\ fd \in Clients /\ out[fd] = <<>> /\ pc' = "exited"
          /\ child = "none" /\ UNCHANGED <<asked, out, fd, found, child>>
      BY <1>0, <1>3 DEF ReadError, Reading, Exit, Shape, Serves, Untouched
    <2>2. Response(fd)' = Response(fd) /\ Response(fd) \in Seq(Parts)
      BY <1>0, <2>1, ResponseSeq DEF Response
    <2>3. IsPrefix(out[fd], Response(fd))'
      BY <2>1, <2>2, EmptyPrefix
    <2>4. CutShort'
      BY <2>1, <2>3 DEF CutShort
    <2> QED
      BY <2>1, <2>4 DEF Serves
  <1>4. CASE RequestLine
    <2>1. /\ pc = "request" /\ fd \in Clients /\ out[fd] = <<>> /\ found[fd] = None
          /\ todo = <<>> /\ child = "none" /\ UNCHANGED <<out, fd, found, child>>
          /\ asked' = [asked EXCEPT ![fd] = <<method', uri'>>]
      BY <1>0, <1>4 DEF RequestLine, Shape, Serves, Untouched
    <2>2. asked'[fd'] = <<method', uri'>> /\ asked'[fd'] # <<>> /\ asked'[fd'][1] = method'
      BY <1>0, <2>1 DEF Shape
    <2>3. Untouched(fd)'
      BY <2>1 DEF Untouched
    <2>4. CASE method' = "GET"
      <3>1. pc' = "first" /\ todo' = <<>> /\ Asked'
        BY <1>4, <2>1, <2>2, <2>4 DEF RequestLine, Asked
      <3> QED
        BY <2>1, <2>3, <3>1 DEF Serves, Responding
    <2>5. CASE method' # "GET"
      <3>1. pc' = "close" /\ todo' = Error("501") /\ Response(fd)' = Error("501")
        BY <1>4, <2>2, <2>5 DEF RequestLine, Response
      <3>2. ToCome' = <<>> /\ Error("501") \in Seq(Parts)
        BY <2>1, <3>1, Literals DEF ToCome
      <3>3. out'[fd'] \o todo' \o ToCome' = Response(fd)'
        BY <2>1, <3>1, <3>2, WithEmpty
      <3> QED
        BY <2>1, <2>2, <3>1, <3>3 DEF Serves
    <2> QED
      BY <2>4, <2>5
  <1>5. CASE NoRequest
    <2>1. /\ fd \in Clients /\ out[fd] = <<>> /\ todo = <<>> /\ pc' = "close" /\ child = "none"
          /\ UNCHANGED <<asked, out, fd, found, child, todo, fin, sent>>
      BY <1>0, <1>5 DEF NoRequest, Shape, Serves, Untouched
    <2>2. Response(fd)' = Response(fd) /\ Response(fd) \in Seq(Parts)
      BY <1>0, <2>1, ResponseSeq DEF Response
    <2>3. IsPrefix(out[fd], Response(fd))'
      BY <2>1, <2>2, EmptyPrefix
    <2>4. fin[fd] /\ sent[fd] = 0
      <3>1. /\ fin[fd] /\ ~rst[fd] /\ Len(line) = 0 /\ Len(rio) = 0 /\ Len(in[fd]) = 0
            /\ Waits(fd, Len(line) + Len(rio)) /\ sent[fd] \in Nat
        BY <1>0, <1>5, <2>1 DEF NoRequest, AtEof, Input, Shape
      <3> QED
        BY <3>1 DEF Waits
    <2>5. CutShort'
      BY <2>1, <2>3, <2>4 DEF CutShort
    <2> QED
      BY <2>1, <2>5 DEF Serves
  <1>6. CASE HeaderLine \/ NoHeaders
    <2>1. /\ pc \in {"first", "headers"} /\ pc' \in {"stat", "headers"} /\ fd \in Clients
          /\ UNCHANGED <<out, fd, found, child, todo, method, uri, asked>>
      BY <1>0, <1>6 DEF HeaderLine, NoHeaders, Shape
    <2>2. Untouched(fd)' /\ Asked' /\ todo' = <<>> /\ child' = "none"
      BY <1>0, <2>1 DEF Serves, Untouched, Asked, Shape
    <2> QED
      BY <2>1, <2>2 DEF Serves, Responding
  <1> QED
    BY <1>1, <1>2, <1>3, <1>4, <1>5, <1>6

(* The steps that write the response.                                      *)
LEMMA ServesResponding ==
  ASSUME IInv, \/ Stat \/ Write \/ Open \/ Fork \/ ChildRuns \/ ProgramHangs \/ Wait \/ Close
  PROVE  Serves'
  <1>0. Shape /\ Content /\ Serves
    BY DEF IInv
  <1> USE DEF Apart, Serving, clientVars, outVars, doitVars
  <1> DEFINE Whole == asked[fd] # <<>> /\ out[fd] \o todo \o ToCome = Response(fd)
  <1>w. Responding => Whole \/ CutShort
    BY <1>0 DEF Serves, Responding
  <1>1. CASE Stat
    <2>1. /\ pc = "stat" /\ fd \in Clients /\ out[fd] = <<>> /\ child = "none" /\ todo = <<>>
          /\ method = "GET" /\ asked[fd] = <<method, uri>>
          /\ UNCHANGED <<out, fd, child, method, uri, asked>>
      BY <1>0, <1>1 DEF Stat, Shape, Serves, Asked, Untouched
    <2> DEFINE k == KindAt(disk, uri)
    <2>2. k \in Kinds /\ k # None
      BY <1>0, Found
    <2>3. stat' = k /\ found'[fd'] = k
      BY <1>0, <1>1, <2>1 DEF Stat, Shape
    <2>4. Asked' /\ asked'[fd'] # <<>> /\ asked'[fd'][1] = "GET"
      BY <2>1 DEF Asked
    <2>5. /\ \/ k = "none" /\ pc' = "close" /\ todo' = Error("404")
             \/ k = "private" /\ pc' = "close" /\ todo' = Error("403")
             \/ k \in Programs /\ pc' = "fork" /\ todo' = Head200
             \/ k \in Static /\ pc' = "open" /\ todo' = FileHead
      BY <1>1 DEF Stat
    <2>6. Response(fd)' = Answer[k]
      BY <2>2, <2>3, <2>4 DEF Response
    <2> HIDE DEF k
    <2>7. Whole'
      <3>1. todo' \o ToCome' = Answer[k] /\ todo' \in Seq(Parts) /\ ToCome' \in Seq(Parts)
        <4>1. CASE k = "none" /\ pc' = "close" /\ todo' = Error("404")
          BY <2>1, <4>1, Answers, Literals, WithEmpty DEF ToCome
        <4>2. CASE k = "private" /\ pc' = "close" /\ todo' = Error("403")
          BY <2>1, <4>2, Answers, Literals, WithEmpty DEF ToCome
        <4>3. CASE k \in Programs /\ pc' = "fork" /\ todo' = Head200
          <5>1. ToCome' = <<Output'>> /\ Output' = IF k = "program" THEN "output" ELSE "log"
            BY <2>3, <4>3 DEF ToCome, Output
          <5>2. Head200 \in Seq(Parts) /\ "output" \in Parts /\ "log" \in Parts
            BY Literals DEF Parts
          <5>3. <<"output">> \in Seq(Parts) /\ <<"log">> \in Seq(Parts)
            BY <5>2, Tuples
          <5>4. CASE k = "program"
            BY <4>3, <5>1, <5>2, <5>3, <5>4, Answers, Zenon
          <5>5. CASE k = "noexec"
            BY <4>3, <5>1, <5>2, <5>3, <5>5, Answers
          <5> QED
            BY <4>3, <5>4, <5>5 DEF Programs
        <4>4. CASE k \in Static /\ pc' = "open" /\ todo' = FileHead
          BY <2>1, <4>4, Answers, Literals DEF ToCome
        <4> QED
          BY <2>5, <4>1, <4>2, <4>3, <4>4
      <3>2. out'[fd'] \o todo' = todo'
        BY <2>1, <3>1, WithEmpty
      <3> QED
        BY <2>4, <2>6, <3>1, <3>2
    <2> QED
      BY <2>1, <2>3, <2>4, <2>5, <2>7 DEF Serves
  <1>2. CASE Write
    <2>1. Responding /\ pc # "exited" /\ todo # <<>> /\ fd \in Clients
      BY <1>0, <1>2 DEF Write, Serves, Shape, Places, Responding
    <2>2. /\ UNCHANGED <<fd, found, child, method, uri, asked, stat, rst>>
          /\ Response(fd)' = Response(fd) /\ Whole
      BY <1>w, <1>2, <2>1 DEF Write, Response, CutShort
    <2>3. CASE WriteFails
      <3>1. pc' = "exited" /\ UNCHANGED <<out, todo>> /\ pc # "wait"
        BY <1>0, <1>2, <2>1, <2>3 DEF Write, Exit, Serves
      <3>2. CutShort'
        BY <1>0, <2>1, <2>2, <3>1, SoFar DEF CutShort
      <3> QED
        BY <1>0, <2>2, <3>1, <3>2 DEF Serves
    <2>4. CASE ~WriteFails
      <3>1. /\ out'[fd'] = Append(out[fd], Head(todo)) /\ todo' = Tail(todo)
            /\ pc' = pc
        BY <1>0, <1>2, <2>1, <2>2, <2>4 DEF Write, Put, Shape
      <3>2. out'[fd'] \o todo' = out[fd] \o todo
        <4> DEFINE x == out[fd]
        <4>1. x \in Seq(Parts) /\ todo \in Seq(Parts)
          BY <1>0, <2>1 DEF Shape
        <4> HIDE DEF x
        <4>2. Append(x, Head(todo)) \o Tail(todo) = x \o todo
          BY <2>1, <4>1, Moved
        <4> QED
          BY <3>1, <4>2, Zenon DEF x
      <3>3. Asked' = Asked /\ ToCome' = ToCome
        BY <2>2, <3>1 DEF Asked, ToCome, Output
      <3>4. Whole'
        BY <2>2, <3>2, <3>3
      <3> QED
        BY <1>0, <2>1, <2>2, <3>1, <3>3, <3>4 DEF Serves, Responding
    <2> QED
      BY <2>3, <2>4
  <1>3. CASE Open
    <2>1. /\ pc = "open" /\ todo = <<>> /\ fd \in Clients /\ child = "none" /\ Responding
          /\ UNCHANGED <<asked, out, fd, found, child>> /\ Response(fd)' = Response(fd)
      BY <1>0, <1>3 DEF Open, At, Shape, Serves, Response, Responding
    <2>2. CASE pc' = "exited"
      <3>1. CutShort'
        BY <1>0, <2>1, <2>2, SoFar DEF CutShort
      <3> QED
        BY <2>1, <2>2, <3>1 DEF Serves
    <2>3. CASE pc' = "close" /\ todo' = <<"body">>
      <3>1. ToCome = <<"body">> /\ ToCome' = <<>> /\ todo' \in Seq(Parts)
        BY <2>1, <2>3, Literals DEF ToCome
      <3>2. out[fd] \in Seq(Parts) /\ out[fd] \o todo' \in Seq(Parts)
        BY <1>0, <2>1, <3>1, Concatenated DEF Shape
      <3>3. out[fd] \o todo \o ToCome = out[fd] \o todo' \o ToCome'
        BY <2>1, <2>3, <3>1, <3>2, WithEmpty
      <3>4. Whole
        BY <1>w, <2>1 DEF CutShort
      <3>5. Whole'
        BY <2>1, <3>3, <3>4
      <3> QED
        BY <2>1, <2>3, <3>5 DEF Serves
    <2> QED
      BY <1>3, <2>2, <2>3 DEF Open, Exit
  <1>4. CASE Fork
    <2>1. /\ pc = "fork" /\ todo = <<>> /\ fd \in Clients /\ Responding
          /\ UNCHANGED <<out, fd, found, method, uri, asked, stat, todo>>
          /\ Response(fd)' = Response(fd) /\ Asked' = Asked
      BY <1>0, <1>4 DEF Fork, At, Shape, Response, Asked, Responding
    <2>2. CASE child' = "exec" /\ pc' = "wait"
      <3>1. ToCome' = ToCome /\ Whole
        BY <1>w, <2>1, <2>2 DEF ToCome, Output, CutShort
      <3>2. Whole'
        BY <2>1, <3>1
      <3> QED
        BY <1>0, <2>1, <2>2, <3>2 DEF Serves
    <2>3. CASE child' = "failed" /\ pc' = "exited"
      <3>1. CutShort'
        BY <1>0, <2>1, <2>3, SoFar DEF CutShort
      <3> QED
        BY <2>3, <3>1 DEF Serves
    <2> QED
      BY <1>4, <2>2, <2>3 DEF Fork, Exit
  <1>5. CASE ChildRuns \/ ProgramHangs
    <2>1. /\ child \in {"exec", "run"} /\ pc = "wait" /\ todo = <<>> /\ fd \in Clients /\ Responding
          /\ child' \in {"run", "hung", "dead"}
          /\ UNCHANGED <<fd, found, method, uri, asked, stat, todo, pc, rst, fin, sent>>
          /\ Response(fd)' = Response(fd) /\ Asked' = Asked
      BY <1>0, <1>5 DEF ChildRuns, ProgramHangs, Serves, Shape, Response, Asked, Responding
    <2>2. Whole' \/ CutShort' => Serves'
      BY <1>0, <2>1 DEF Serves
    <2>3. CASE out' = out /\ child = "run"
      <3>1. ToCome' = ToCome /\ child' # "exec"
        BY <2>1, <2>3 DEF ToCome, Output
      <3>2. CutShort => CutShort'
        BY <2>1, <2>3, <3>1, Zenon DEF CutShort
      <3> QED
        BY <1>w, <2>1, <2>2, <2>3, <3>1, <3>2
    <2>4. CASE out' = out /\ (rst[fd] \/ child' = "hung")
      <3>1. CutShort'
        BY <1>0, <2>1, <2>4, SoFar DEF CutShort
      <3> QED
        BY <2>2, <3>1
    <2>5. CASE child = "exec" /\ Put(Output)
      <3>1. Whole /\ ToCome = <<Output>> /\ ToCome' = <<>>
        BY <1>w, <2>1, <2>5 DEF CutShort, ToCome
      <3>2. out'[fd'] = Append(out[fd], Output) /\ out[fd] \in Seq(Parts) /\ Output \in Parts
        <4>1. out' = [out EXCEPT ![fd] = Append(out[fd], Output)]
          BY <2>5 DEF Put
        <4>2. out \in [Clients -> Seq(Parts)]
          BY <1>0 DEF Shape
        <4> QED
          BY <2>1, <4>1, <4>2, Literals
      <3>3. Append(out[fd], Output) = out[fd] \o <<Output>> /\ out[fd] \o <<Output>> \in Seq(Parts)
        BY <3>2, Appended
      <3>4. Whole'
        BY <2>1, <3>1, <3>2, <3>3, WithEmpty
      <3> QED
        BY <2>2, <3>4
    <2> QED
      BY <1>5, <2>3, <2>4, <2>5 DEF ChildRuns, ProgramHangs
  <1>6. CASE Wait
    <2>1. /\ pc = "wait" /\ todo = <<>> /\ fd \in Clients /\ child = "dead" /\ child' = "none"
          /\ pc' = "close" /\ Responding /\ UNCHANGED <<asked, out, fd, found, todo, rst, fin, sent>>
          /\ Response(fd)' = Response(fd)
      BY <1>0, <1>6 DEF Wait, At, Shape, Response, Responding
    <2>2. ToCome' = ToCome
      BY <2>1 DEF ToCome, Output
    <2>3. CutShort => CutShort'
      BY <2>1 DEF CutShort
    <2>4. Whole' \/ CutShort'
      BY <1>w, <2>1, <2>2, <2>3
    <2> QED
      BY <2>1, <2>4, Zenon DEF Serves
  <1>7. CASE Close
    <2>1. pc' = "accept" /\ todo' = <<>> /\ child' = "none"
      BY <1>0, <1>7 DEF Close, At, Serves, Shape
    <2> QED
      BY <2>1 DEF Serves, Responding
  <1> QED
    BY <1>1, <1>2, <1>3, <1>4, <1>5, <1>6, <1>7

LEMMA ServesStep == IInv /\ [Next]_vars => Serves'
  <1> SUFFICES ASSUME IInv, [Next]_vars PROVE Serves'
    OBVIOUS
  <1>0. Shape /\ Serves
    BY DEF IInv
  <1> USE DEF Apart, Serving, clientVars, outVars, doitVars
  <1>1. ASSUME NEW c \in Clients, Connect(c) \/ Send(c) \/ Shutdown(c) \/ Reset(c)
        PROVE  Serves'
    <2>1. UNCHANGED <<out, pc, fd, method, uri, asked, stat, todo, child, found>>
      BY <1>1 DEF Connect, Send, Shutdown, Reset
    <2>2. \A d \in Clients : rst[d] => rst'[d]
      BY <1>0, <1>1 DEF Connect, Send, Shutdown, Reset, Shape
    <2>3. \A d \in Clients : fin[d] => fin'[d] /\ sent'[d] = sent[d]
      BY <1>0, <1>1 DEF Connect, Send, Sending, Shutdown, Reset, Shape
    <2> QED
      BY <1>0, <2>1, <2>2, <2>3, ServesKept
  <1>2. ASSUME NEW u \in DOMAIN disk, ChangeFile(u) PROVE Serves'
    BY <1>0, <1>2, ServesKept DEF ChangeFile
  <1>3. CASE UNCHANGED vars \/ Drain \/ StopReading
    BY <1>0, <1>3, ServesKept DEF vars, Drain, StopReading
  <1> QED
    BY <1>1, <1>2, <1>3, ServesReading, ServesResponding DEF Next, Server, Environment

(* The connections that are not served have had no response, or all of it; *)
(* steps of the server and the child write to the one that is served.      *)
Aside(c) ==
  /\ conn'[c] \in {"none", "backlog"} =>
       /\ conn[c] \in {"none", "backlog"}
       /\ out'[c] = out[c] /\ found'[c] = found[c] /\ asked'[c] = asked[c]
  /\ conn'[c] = "closed" =>
       /\ conn[c] = "closed"
       /\ asked'[c] = asked[c] /\ out'[c] = out[c] /\ found'[c] = found[c]
       /\ rst'[c] = rst[c] /\ sent'[c] = sent[c]

LEMMA OthersKept == ASSUME Others, \A c \in Clients : Aside(c) PROVE Others'
  <1>1. ASSUME NEW c \in Clients, conn'[c] \in {"none", "backlog"} 
        PROVE  Untouched(c)' /\ asked'[c] = <<>>
    BY <1>1 DEF Others, Aside, Untouched
  <1>2. ASSUME NEW c \in Clients, conn'[c] = "closed" PROVE Answered(c)'
    <2>1. /\ Answered(c) /\ Response(c)' = Response(c) /\ out'[c] = out[c] /\ rst'[c] = rst[c]
          /\ sent'[c] = sent[c] /\ asked'[c] = asked[c]
      BY <1>2 DEF Others, Aside, Response
    <2> QED
      BY <2>1, Zenon DEF Answered
  <1> QED
    BY <1>1, <1>2 DEF Others

LEMMA OthersStep == IInv /\ [Next]_vars => Others'
  <1> SUFFICES ASSUME IInv, [Next]_vars PROVE Others'
    OBVIOUS
  <1>0. Shape /\ Connections /\ Serves /\ Others
    BY DEF IInv
  <1> USE DEF Apart, Serving, clientVars, outVars, doitVars
  <1>1. \A c \in Clients : c = fd <=> conn[c] = "open"
    BY <1>0 DEF Connections
  <1>2. ASSUME NEW c \in Clients, Connect(c) \/ Send(c) \/ Shutdown(c) \/ Reset(c),
               NEW d \in Clients
        PROVE  Aside(d)
    BY <1>0, <1>2 DEF Connect, Send, Sending, Shutdown, Reset, Shape, Aside
  <1>3. ASSUME NEW u \in DOMAIN disk, ChangeFile(u) PROVE \A d \in Clients : Aside(d)
    BY <1>3 DEF ChangeFile, Aside
  <1>4. CASE UNCHANGED vars
    BY <1>0, <1>4, OthersKept DEF vars, Aside
  <1>5. ASSUME Accept, NEW d \in Clients PROVE Aside(d)
    BY <1>0, <1>5 DEF Accept, Shape, Aside
  <1>6. ASSUME \/ Refill \/ ReadError \/ TakeChars \/ NoRequest \/ HeaderLine \/ NoHeaders
               \/ Open \/ Fork \/ Wait \/ Drain \/ StopReading \/ ProgramHangs,
               NEW d \in Clients
        PROVE  Aside(d)
    BY <1>6 DEF Refill, ReadError, TakeChars, NoRequest, HeaderLine, NoHeaders,
         Open, Fork, Wait, Drain, StopReading, ProgramHangs, Aside
  <1>7. ASSUME \/ RequestLine \/ Stat \/ Write \/ ChildRuns, NEW d \in Clients PROVE Aside(d)
    BY <1>0, <1>1, <1>7 DEF RequestLine, Stat, Write, Put, ChildRuns, Shape, Aside
  <1>8. CASE Close
    <2>1. /\ pc = "close" /\ todo = <<>> /\ fd \in Clients /\ Responding
          /\ conn' = [conn EXCEPT ![fd] = "closed"]
          /\ UNCHANGED <<asked, out, found, rst, sent>>
      BY <1>0, <1>8 DEF Close, At, Shape, Responding
    <2>2. IsPrefix(out[fd], Response(fd))
      BY <1>0, <2>1, SoFar
    <2>3. ~rst[fd] /\ sent[fd] > 0 => asked[fd] # <<>> /\ out[fd] = Response(fd)
      <3>1. CASE CutShort
        BY <1>0, <2>1, <3>1 DEF CutShort, Serves, Shape
      <3>2. CASE ~CutShort
        <4>1. asked[fd] # <<>> /\ out[fd] \o todo \o ToCome = Response(fd) /\ ToCome = <<>>
          BY <1>0, <2>1, <3>2 DEF Serves, ToCome
        <4>2. out[fd] \o todo \o ToCome = out[fd]
          BY <1>0, <2>1, <4>1, WithEmpty DEF Shape
        <4> QED
          BY <4>1, <4>2
      <3> QED
        BY <3>1, <3>2
    <2>4. Answered(fd)
      BY <2>2, <2>3 DEF Answered
    <2>5. ASSUME NEW c \in Clients
          PROVE  /\ Answered(c)' = Answered(c) /\ Untouched(c)' = Untouched(c)
                 /\ conn'[c] = IF c = fd THEN "closed" ELSE conn[c]
      BY <1>0, <2>1 DEF Answered, Untouched, Response, Shape
    <2> QED
      BY <1>0, <2>1, <2>4, <2>5 DEF Others
  <1> QED
    BY <1>0, <1>2, <1>3, <1>4, <1>5, <1>6, <1>7, <1>8, OthersKept DEF Next, Server, Environment

-----------------------------------------------------------------------------
(* The invariant, and what it says.                                        *)

LEMMA InvHolds == Spec => []IInv
  <1>1. IInv /\ [Next]_vars => IInv'
    <2> SUFFICES ASSUME IInv, [Next]_vars PROVE IInv'
      OBVIOUS
    <2>1. pc = "accept" => todo = <<>>
      BY DEF IInv, Serves
    <2> QED
      BY <2>1, ShapeStep, ConnectionsStep, InputStep, LocalsStep, ContentStep, ServesStep, OthersStep
         DEF IInv
  <1> QED
    BY <1>1, InitialInv, PTL DEF Spec

(* ServedAsAsked in Tiny: the words of each client's request are used for  *)
(* it as far as it sent them, and words of earlier requests, or garbage,   *)
(* only for those it did not send; it is sent the response to these words, *)
(* in order, and the whole of it before its connection is closed, whatever *)
(* the others and the file system do meanwhile.                            *)
THEOREM ServedAsAskedAlways == Spec => []ServedAsAsked
  <1>1. ASSUME IInv PROVE ServedAsAsked
    <2>0. Shape /\ Connections /\ Locals /\ Content /\ Serves /\ Others
      BY <1>1 DEF IInv
    <2> SUFFICES
          ASSUME NEW c \in Clients
          PROVE  /\ asked[c] # <<>> => \A i \in {1, 2} :
                      IF i <= Len(request[c].words) /\ i <= sent[c]
                      THEN asked[c][i] = request[c].words[i] ELSE asked[c][i] \in Left(i)
                 /\ found[c] # None => /\ asked[c] # <<>>
                                       /\ MayBe(found[c], KindAt(Files, asked[c][2]))
                 /\ IsPrefix(out[c], Response(c))
                 /\ conn[c] = "closed" /\ ~rst[c] /\ sent[c] > 0
                      => asked[c] # <<>> /\ out[c] = Response(c)
      BY DEF ServedAsAsked
    <2>1. out[c] \in Seq(Parts) /\ Response(c) \in Seq(Parts)
      BY <2>0, ResponseSeq DEF Shape
    <2>2. IsPrefix(out[c], Response(c))
      <3>1. Untouched(c) => IsPrefix(out[c], Response(c))
        BY <2>1, EmptyPrefix DEF Untouched
      <3>2. CASE conn[c] \in {"none", "backlog"}
        BY <2>0, <3>1, <3>2 DEF Others
      <3>3. CASE conn[c] = "closed"
        BY <2>0, <3>3 DEF Others, Answered
      <3>4. CASE conn[c] = "open"
        <4>1. c = fd /\ pc # "accept"
          BY <2>0, <3>4, TinyAssumption DEF Connections, Shape, TinyAssumption
        <4>2. Responding \/ Untouched(c)
          BY <2>0, <4>1 DEF Serves, Responding, Shape, Places
        <4> QED
          BY <2>0, <3>1, <4>1, <4>2, SoFar
      <3> QED
        BY <2>0, <3>2, <3>3, <3>4 DEF Shape
    <2>3. asked[c] # <<>> => \A i \in {1, 2} :
            IF i <= Len(request[c].words) /\ i <= sent[c]
            THEN asked[c][i] = request[c].words[i] ELSE asked[c][i] \in Left(i)
      BY <2>0 DEF Locals, Used
    <2>4. found[c] # None => asked[c] # <<>> /\ MayBe(found[c], KindAt(Files, asked[c][2]))
      BY <2>0 DEF Content
    <2>5. conn[c] = "closed" /\ ~rst[c] /\ sent[c] > 0 => asked[c] # <<>> /\ out[c] = Response(c)
      BY <2>0 DEF Others, Answered
    <2> QED
      BY <2>2, <2>3, <2>4, <2>5
  <1> QED
    BY <1>1, InvHolds, PTL

==============================================================================
