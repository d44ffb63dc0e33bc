------------------------------- MODULE Parser -------------------------------
(***************************************************************************)
(* How a request is read from the bytes of a connection                    *)
(* (HttpData::parseURI and parseHeaders, glacier/httpdata.cc), character   *)
(* by character and read by read: the network cuts what a client sends     *)
(* anywhere, and each part is parsed when it comes.  Connection.tla has    *)
(* what is around it.  A word that is searched for as a whole, such as     *)
(* "GET", is one character: parseURI waits for the whole line.             *)
(***************************************************************************)
EXTENDS Integers, Sequences, SequencesExt

CONSTANTS
  Chars,
  Sendable,   \* what the client may send: [text, space, eol, headers], the
              \* text and the places in it where its parts end: the path, the
              \* request line and, of each header, [key, colon, end]
  MaxValue    \* the 255 of parseHeaders

CR == "CR"
LF == "LF"

(* A header begins behind the line before it.                              *)
LineBefore(r, j) == IF j = 1 THEN r.eol ELSE r.headers[j - 1].end
HeadersEnd(r) == LineBefore(r, Len(r.headers) + 1) + 3

HeaderAt(t, h) ==
  /\ h.key < h.colon /\ \A p \in h.key .. h.colon - 1 : t[p] \notin {":", CR, LF}
  /\ t[h.colon] = ":" /\ t[h.colon + 1] = " "
  /\ h.colon + 2 <= h.end /\ \A p \in h.colon + 2 .. h.end - 1 : t[p] # CR
  /\ t[h.end] = CR /\ t[h.end + 1] = LF

(* The grammar of requests. *)
IsRequest(r) ==
  /\ r.text \in Seq(Chars) /\ r.space \in Nat /\ r.eol \in Nat
  /\ r.headers \in Seq([key : Nat, colon : Nat, end : Nat])
  /\ r.text[2] = " " /\ r.text[3] = "/"
  /\ r.space >= 4 /\ \A p \in 4 .. r.space - 1 : r.text[p] # " "
  /\ r.text[r.space] = " " /\ r.text[r.space + 1] = "HTTP" /\ r.text[r.space + 2] = "/"
  /\ r.eol >= r.space + 3 /\ \A p \in 1 .. r.eol - 1 : r.text[p] # CR
  /\ r.text[r.eol] = CR /\ r.text[r.eol + 1] = LF
  /\ \A j \in 1 .. Len(r.headers) :
       r.headers[j].key = LineBefore(r, j) + 2 /\ HeaderAt(r.text, r.headers[j])
  /\ r.text[HeadersEnd(r) - 1] = CR /\ r.text[HeadersEnd(r)] = LF
  /\ HeadersEnd(r) <= Len(r.text)

ASSUME RequestsAssumption == MaxValue \in Nat /\ \A r \in Sendable : IsRequest(r)

VARIABLES
  sent,      \* the request
  received,  \* how many of its characters came
  lastCut,   \* history: where the last read but the present one ended
  safe,      \* history: no read ended where parseHeaders loses its place
  phase,        \* "read" between two reads, "parse" in parseHeaders
  inBuffer_, state_, parse_state_, method_, filename_, version_, headers_,
  index,     \* the i of parseHeaders
  key_start, key_end, value_start, value_end, now_read_line_begin, finish

client == <<sent, received, lastCut, safe>>
request == <<method_, filename_, version_>>
locals == <<index, key_start, key_end, value_start, value_end, now_read_line_begin, finish>>
parserVars == <<client, phase, inBuffer_, state_, parse_state_, request, headers_, locals>>

StartLoop ==
  /\ index' = 0 /\ key_start' = 0 /\ key_end' = 0 /\ value_start' = 0 /\ value_end' = 0
  /\ now_read_line_begin' = 0 /\ finish' = FALSE

ParserInit ==
  /\ sent \in Sendable
  /\ received = 0 /\ lastCut = 0 /\ safe = TRUE
  /\ phase = "read" /\ inBuffer_ = <<>> /\ state_ = "uri" /\ parse_state_ = "START"
  /\ method_ = "GET" /\ filename_ = <<>> /\ version_ = <<"1", ".", "1">> /\ headers_ = <<>>
  /\ index = 0 /\ key_start = 0 /\ key_end = 0 /\ value_start = 0 /\ value_end = 0
  /\ now_read_line_begin = 0 /\ finish = FALSE

(* string::find and substr: 0 where find returns npos. *)
find(s, what, start) ==
  LET found == {p \in start .. Len(s) : s[p] = what}
  IN  IF found = {} THEN 0 ELSE Min(found)
from(s, n) == SubSeq(s, n, Len(s))

-----------------------------------------------------------------------------
(* parseURI.                                                               *)
Index == <<"index.html">>
Named(name) == IF Contains(name, "?") THEN SubSeq(name, 1, find(name, "?", 1) - 1) ELSE name

(* The method is the first of the three that occurs anywhere in the line.  *)
Methods == {"GET", "POST", "HEAD"}
MethodOf(line) ==
  IF Contains(line, "GET") THEN "GET"
  ELSE IF Contains(line, "POST") THEN "POST"
  ELSE IF Contains(line, "HEAD") THEN "HEAD" ELSE "none"

Versions == {<<"1", ".", "0">>, <<"1", ".", "1">>}

(* The fields read from a complete line, and whether it is a request line. *)
ParseLine(line) ==
  LET method == MethodOf(line)
      slash == find(line, "/", find(line, method, 1))
      space == find(line, " ", slash)
      second == find(line, "/", space)
      complete == second # 0 /\ Len(line) - second >= 3
      version == IF complete THEN SubSeq(line, second + 1, second + 3) ELSE <<>>
  IN  IF method = "none" THEN state_' = "error" /\ UNCHANGED request
      ELSE /\ method_' = method
           /\ IF slash = 0
              THEN /\ filename_' = Index /\ version_' = <<"1", ".", "1">>
                   /\ state_' = "headers"
              ELSE IF space = 0 THEN state_' = "error" /\ UNCHANGED <<filename_, version_>>
              ELSE /\ filename_' = IF space - slash > 1
                                   THEN Named(SubSeq(line, slash + 1, space - 1)) ELSE Index
                   /\ version_' = IF version \in Versions THEN version ELSE version_
                   /\ state_' = IF version \in Versions THEN "headers" ELSE "error"

(* The line is taken from the buffer, its '\r' with it. *)
TakeLine(buffer) ==
  LET end == find(buffer, CR, 1)
  IN  IF end = 0 THEN inBuffer_' = buffer /\ UNCHANGED <<phase, state_, request>>
      ELSE /\ ParseLine(SubSeq(buffer, 1, end - 1))
           /\ inBuffer_' = IF state_' = "error" THEN <<>> ELSE from(buffer, end + 1)
           /\ phase' = IF state_' = "error" THEN "read" ELSE "parse"

(* A read may end before the first colon and behind the last '\r'.         *)
SafeCut(n) ==
  sent.headers # <<>> => n < sent.headers[1].colon \/ n >= HeadersEnd(sent) - 1

(* HttpData::handleRead, until the request is complete or refused: n more  *)
(* characters have come.                                                   *)
HandleRead(n) ==
  /\ phase = "read" /\ state_ \in {"uri", "headers"}
  /\ received + n <= Len(sent.text)
  /\ LET buffer == inBuffer_ \o SubSeq(sent.text, received + 1, received + n)
     IN  \/ state_ = "uri" /\ TakeLine(buffer)
         \/ /\ state_ = "headers"
            /\ inBuffer_' = buffer /\ phase' = "parse" /\ UNCHANGED <<state_, request>>
  /\ StartLoop
  /\ received' = received + n
  /\ lastCut' = received
  /\ safe' = (safe /\ SafeCut(received))
  /\ UNCHANGED <<sent, parse_state_, headers_>>

-----------------------------------------------------------------------------
(* parseHeaders: parse_state_ and headers_ outlive the call, the positions *)
(* do not.  One step of its loop for each character; no read comes between *)
(* them.                                                                   *)
char == inBuffer_[index + 1]

Loop(state) ==
  /\ phase = "parse" /\ index < Len(inBuffer_) /\ ~finish
  /\ parse_state_ = state
  /\ index' = index + 1
  /\ UNCHANGED <<client, inBuffer_, request>>

Fail == state_' = "error" /\ phase' = "read"
Stay == UNCHANGED <<phase, state_>>
To(state) == parse_state_' = state /\ Stay

(* Mutant of OnStart: the beginning of the line is not noted. *)
OnStartKeepsBegin ==
  /\ Loop("START")
  /\ IF char \in {CR, LF} THEN To("START") /\ UNCHANGED key_start
     ELSE To("KEY") /\ key_start' = index
  /\ UNCHANGED <<headers_, key_end, value_start, value_end, now_read_line_begin, finish>>

OnStart ==
  /\ Loop("START")
  /\ IF char \in {CR, LF} THEN To("START") /\ UNCHANGED <<key_start, now_read_line_begin>>
     ELSE To("KEY") /\ key_start' = index /\ now_read_line_begin' = index
  /\ UNCHANGED <<headers_, key_end, value_start, value_end, finish>>

OnKey ==
  /\ Loop("KEY")
  /\ key_end' = IF char = ":" THEN index ELSE key_end
  /\ IF char \in {CR, LF} \/ (char = ":" /\ index = key_start)
     THEN Fail /\ UNCHANGED parse_state_
     ELSE To(IF char = ":" THEN "COLON" ELSE "KEY")
  /\ UNCHANGED <<headers_, key_start, value_start, value_end, now_read_line_begin, finish>>

OnColon ==
  /\ Loop("COLON")
  /\ IF char = " " THEN To("SPACES_AFTER_COLON") ELSE Fail /\ UNCHANGED parse_state_
  /\ UNCHANGED <<headers_, key_start, key_end, value_start, value_end, now_read_line_begin,
                 finish>>

OnSpaces ==
  /\ Loop("SPACES_AFTER_COLON")
  /\ To("VALUE") /\ value_start' = index
  /\ UNCHANGED <<headers_, key_start, key_end, value_end, now_read_line_begin, finish>>

OnValue ==
  /\ Loop("VALUE")
  /\ IF char = CR
     THEN /\ parse_state_' = "CR" /\ value_end' = index
          /\ IF index = value_start THEN Fail ELSE Stay
     ELSE /\ UNCHANGED <<parse_state_, value_end>>
          /\ IF index - value_start > MaxValue THEN Fail ELSE Stay
  /\ UNCHANGED <<headers_, key_start, key_end, value_start, now_read_line_begin, finish>>

OnCR ==
  /\ Loop("CR")
  /\ LET key == SubSeq(inBuffer_, key_start + 1, key_end)
     IN  IF char = LF
         THEN /\ To("LF")
              /\ headers_' = [k \in DOMAIN headers_ \cup {key} |->
                                IF k = key THEN SubSeq(inBuffer_, value_start + 1, value_end)
                                ELSE headers_[k]]
              /\ now_read_line_begin' = index
         ELSE Fail /\ UNCHANGED <<parse_state_, headers_, now_read_line_begin>>
  /\ UNCHANGED <<key_start, key_end, value_start, value_end, finish>>

OnLF ==
  /\ Loop("LF")
  /\ IF char = CR THEN To("END_CR") /\ UNCHANGED key_start ELSE To("KEY") /\ key_start' = index
  /\ UNCHANGED <<headers_, key_end, value_start, value_end, now_read_line_begin, finish>>

OnEndCR ==
  /\ Loop("END_CR")
  /\ IF char = LF THEN To("END_LF") ELSE Fail /\ UNCHANGED parse_state_
  /\ UNCHANGED <<headers_, key_start, key_end, value_start, value_end, now_read_line_begin,
                 finish>>

(* One character more is consumed. *)
OnEndLF ==
  /\ Loop("END_LF")
  /\ To("END_LF") /\ finish' = TRUE /\ key_start' = index /\ now_read_line_begin' = index
  /\ UNCHANGED <<headers_, key_end, value_start, value_end>>

(* The buffer is cut at now_read_line_begin, and read again from there in  *)
(* the state that was reached.                                             *)
Return ==
  /\ phase = "parse" /\ (index >= Len(inBuffer_) \/ finish)
  /\ phase' = "read"
  /\ IF parse_state_ = "END_LF"
     THEN state_' = "done" /\ inBuffer_' = from(inBuffer_, index + 1)
     ELSE inBuffer_' = from(inBuffer_, now_read_line_begin + 1) /\ UNCHANGED state_
  /\ UNCHANGED <<client, parse_state_, request, headers_, locals>>

HeaderLoop ==
  \/ OnStart \/ OnKey \/ OnColon \/ OnSpaces \/ OnValue \/ OnCR \/ OnLF \/ OnEndCR \/ OnEndLF
  \/ Return

ParserNext == HeaderLoop \/ \E n \in 1 .. Len(sent.text) : HandleRead(n)

ParserSpec == ParserInit /\ [][ParserNext]_parserVars

-----------------------------------------------------------------------------
(* Hazard: positions in the buffer are kept across characters and lost     *)
(* across reads, and the final state consumes a character too many         *)
(* (httpdata.cc:297-383).  A request with headers, of a known method and   *)
(* version, whose values are neither empty nor too long and whose path     *)
(* names no method, is read as it was sent if reads ended only where       *)
(* parseHeaders bears it; what stays in the buffer is what came behind it, *)
(* without its first character, or with a '\n' before it where the last    *)
(* read ended between the final '\r' and '\n'.  One with a value that is   *)
(* too long is refused.                                                    *)
Part(first, last) == SubSeq(sent.text, first, last)
LineText == Part(1, sent.eol - 1)
Path == Part(4, sent.space - 1)
Version == Part(sent.space + 3, sent.eol - 1)
Headers == 1 .. Len(sent.headers)
Key(j) == Part(sent.headers[j].key, sent.headers[j].colon - 1)
Value(j) == Part(sent.headers[j].colon + 2, sent.headers[j].end - 1)
Length(j) == sent.headers[j].end - sent.headers[j].colon - 2

(* Of headers with the same key the last counts. *)
HeadersSent(n) ==
  /\ DOMAIN headers_ = {Key(j) : j \in 1 .. n}
  /\ \A j \in 1 .. n : (\A m \in j + 1 .. n : Key(m) # Key(j)) => headers_[Key(j)] = Value(j)

ReadAsSent ==
  /\ method_ = sent.text[1] /\ version_ = Version
  /\ filename_ = IF Path = <<>> THEN Index ELSE Named(Path)
  /\ HeadersSent(Len(sent.headers))
  /\ inBuffer_ = IF lastCut = HeadersEnd(sent) - 1 THEN Part(HeadersEnd(sent), received)
                 ELSE Part(HeadersEnd(sent) + 2, received)

Readable ==
  /\ sent.headers # <<>> /\ \A j \in Headers : Length(j) # 0
  /\ sent.text[1] \in Methods /\ MethodOf(LineText) = sent.text[1] /\ Version \in Versions

ParsedAsSent ==
  phase = "read" /\ safe /\ Readable =>
    IF \E j \in Headers : Length(j) > MaxValue + 1 THEN state_ # "done"
    ELSE /\ state_ # "error"
         /\ received = Len(sent.text) => state_ = "done"
         /\ state_ = "done" => ReadAsSent
=============================================================================
