------------------------------ MODULE Logging ------------------------------
(***************************************************************************)
(* Logging to a file without the asynchronous back end, as                 *)
(* tests/logfile_test.cc does it: threads execute LOG_ statements          *)
(* (glacier/base/logging.cc, logging.h), each of which formats a line in a *)
(* LogStream and hands it to g_output, LogFile::append; a FATAL statement  *)
(* then calls g_flush, LogFile::flush, and abort.                          *)
(*                                                                         *)
(* A Logger is constructed, filled and finished without touching anything  *)
(* that threads share but the clock, which is read once, and               *)
(* g_logTimeZone, which is tested twice: three steps.  The log level, the  *)
(* output and the flush function are set before the threads start.         *)
(***************************************************************************)
EXTENDS LogFile, LogStream, FiniteSetsExt, Functions

CONSTANTS
  Statements,    \* what the program logs: a level and the arguments; a
                 \* statement that g_loglevel suppresses is none
  BasenameSize,  \* the N of SourceFile, which counts the terminating NUL
  StartTime, MaxTime, MaxLines  \* bounds: the clock and the statements

Levels == {"TRACE", "DEBUG", "INFO", "WARN", "ERROR", "FATAL"}

NoStatement == [level |-> "none"]
Invalid == "invalid"  \* a TimeZone without data

VARIABLES
  g_logTimeZone,
  zoneSince,     \* history: the second in which it was last set
  t_lastsecond,  \* of each thread
  t_time,        \* of each thread: the second and the zone it shows
  impl,          \* the Logger::Impl each thread constructs
  stmt,          \* the statement each thread executes, its line complete
  count,         \* how many statements each thread began
  flushed,       \* the threads that called g_flush
  aborted        \* the thread that called abort

fileVars == <<now, files, count_, startOfPeriod_, lastRoll_, lastFlush_,
              mutex_, call, line, remain>>
loggerVars == <<g_logTimeZone, zoneSince, t_lastsecond, t_time, impl, stmt, count, flushed,
                aborted>>
vars == <<fileVars, loggerVars>>

Init ==
  /\ LogFileInit(StartTime)
  /\ g_logTimeZone = Invalid /\ zoneSince = 0
  /\ t_lastsecond = [t \in Threads |-> 0]
  /\ t_time = [t \in Threads |-> [second |-> 0, zone |-> Invalid]]
  /\ impl = [t \in Threads |-> NoStatement] /\ stmt = [t \in Threads |-> NoStatement]
  /\ count = [t \in Threads |-> 0] /\ flushed = {}
  /\ aborted = NoOne

-----------------------------------------------------------------------------
String(name, size) == [type |-> "string", text |-> name, value |-> size]

(* The constructors of Impl and Logger: the time, the thread, the level    *)
(* and, below INFO, the function.                                          *)
Prefix(level) ==
  <<String("time", 19),
    String("microseconds", IF g_logTimeZone = Invalid THEN 9 ELSE 8),
    String("tid", 6), String("level", 6)>>
  \o (IF level \in {"TRACE", "DEBUG"} THEN <<String("func", 4), [type |-> "char"]>>
                                      ELSE <<>>)

finish == <<String(" - ", 3), String("basename", BasenameSize), String(":", 1),
            [type |-> "integer", value |-> 42], String("newline", 1)>>

(* What log statements are; and no number is longer than kMaxNumericSize   *)
(* allows for.                                                             *)
ASSUME StatementsAssumption ==
  \A s \in Statements :
    /\ s.level \in Levels /\ s.args \in Seq(Arguments)
    /\ \A arg \in Range(s.args) \cup Range(finish) :
         arg.type \in Numbers => Len(NumberText(arg)) < kMaxNumericSize
ASSUME BoundsAssumption == BasenameSize \in Nat /\ StartTime \in Nat

(* Bounds: the statements, and nothing else happens behind the last one.   *)
Constructing == {t \in Threads : impl[t] # NoStatement}
More == FoldFunction(LAMBDA m, n : m + n, 0, count) + Cardinality(Constructing) < MaxLines
Busy == More \/ Constructing # {} \/ \E t \in Threads : stmt[t] # NoStatement

(* The constructor of Impl takes the time. *)
Construct(t) ==
  /\ aborted = NoOne /\ stmt[t] = NoStatement /\ impl[t] = NoStatement /\ More
  /\ \E s \in Statements :
       impl' = [impl EXCEPT ![t] =
                 [level |-> s.level, args |-> s.args, second |-> now, dated |-> FALSE]]
  /\ UNCHANGED <<fileVars, g_logTimeZone, zoneSince, t_lastsecond, t_time, stmt, count, flushed,
                 aborted>>

(* Mutant of NewSecond: t_lastsecond is shared by the threads. *)
NewSecondOfAny(t) == \A u \in Threads : t_lastsecond[u] # impl[t].second

NewSecond(t) == t_lastsecond[t] # impl[t].second

(* formatTime: the text of the second, in the zone there is now, is kept   *)
(* until the second changes.                                               *)
FormatTime(t) ==
  /\ aborted = NoOne /\ impl[t] # NoStatement /\ ~impl[t].dated
  /\ IF NewSecond(t)
     THEN /\ t_lastsecond' = [t_lastsecond EXCEPT ![t] = impl[t].second]
          /\ t_time' = [t_time EXCEPT ![t] = [second |-> impl[t].second, zone |-> g_logTimeZone]]
     ELSE UNCHANGED <<t_lastsecond, t_time>>
  /\ impl' = [impl EXCEPT ![t].dated = TRUE]
  /\ UNCHANGED <<fileVars, g_logTimeZone, zoneSince, stmt, count, flushed, aborted>>

(* The rest of formatTime, which looks at the zone again; then the line is *)
(* completed and ~Logger calls g_output.                                   *)
Statement(t) ==
  LET args == Prefix(impl[t].level) \o impl[t].args \o finish
      buffer == PutAll(EmptyBuffer, args)
  IN
  /\ aborted = NoOne /\ impl[t] # NoStatement /\ impl[t].dated
  /\ impl' = [impl EXCEPT ![t] = NoStatement]
  /\ count' = [count EXCEPT ![t] = @ + 1]
  /\ stmt' = [stmt EXCEPT ![t] =
               [level |-> impl[t].level, args |-> args, buffer |-> buffer,
                second |-> impl[t].second, stamp |-> t_time[t], zone |-> g_logTimeZone]]
  /\ line' = [line EXCEPT ![t] = [by |-> t, k |-> count'[t], len |-> buffer.len]]
  /\ remain' = [remain EXCEPT ![t] = buffer.len]
  /\ call' = [call EXCEPT ![t] = "append"]
  /\ UNCHANGED <<now, files, count_, startOfPeriod_, lastRoll_, lastFlush_, mutex_,
                 g_logTimeZone, zoneSince, t_lastsecond, t_time, flushed, aborted>>

(* append and flush, called by ~Logger; when append returns the statement  *)
(* is over, unless its level is FATAL.                                     *)
InLogFile(t) ==
  /\ aborted = NoOne /\ LogFileStep(t)
  /\ stmt' = IF call[t] # "flush" /\ call'[t] = "none" /\ stmt[t].level # "FATAL"
             THEN [stmt EXCEPT ![t] = NoStatement] ELSE stmt
  /\ UNCHANGED <<g_logTimeZone, zoneSince, t_lastsecond, t_time, impl, count, aborted, flushed>>

(* ~Logger of a FATAL statement: g_flush, then abort.                      *)
Fatal(t) == aborted = NoOne /\ stmt[t] # NoStatement /\ call[t] = "none"

CallFlush(t) ==
  /\ Fatal(t) /\ t \notin flushed
  /\ call' = [call EXCEPT ![t] = "flush"]
  /\ flushed' = flushed \cup {t}
  /\ UNCHANGED <<now, files, count_, startOfPeriod_, lastRoll_, lastFlush_, mutex_, line,
                 remain, g_logTimeZone, zoneSince, t_lastsecond, t_time, impl, stmt, count,
                 aborted>>

Abort(t) ==
  /\ Fatal(t) /\ t \in flushed
  /\ aborted' = t
  /\ UNCHANGED <<fileVars, g_logTimeZone, zoneSince, t_lastsecond, t_time, impl, stmt, count,
                 flushed>>

(* Once: to set it again would free what other threads may be reading.     *)
SetTimeZone ==
  /\ aborted = NoOne /\ Busy /\ g_logTimeZone = Invalid
  /\ g_logTimeZone' = "zone" /\ zoneSince' = now
  /\ UNCHANGED <<fileVars, t_lastsecond, t_time, impl, stmt, count, flushed, aborted>>

Tick == aborted = NoOne /\ Busy /\ now < MaxTime /\ Advance /\ UNCHANGED loggerVars

Next ==
  \/ \E t \in Threads : \/ Construct(t) \/ FormatTime(t) \/ Statement(t)
                        \/ InLogFile(t) \/ CallFlush(t) \/ Abort(t)
  \/ SetTimeZone \/ Tick

Spec == Init /\ [][Next]_vars

-----------------------------------------------------------------------------
(* Hazard: locking and rolling split or mix lines.  The parts of a line    *)
(* are together in one file, each continues the one before it and the last *)
(* ends the line, unless it is being written; the lines of a thread are in *)
(* its order: append holds mutex_ over all its writes and rolls only       *)
(* behind a line (logfile.cc:28-43, 73-93).                                *)
Parts == UNION {{<<f, i>> : i \in DOMAIN files[f].text} : f \in DOMAIN files}
PartAt(p) == files[p[1]].text[p[2]]
Before(p, q) == p[1] < q[1] \/ (p[1] = q[1] /\ p[2] < q[2])

(* The part at i begins its line, ends it so far. *)
Begins(text, i) == i = 1 \/ text[i - 1].line # text[i].line
Ends(text, i) == i = Len(text) \/ text[i + 1].line # text[i].line

WholeLines ==
  /\ \A p, q \in Parts :
       /\ PartAt(p).line = PartAt(q).line =>
            /\ p[1] = q[1]
            /\ \A i \in p[2] .. q[2] : PartAt(<<p[1], i>>).line = PartAt(p).line
       /\ Before(p, q) /\ PartAt(p).line.by = PartAt(q).line.by =>
            PartAt(p).line.k <= PartAt(q).line.k
  /\ \A p \in Parts :
       LET text == files[p[1]].text
           part == text[p[2]]
           l == part.line
           prev == text[p[2] - 1]
       IN  /\ part.from = IF Begins(text, p[2]) THEN 0 ELSE prev.from + prev.bytes
           /\ Ends(text, p[2]) =>
                part.from + part.bytes = l.len - (IF line[l.by] = l THEN remain[l.by] ELSE 0)

(* Hazard: the guard against two files of the same name, the counter of    *)
(* checks and the clock that moves on between them keep a file open for    *)
(* too long (logfile.cc:73-113).  A line follows the one that made the     *)
(* file too large only if that came in the second in which the file was    *)
(* opened; the checkEveryN_-th line of a later day in a file is its last   *)
(* one; no two files have the same name.                                   *)
Starts(text) == {i \in DOMAIN text : Begins(text, i)}
Late(f) == {i \in Starts(f.text) : StartOfPeriod(f.text[i].at) # StartOfPeriod(f.name)}

RolledInTime ==
  /\ \A f \in DOMAIN files :
       /\ \A i \in Starts(files[f].text) :
            files[f].text[i].pos > rollSize_ => files[f].text[i - 1].at = files[f].name
       /\ LET late == Cardinality(Late(files[f]))
          IN  late < checkEveryN_ \/ (late = checkEveryN_ /\ (mutex_ # NoOne \/ f < Len(files)))
       /\ \A g \in DOMAIN files : f < g => files[f].name < files[g].name

(* Hazard: what is written stays in stdio's buffer.  Between appends there *)
(* are fewer than checkEveryN_ lines in it that are later by more than     *)
(* flushInterval_ than the first of them: the lines that a crash may take  *)
(* are few or recent (logfile.cc:80-91).                                   *)
WaitingAfter(f, time) == {i \in Starts(f.text) : i > f.onDisk /\ f.text[i].at > time}

FlushedSoon ==
  mutex_ = NoOne =>
    \A first \in Starts(file.text) :
      first > file.onDisk =>
        Cardinality(WaitingAfter(file, file.text[first].at + flushInterval_)) < checkEveryN_

(* Hazard: another thread rolls the file between the FATAL line and its    *)
(* flush.  When a thread has aborted, its last line and all that comes     *)
(* before it is on the disk (logging.cc:125-132).                          *)
OnDisk(p) == p[2] <= files[p[1]].onDisk

FatalOnDisk ==
  aborted # NoOne =>
    LET mine == {p \in Parts : PartAt(p).line.by = aborted
                               /\ PartAt(p).line.k = count[aborted]}
    IN  /\ mine # {}
        /\ \A p \in mine : \A q \in Parts : q = p \/ Before(q, p) => OnDisk(q)

(* Hazard: the text of the second is kept per thread while the clock and   *)
(* g_logTimeZone go on, between the reading of the clock, the filling of   *)
(* the text and the choice of the suffix too; numbers are at their limits  *)
(* and lines as long as the buffer.  A line shows the second in which it   *)
(* was begun; its 'Z' is never wrong, and from the second after the one in *)
(* which the zone was set on it shows that zone and has no 'Z'; nothing is *)
(* written beyond the buffer; if it ends up with room for any of its       *)
(* pieces again the line has all of them, with the newline that ends it,   *)
(* and the text of each integer reads as its value (logging.cc:72-114,     *)
(* logstream.cc:10-54).                                                    *)
Numeral(text) ==
  LET negative == text[1] = "-"
      digit(c) == CHOOSE d \in 0 .. 9 : zero(d) = c
      s == IF negative THEN Tail(text) ELSE text
      value[k \in 0 .. Len(s)] == IF k = 0 THEN 0 ELSE 10 * value[k - 1] + digit(s[k])
  IN  IF negative THEN -value[Len(s)] ELSE value[Len(s)]

StampRight(s) ==
  /\ s.stamp.second = s.second
  /\ s.zone = Invalid => s.stamp.zone = Invalid
  /\ zoneSince < s.second => s.stamp.zone = g_logTimeZone /\ s.zone = g_logTimeZone

Room(arg) == IF arg.type \in Numbers THEN kMaxNumericSize
             ELSE IF arg.type = "string" THEN arg.value ELSE 6

TextRight(args, b) ==
  /\ b.top <= kSmallBuffer
  /\ (\A i \in DOMAIN args : b.len + Room(args[i]) < kSmallBuffer) =>
       /\ Len(b.pieces) = Len(args)
       /\ \A i \in DOMAIN args :
            args[i].type = "integer" => Numeral(b.pieces[i]) = args[i].value

LineText ==
  \A t \in Threads : stmt[t] # NoStatement =>
    StampRight(stmt[t]) /\ TextRight(stmt[t].args, stmt[t].buffer)
=============================================================================
