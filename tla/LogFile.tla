------------------------------ MODULE LogFile ------------------------------
(***************************************************************************)
(* The log file (glacier/base/logfile.cc, logfile.h): append writes a line *)
(* under mutex_, opens the next file when the current one has grown beyond *)
(* rollSize_ and, on every checkEveryN_-th line that did not do so, when a *)
(* new day has begun, or flushes it when the last flush is long ago.       *)
(*                                                                         *)
(* The program holds mutex_ throughout append and may be overtaken by the  *)
(* clock between any two of its steps: the write, the check, which reads   *)
(* the time, and rollFile, which reads it again.  The clock is in seconds, *)
(* as time(0) is.  stdio keeps what is written until a flush or a close:   *)
(* that it may write some of it out before is left out, only more of the   *)
(* log is then on the disk.                                                *)
(***************************************************************************)
EXTENDS Integers, Sequences, SequencesExt

CONSTANTS Threads, rollSize_, flushInterval_, checkEveryN_, kRollPerSeconds_,
          NoOne,
          ShortWrites  \* the numbers of bytes a write that fails half-way takes

ASSUME LogFileAssumption ==
  /\ {rollSize_, flushInterval_} \subseteq Nat
  /\ {checkEveryN_, kRollPerSeconds_} \subseteq Nat \ {0}
  /\ ShortWrites \subseteq Nat \ {0}
  /\ NoOne \notin Threads

VARIABLES
  now,             \* the clock
  files,           \* the files opened so far: the last one is file_
  count_, startOfPeriod_, lastRoll_, lastFlush_,
  mutex_,          \* who holds it
  call,            \* where each thread is in append or flush
  line,            \* the line each thread appends
  remain           \* the bytes of it that are still to be written

file == Last(files)

(* What is in a file: the parts of lines, each with the place in its line  *)
(* and in the file where it begins and the time at which it was written.   *)
(* The name of a file is the second in which it was opened.                *)
NewFile(second) == [name |-> second, text |-> <<>>, writtenBytes |-> 0, onDisk |-> 0]
Flushed(f) == [f EXCEPT !.onDisk = Len(f.text)]

Size(text) == IF text = <<>> THEN 0 ELSE Last(text).pos + Last(text).bytes

WithFile(f) == [files EXCEPT ![Len(files)] = f]

StartOfPeriod(time) == (time \div kRollPerSeconds_) * kRollPerSeconds_

(* The constructor rolls to the first file. *)
LogFileInit(time) ==
  /\ now = time
  /\ files = <<NewFile(time)>>
  /\ count_ = 0 /\ startOfPeriod_ = StartOfPeriod(time)
  /\ lastRoll_ = time /\ lastFlush_ = time
  /\ mutex_ = NoOne
  /\ call = [t \in Threads |-> "none"]
  /\ line = [t \in Threads |-> NoOne]
  /\ remain = [t \in Threads |-> 0]

-----------------------------------------------------------------------------
(* Mutant of Lock: the lock is not waited for. *)
LockNothing(t, step) ==
  /\ mutex_' = t /\ call' = [call EXCEPT ![t] = step]

Lock(t, step) ==
  /\ mutex_ = NoOne
  /\ mutex_' = t /\ call' = [call EXCEPT ![t] = step]

Unlock(t) ==
  /\ mutex_' = NoOne /\ call' = [call EXCEPT ![t] = "none"]

(* LogFile::append takes the lock and AppendFile::append writes: fwrite    *)
(* takes all that remains, or a part if it fails, and the loop tries again.*)
(* A write that takes nothing changes nothing: as long as the disk is full *)
(* the loop goes on.                                                       *)
AppendWrite(t) ==
  /\ \/ call[t] = "append" /\ Lock(t, "write")
     \/ call[t] = "write" /\ remain[t] > 0 /\ UNCHANGED <<mutex_, call>>
  /\ \E n \in {remain[t]} \cup {m \in ShortWrites : m < remain[t]} :
       /\ files' = WithFile([file EXCEPT !.text =
                Append(@, [line |-> line[t], from |-> line[t].len - remain[t], bytes |-> n,
                           pos |-> Size(@), at |-> now])])
       /\ remain' = [remain EXCEPT ![t] = @ - n]
  /\ UNCHANGED <<now, count_, startOfPeriod_, lastRoll_, lastFlush_, line>>

-----------------------------------------------------------------------------
AllWritten(t) == call[t] = "write" /\ remain[t] = 0

(* writtenBytes_ is brought up to date when the whole line is written.     *)
Written(t) == [file EXCEPT !.writtenBytes = @ + line[t].len]

(* The file has grown beyond its size: it is to be rolled, and the line is *)
(* not counted.                                                            *)
AppendOversize(t) ==
  /\ AllWritten(t) /\ Written(t).writtenBytes > rollSize_
  /\ files' = WithFile(Written(t))
  /\ call' = [call EXCEPT ![t] = "roll"]
  /\ UNCHANGED <<now, count_, startOfPeriod_, lastRoll_, lastFlush_, mutex_, line, remain>>

(* One more line, and no check yet. *)
AppendCount(t) ==
  /\ AllWritten(t) /\ Written(t).writtenBytes <= rollSize_
  /\ count_ + 1 < checkEveryN_
  /\ count_' = count_ + 1
  /\ files' = WithFile(Written(t))
  /\ Unlock(t)
  /\ UNCHANGED <<now, startOfPeriod_, lastRoll_, lastFlush_, line, remain>>

(* Mutant of NewDay: midnight itself counts as the day before. *)
NewDayLate == now - startOfPeriod_ > kRollPerSeconds_

NewDay == StartOfPeriod(now) # startOfPeriod_

(* Mutant of FlushDue: the flush is put off until the next roll. *)
FlushDueNever == lastFlush_ < lastRoll_

FlushDue == now - lastFlush_ > flushInterval_

(* The checkEveryN_-th line counted: the time is looked at. *)
AppendCheck(t) ==
  /\ AllWritten(t) /\ Written(t).writtenBytes <= rollSize_
  /\ count_ + 1 >= checkEveryN_
  /\ count_' = 0
  /\ \/ /\ NewDay
        /\ files' = WithFile(Written(t))
        /\ call' = [call EXCEPT ![t] = "roll"]
        /\ UNCHANGED <<lastFlush_, mutex_>>
     \/ /\ ~NewDay /\ FlushDue
        /\ files' = WithFile(Flushed(Written(t)))
        /\ lastFlush_' = now
        /\ Unlock(t)
     \/ /\ ~NewDay /\ ~FlushDue
        /\ files' = WithFile(Written(t))
        /\ Unlock(t)
        /\ UNCHANGED lastFlush_
  /\ UNCHANGED <<now, startOfPeriod_, lastRoll_, line, remain>>

(* Mutant of Rolled: the file rolled away from is not closed. *)
RolledUnclosed == Append(files, NewFile(now))

(* The next file is opened and then the current one closed, which writes   *)
(* out what it still holds.                                                *)
Rolled == Append(WithFile(Flushed(file)), NewFile(now))

(* LogFile::rollFile, not more than once a second: two files opened in the *)
(* same second would have the same name.                                   *)
RollFile(t) ==
  /\ call[t] = "roll"
  /\ \/ /\ now > lastRoll_
        /\ lastRoll_' = now /\ lastFlush_' = now
        /\ startOfPeriod_' = StartOfPeriod(now)
        /\ files' = Rolled
     \/ /\ now <= lastRoll_
        /\ UNCHANGED <<lastRoll_, lastFlush_, startOfPeriod_, files>>
  /\ Unlock(t)
  /\ UNCHANGED <<now, count_, line, remain>>

(* LogFile::flush, which does not count as a flush of append's. *)
Flush(t) ==
  /\ call[t] = "flush" /\ mutex_ = NoOne
  /\ files' = WithFile(Flushed(file))
  /\ call' = [call EXCEPT ![t] = "none"]
  /\ UNCHANGED <<now, count_, startOfPeriod_, lastRoll_, lastFlush_, mutex_, line, remain>>

LogFileStep(t) ==
  \/ AppendWrite(t)
  \/ AppendOversize(t) \/ AppendCount(t) \/ AppendCheck(t)
  \/ RollFile(t) \/ Flush(t)

Advance ==
  /\ now' = now + 1
  /\ UNCHANGED <<files, count_, startOfPeriod_, lastRoll_, lastFlush_,
                 mutex_, call, line, remain>>
=============================================================================
