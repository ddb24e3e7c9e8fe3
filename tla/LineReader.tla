----------------------------- MODULE LineReader -----------------------------
(***************************************************************************)
(* io::LineReader over detail::AsynchronousReader                          *)
(* (include/utils/config/csv.h), which StreamConfig reads its file with.   *)
(* The thread that calls next_line() works in the first two blocks of a    *)
(* buffer while a worker thread fills the third one ahead of it; a mutex   *)
(* and two condition variables hand the third block over.                  *)
(*                                                                         *)
(* The worker holds the mutex from the test of its condition to the end of *)
(* the read, so the other thread's critical sections wait while it is      *)
(* "reading"; they are short and are one step each.                        *)
(***************************************************************************)
EXTENDS Integers, Sequences, FiniteSets, SequencesExt, FiniteSetsExt

CONSTANTS block_len,    \* size of a block
          BOM,          \* bytes of the byte order mark
          Files,        \* contents of the file: sequences of bytes
          MayThrow      \* whether the byte source may throw

BlockLayout ==
  /\ block_len \in Nat
  /\ BOM \in Seq(STRING) /\ Len(BOM) < block_len
  /\ Files \subseteq Seq(STRING)

ASSUME BlockAssumption == BlockLayout

VARIABLES file,          \* the bytes the source has
          offset,        \* how many of them it has delivered
          buffer, data_begin, data_end, file_line,    \* LineReader
          pc,            \* where the thread that reads lines is
          worker,        \* where the worker is: absent, ready, waiting, reading, ended
          termination_requested, read_error,
          desired_byte_count, read_byte_count,        \* AsynchronousReader
          lines,         \* history: the lines next_line() returned
          outcome        \* how reading ended: open, eof, too_long, failed

lineVars == <<data_begin, data_end, file_line, lines, outcome>>
readerVars == <<worker, termination_requested, read_error, desired_byte_count, read_byte_count>>
csvVars == <<file, offset, buffer, lineVars, pc, readerVars>>

Least(a, b) == IF a < b THEN a ELSE b

\* The buffer with n bytes of the file after offset put at index at.
ReadInto(at, n) ==
  [i \in DOMAIN buffer |-> IF i \in at .. at + n - 1 THEN file[offset + i - at + 1] ELSE buffer[i]]

\* memcpy of one block to the one before it.
BlockMoved(to) ==
  [i \in DOMAIN buffer |-> IF i \in to .. to + block_len - 1 THEN buffer[i + block_len] ELSE buffer[i]]

\* Only a file of two blocks and more gets a worker.
is_valid == worker # "absent"

-----------------------------------------------------------------------------
(***************************************************************************)
(* The constructor: the first two blocks are read, a byte order mark is    *)
(* skipped and, if the blocks are full, the worker is started.             *)
(***************************************************************************)
CSVInit ==
  /\ file \in Files
  /\ offset = Least(Len(file), 2 * block_len)
  /\ buffer = [i \in 0 .. 3 * block_len - 1 |-> IF i < offset THEN file[i + 1] ELSE "?"]
  /\ data_begin = IF IsPrefix(BOM, file) THEN Len(BOM) ELSE 0
  /\ data_end = offset
  /\ file_line = 0
  /\ pc = IF data_end = 2 * block_len THEN "start_read" ELSE "idle"
  /\ worker = IF data_end = 2 * block_len THEN "ready" ELSE "absent"
  /\ termination_requested = FALSE
  /\ read_error = FALSE
  /\ desired_byte_count = -1
  /\ read_byte_count = -1
  /\ lines = << >>
  /\ outcome = "open"

-----------------------------------------------------------------------------
(***************************************************************************)
(* next_line().                                                            *)
(***************************************************************************)
EndOfFile ==
  /\ pc = "idle" /\ outcome = "open"
  /\ data_begin = data_end
  /\ outcome' = "eof"
  /\ UNCHANGED <<file, offset, buffer, data_begin, data_end, file_line, lines, pc, readerVars>>

\* The line starts in the first block ...
NextLine ==
  /\ pc = "idle" /\ outcome = "open"
  /\ data_begin # data_end
  /\ data_begin < block_len
  /\ file_line' = file_line + 1
  /\ pc' = "line"
  /\ UNCHANGED <<file, offset, buffer, data_begin, data_end, lines, outcome, readerVars>>

\* ... or in the second, which is then moved to the first.
ShiftBlock ==
  /\ pc = "idle" /\ outcome = "open"
  /\ data_begin # data_end
  /\ data_begin >= block_len
  /\ file_line' = file_line + 1
  /\ buffer' = BlockMoved(0)
  /\ data_begin' = data_begin - block_len
  /\ data_end' = data_end - block_len
  /\ pc' = IF is_valid THEN "finish_read" ELSE "line"
  /\ UNCHANGED <<file, offset, lines, outcome, readerVars>>

\* finish_read() waits for the worker ...
WaitForRead ==
  /\ pc = "finish_read"
  /\ worker # "reading"
  /\ read_byte_count = -1 /\ ~ read_error
  /\ pc' = "waiting"
  /\ UNCHANGED <<file, offset, buffer, lineVars, readerVars>>

\* ... rethrows what its source threw ...
RethrowError ==
  /\ pc = "finish_read"
  /\ worker # "reading"
  /\ read_error
  /\ outcome' = "failed"
  /\ pc' = "idle"
  /\ UNCHANGED <<file, offset, buffer, data_begin, data_end, file_line, lines, readerVars>>

\* Mutant of FinishRead: the next read is requested before the block is copied.
FinishReadRestarts ==
  /\ pc = "finish_read"
  /\ worker # "reading"
  /\ read_byte_count # -1 /\ ~ read_error
  /\ data_end' = data_end + read_byte_count
  /\ desired_byte_count' = block_len
  /\ pc' = "copy"
  /\ UNCHANGED <<file, offset, buffer, data_begin, file_line, lines, outcome, worker,
                 termination_requested, read_error, read_byte_count>>

\* ... or returns its count.
FinishRead ==
  /\ pc = "finish_read"
  /\ worker # "reading"
  /\ read_byte_count # -1 /\ ~ read_error
  /\ data_end' = data_end + read_byte_count
  /\ pc' = "copy"
  /\ UNCHANGED <<file, offset, buffer, data_begin, file_line, lines, outcome, readerVars>>

\* Mutant of CopyBlock: the block is not taken over.
CopyBlockForgotten ==
  /\ pc = "copy"
  /\ pc' = "start_read"
  /\ UNCHANGED <<file, offset, buffer, lineVars, readerVars>>

\* The third block is taken over.
CopyBlock ==
  /\ pc = "copy"
  /\ buffer' = BlockMoved(block_len)
  /\ pc' = "start_read"
  /\ UNCHANGED <<file, offset, lineVars, readerVars>>

\* Mutant of StartRead: the worker is not notified.
StartReadSilently ==
  /\ pc = "start_read"
  /\ worker # "reading"
  /\ desired_byte_count' = block_len
  /\ read_byte_count' = -1
  /\ pc' = IF file_line = 0 THEN "idle" ELSE "line"
  /\ UNCHANGED <<file, offset, buffer, lineVars, worker, termination_requested, read_error>>

\* start_read(), by the constructor and after every block.
StartRead ==
  /\ pc = "start_read"
  /\ worker # "reading"
  /\ desired_byte_count' = block_len
  /\ read_byte_count' = -1
  /\ worker' = IF worker = "waiting" THEN "ready" ELSE worker
  /\ pc' = IF file_line = 0 THEN "idle" ELSE "line"
  /\ UNCHANGED <<file, offset, buffer, lineVars, termination_requested, read_error>>

\* Where the line ends: at a newline or at the end of the data.
line_end == Min({i \in data_begin .. data_end : i = data_end \/ buffer[i] = "n"})

LineTooLong ==
  /\ pc = "line"
  /\ line_end - data_begin + 1 > block_len
  /\ outcome' = "too_long"
  /\ pc' = "idle"
  /\ UNCHANGED <<file, offset, buffer, data_begin, data_end, file_line, lines, readerVars>>

\* Where the string of the line ends: before a carriage return.
StringEnd ==
  IF line_end # data_begin /\ buffer[line_end - 1] = "r" THEN line_end - 1 ELSE line_end

TakeLine ==
  /\ pc = "line"
  /\ line_end - data_begin + 1 <= block_len
  /\ lines' = Append(lines, [i \in 1 .. StringEnd - data_begin |-> buffer[data_begin + i - 1]])
  /\ buffer' = [i \in DOMAIN buffer |-> IF i \in {line_end, StringEnd} THEN "0" ELSE buffer[i]]
  /\ data_end' = IF line_end = data_end THEN data_end + 1 ELSE data_end
  /\ data_begin' = line_end + 1
  /\ pc' = "idle"
  /\ UNCHANGED <<file, offset, file_line, outcome, readerVars>>

-----------------------------------------------------------------------------
(***************************************************************************)
(* The destructor, after the last line or before it.                       *)
(***************************************************************************)
RequestTermination ==
  /\ pc = "idle"
  /\ worker # "reading"
  /\ termination_requested' = is_valid
  /\ pc' = IF is_valid THEN "notify" ELSE "destroyed"
  /\ UNCHANGED <<file, offset, buffer, lineVars, worker, read_error, desired_byte_count, read_byte_count>>

\* The notification comes after the mutex is released.
NotifyTermination ==
  /\ pc = "notify"
  /\ worker' = IF worker = "waiting" THEN "ready" ELSE worker
  /\ pc' = "join"
  /\ UNCHANGED <<file, offset, buffer, lineVars, termination_requested, read_error,
                 desired_byte_count, read_byte_count>>

Join ==
  /\ pc = "join"
  /\ worker = "ended"
  /\ pc' = "destroyed"
  /\ UNCHANGED <<file, offset, buffer, lineVars, readerVars>>

Destroyed == pc = "destroyed" /\ UNCHANGED csvVars

-----------------------------------------------------------------------------
(***************************************************************************)
(* The worker.                                                             *)
(***************************************************************************)
\* The condition of wait(), at first and after every wake-up.
WorkerChecks ==
  /\ worker = "ready"
  /\ worker' = IF termination_requested THEN "ended"
               ELSE IF desired_byte_count # -1 THEN "reading" ELSE "waiting"
  /\ UNCHANGED <<file, offset, buffer, lineVars, pc, termination_requested, read_error,
                 desired_byte_count, read_byte_count>>

\* read_finished_condition.notify_one().
NotifyFinished == pc' = IF pc = "waiting" THEN "finish_read" ELSE pc

\* byte_source->read(): as much as was asked for, or what is left.  With nothing
\* left the worker ends.
WorkerReads ==
  LET n == Least(desired_byte_count, Len(file) - offset)
  IN  /\ worker = "reading"
      /\ buffer' = ReadInto(2 * block_len, n)
      /\ offset' = offset + n
      /\ read_byte_count' = n
      /\ desired_byte_count' = -1
      /\ worker' = IF n = 0 THEN "ended" ELSE "ready"
      /\ NotifyFinished
      /\ UNCHANGED <<file, lineVars, termination_requested, read_error>>

WorkerThrows ==
  /\ MayThrow
  /\ worker = "reading"
  /\ read_error' = TRUE
  /\ worker' = "ended"
  /\ NotifyFinished
  /\ UNCHANGED <<file, offset, buffer, lineVars, termination_requested,
                 desired_byte_count, read_byte_count>>

\* A thread that waits on a condition may wake up without a notification.
SpuriousWakeUp ==
  /\ \/ worker = "waiting" /\ worker' = "ready" /\ UNCHANGED pc
     \/ pc = "waiting" /\ pc' = "finish_read" /\ UNCHANGED worker
  /\ UNCHANGED <<file, offset, buffer, lineVars, termination_requested, read_error,
                 desired_byte_count, read_byte_count>>

-----------------------------------------------------------------------------
Reader ==
  \/ EndOfFile \/ NextLine \/ ShiftBlock
  \/ WaitForRead \/ RethrowError \/ FinishRead \/ CopyBlock \/ StartRead
  \/ LineTooLong \/ TakeLine
  \/ RequestTermination \/ NotifyTermination \/ Join

Worker == WorkerChecks \/ WorkerReads \/ WorkerThrows

CSVNext == Reader \/ Worker \/ SpuriousWakeUp \/ Destroyed

\* Both threads are scheduled and reads return.  No wake-up is owed that was
\* not notified.
CSVSpec == CSVInit /\ [][CSVNext]_csvVars /\ WF_csvVars(Reader) /\ WF_csvVars(Worker)

-----------------------------------------------------------------------------
(***************************************************************************)
(* Properties.                                                             *)
(***************************************************************************)
\* Where the line ends that starts at byte p of a text: at a newline or behind
\* the last byte.
LineEnd(text, p) == Min({q \in p .. Len(text) + 1 : q = Len(text) + 1 \/ text[q] = "n"})

\* The lines of a text from each of its bytes on; what follows the last newline
\* is a line unless it is empty.
LinesFrom(text) ==
  LET from[p \in 1 .. Len(text) + 2] ==
        IF p > Len(text)
          THEN << >>
          ELSE <<SubSeq(text, p, LineEnd(text, p) - 1)>> \o from[LineEnd(text, p) + 1]
  IN  from

\* The content of the file, without the byte order mark, cut at its newlines.
Segments == LinesFrom(file)[IF IsPrefix(BOM, file) THEN Len(BOM) + 1 ELSE 1]

\* A line without its carriage return.
Chomped(s) == IF s # << >> /\ Last(s) = "r" THEN Front(s) ELSE s

\* next_line() returns the lines of the file, whole and in order, wherever the
\* borders of the blocks fall and however far ahead the worker is; reading ends
\* after the last of them, or with the number of a line that does not fit a
\* block.
LinesExact ==
  LET expected == [k \in 1 .. Len(Segments) |-> Chomped(Segments[k])]
  IN  /\ IsPrefix(lines, expected)
      /\ outcome = "eof" => lines = expected
      /\ outcome = "too_long" => Len(Segments[file_line]) >= block_len

\* The third block belongs to one thread at a time: while a read is requested or
\* under way the reading thread neither copies the block nor has a line in it.
BlockExclusive ==
  desired_byte_count # -1 => pc # "copy" /\ data_end <= 2 * block_len

\* finish_read() and the destructor do not wait for ever: whatever the file and
\* whenever the reader is given up, its two threads come to their end.
ReaderEnds == <>(pc = "destroyed")
=============================================================================
