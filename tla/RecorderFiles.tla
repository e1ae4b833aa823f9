--------------------------- MODULE RecorderFiles ---------------------------
(***************************************************************************)
(* The files of the raw-state recorder: <role>_state.jsonl and its three   *)
(* rotations.  One writer runs Recorder::Write, Open and Rotate one system *)
(* call at a time; every call may fail, a write may leave part of a line,  *)
(* the process may be killed between any two calls and a new session may   *)
(* start on what it left.                                                  *)
(*                                                                         *)
(* A row is the number of the Write call that produced it, so numbers grow *)
(* across sessions; every line has size one.  A file that does not exist   *)
(* is Absent.                                                              *)
(***************************************************************************)
EXTENDS Integers, Sequences, Functions

CONSTANTS
  FileRows,    \* file_bytes: lines that fit into one file
  MaxRows,     \* bound: Write calls
  MaxFaults,   \* bound: failed calls and kills
  Absent

ASSUME FilesAssumption ==
  /\ FileRows \in Nat \ {0}
  /\ MaxRows \in Nat /\ MaxFaults \in Nat
  /\ Absent \notin Seq([row : Nat, whole : BOOLEAN])

VARIABLES
  file,       \* file[0] is the current file, file[1..3] its rotations
  pc,         \* the next system call of the writer
  fd,         \* fd_ >= 0
  row,        \* rows submitted to Write so far; the one being written
  fileSize,   \* file_size_
  faults      \* bound

filesVars == <<file, pc, fd, row, fileSize, faults>>

Suffix == 0 .. 3
Whole(n)   == [row |-> n, whole |-> TRUE]
Partial(n) == [row |-> n, whole |-> FALSE]
Exists(i)  == file[i] # Absent
Lines(i)   == IF Exists(i) THEN file[i] ELSE <<>>

\* A new log directory.
FilesInit ==
  /\ file = [i \in Suffix |-> Absent]
  /\ pc = "idle" /\ fd = FALSE /\ row = 0 /\ fileSize = 0 /\ faults = 0

Fault == faults < MaxFaults /\ faults' = faults + 1

\* WriteError closes the descriptor; the row is given up.
Fail == Fault /\ pc' = "idle" /\ fd' = FALSE

\* Recorder::Write is called with the next record.
BeginWrite ==
  /\ pc = "idle" /\ row < MaxRows
  /\ row' = row + 1
  /\ \/ pc' = (IF fd THEN "fit" ELSE "open") /\ UNCHANGED <<fd, faults>>
     \/ Fail    \* the line alone exceeds file_bytes
  /\ UNCHANGED <<file, fileSize>>

\* Mutant of Open: a file that is not empty is appended to.
OpenWithoutRotation ==
  /\ pc = "open"
  /\ file' = [file EXCEPT ![0] = Lines(0)]
  /\ fileSize' = Len(Lines(0))
  /\ fd' = TRUE /\ pc' = "fit"
  /\ UNCHANGED <<row, faults>>

\* Open: create or open for append; a file that is not empty is rotated away,
\* since a killed process may have left its last row partial.
Open ==
  /\ pc = "open"
  /\ \/ LET old == Lines(0) IN
        /\ file' = [file EXCEPT ![0] = old]
        /\ fileSize' = Len(old)
        /\ fd' = TRUE
        /\ pc' = IF old # <<>> THEN "unlink" ELSE "fit"
        /\ UNCHANGED faults
     \* open fails, or fstat finds no regular file
     \/ Fail /\ file' \in {file, [file EXCEPT ![0] = Lines(0)]} /\ UNCHANGED fileSize
  /\ UNCHANGED row

\* Mutant of Fit: the new line is not counted.
FitIgnoresLine ==
  /\ pc = "fit"
  /\ pc' = IF fileSize > FileRows THEN "unlink" ELSE "write"
  /\ UNCHANGED <<file, fd, row, fileSize, faults>>

\* if (file_size_ + line.size() > file_bytes && !Rotate())
Fit ==
  /\ pc = "fit"
  /\ pc' = IF fileSize + 1 > FileRows THEN "unlink" ELSE "write"
  /\ UNCHANGED <<file, fd, row, fileSize, faults>>

\* Rotate: close, then unlink .3.
Unlink ==
  /\ pc = "unlink"
  /\ \/ /\ file' = [file EXCEPT ![3] = Absent]
        /\ fd' = FALSE /\ pc' = "rename2"
        /\ UNCHANGED faults
     \/ Fail /\ UNCHANGED file
  /\ UNCHANGED <<row, fileSize>>

\* for (int i = 2; i >= 0; --i), read backwards.
RenameLoop == <<"reopen", "rename0", "rename1", "rename2">>

\* Mutant of Rename: a failed rename does not stop the loop.
RenameGoesOn(i) ==
  /\ pc = RenameLoop[i + 2]
  /\ \/ /\ file' = IF Exists(i)
                     THEN [file EXCEPT ![i + 1] = file[i], ![i] = Absent]
                     ELSE file
        /\ UNCHANGED faults
     \/ Fault /\ UNCHANGED file
  /\ pc' = RenameLoop[i + 1]
  /\ UNCHANGED <<row, fileSize, fd>>

\* One rename of the loop i = 2, 1, 0; a missing source is no error.
Rename(i) ==
  /\ pc = RenameLoop[i + 2]
  /\ \/ /\ file' = IF Exists(i)
                     THEN [file EXCEPT ![i + 1] = file[i], ![i] = Absent]
                     ELSE file
        /\ pc' = RenameLoop[i + 1]
        /\ UNCHANGED <<fd, faults>>
     \/ Fail /\ UNCHANGED file
  /\ UNCHANGED <<row, fileSize>>

\* Rotate ends: open the new current file.
Reopen ==
  /\ pc = "reopen"
  /\ fileSize' = 0
  /\ \/ /\ file' = [file EXCEPT ![0] = Lines(0)]
        /\ fd' = TRUE /\ pc' = "write"
        /\ UNCHANGED faults
     \/ Fail /\ file' \in {file, [file EXCEPT ![0] = Lines(0)]}
  /\ UNCHANGED row

\* Mutant of WriteLine: a short write is repeated from the start of the line.
WriteLineRestarts ==
  /\ pc = "write"
  /\ \/ /\ file' = [file EXCEPT ![0] = Append(@, Whole(row))]
        /\ fileSize' = fileSize + 1
        /\ pc' = "idle"
        /\ UNCHANGED faults
     \/ /\ Fault
        /\ file' = [file EXCEPT ![0] = Append(@, Partial(row))]
        /\ UNCHANGED <<fileSize, pc>>
  /\ UNCHANGED <<row, fd>>

\* The write loop puts the whole line into the file, or fails before the
\* first byte or after some.
WriteLine ==
  /\ pc = "write"
  /\ \/ /\ file' = [file EXCEPT ![0] = Append(@, Whole(row))]
        /\ fileSize' = fileSize + 1
        /\ pc' = "idle"
        /\ UNCHANGED <<fd, faults>>
     \/ Fail /\ UNCHANGED <<file, fileSize>>
     \/ /\ Fail
        /\ file' = [file EXCEPT ![0] = Append(@, Partial(row))]
        /\ UNCHANGED fileSize
  /\ UNCHANGED row

\* The process is killed between two system calls, or inside the write loop,
\* and a new process starts with no descriptor.
KillAndRestart ==
  /\ Fault
  /\ \/ UNCHANGED file
     \/ pc = "write" /\ file' = [file EXCEPT ![0] = Append(@, Partial(row))]
  /\ pc' = "idle" /\ fd' = FALSE /\ fileSize' = 0
  /\ UNCHANGED row

FilesNext ==
  \/ BeginWrite \/ Open \/ Fit \/ Unlink
  \/ \E i \in 0 .. 2 : Rename(i)
  \/ Reopen \/ WriteLine \/ KillAndRestart

FilesSpec == FilesInit /\ [][FilesNext]_filesVars

----------------------------------------------------------------------------
(* Properties. *)

\* Line a of file i is read before line b of file j.
ReadBefore(i, a, j, b) == i > j \/ (i = j /\ a < b)

\* Read from .3 to the current file, the rows are in the order they were
\* accepted, even after failed renames, kills and new sessions.
RowsInOrder ==
  \A i, j \in Suffix : \A a \in 1 .. Len(Lines(i)), b \in 1 .. Len(Lines(j)) :
    ReadBefore(i, a, j, b) => Lines(i)[a].row < Lines(j)[b].row

\* No row is ever appended to an incomplete line: a partial line is the last
\* of its file.
PartialIsLast ==
  \A i \in Suffix : \A k \in 1 .. Len(Lines(i)) : ~Lines(i)[k].whole => k = Len(Lines(i))

\* Every file respects its size limit.
FilesBounded == \A i \in Suffix : Len(Lines(i)) <= FileRows

\* A rename never replaces an existing file and only the unlink of .3 removes
\* rows: an interrupted rotation, retried by the next Open, destroys nothing
\* but the oldest file.
Kept(f) == UNION {Range(f[i]) : i \in {j \in Suffix : f[j] # Absent}}
OnlyOldestRemoved ==
  [][\/ Kept(file) \subseteq Kept(file')
     \/ pc = "unlink" /\ Kept(file) \ Kept(file') = Range(Lines(3))]_filesVars
============================================================================
