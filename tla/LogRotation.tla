------------------------------ MODULE LogRotation ------------------------------
(***************************************************************************)
(* RotatingFile of src/log.rs: lines are appended through an open file; a  *)
(* line that would exceed max_size first rolls the file to <name>.1, the   *)
(* backups one up, and drops the oldest.  File 0 is <name>, file n is      *)
(* <name>.n.  A rename keeps the open file open under its new name.  A     *)
(* step of rotate may fail, which rotate reports and write_line only logs, *)
(* and the process may crash between two steps and open the log again.     *)
(***************************************************************************)
EXTENDS Integers, Sequences, SequencesExt

CONSTANTS
    MaxSize,        \* Rotation::max_size
    MaxBackups,     \* Rotation::max_backups
    LineSizes,      \* bytes of a line with its newline
    MaxLines,       \* bound on the lines
    MaxFaults       \* bound on the faults

VARIABLES
    files,      \* the lines of every file that exists
    handle,     \* which of them RotatingFile::file is, or Unlinked
    size,       \* RotatingFile::size
    line,       \* the line being written
    pc,         \* where write_line and rotate are
    n,          \* the backup rotate shifts next
    written,    \* history: the lines of which write_line returned
    faults      \* history: the faults that happened

vars == <<files, handle, size, line, pc, n, written, faults>>

Unlinked == -1
NoLine == [id |-> 0, bytes |-> 0]

Exists(k) == k \in DOMAIN files
Bytes(lines) == FoldLeft(LAMBDA sum, l : sum + l.bytes, 0, lines)

--------------------------------------------------------------------------------
\* RotatingFile::open
Opened == IF Exists(0) THEN files ELSE [k \in DOMAIN files \cup {0} |-> IF k = 0 THEN <<>> ELSE files[k]]

Init == /\ files = [k \in {0} |-> <<>>]
        /\ handle = 0 /\ size = 0 /\ line = NoLine /\ pc = "idle" /\ n = 0
        /\ written = <<>> /\ faults = <<>>

MustRotate(bytes) == MaxSize > 0 /\ size > 0 /\ size + bytes > MaxSize

WriteLine(bytes) ==
    /\ pc = "idle" /\ Len(written) < MaxLines
    /\ line' = [id |-> Len(written) + 1, bytes |-> bytes]
    /\ pc' = IF MustRotate(bytes) THEN "remove" ELSE "append"
    /\ UNCHANGED <<files, handle, size, n, written, faults>>

\* writeln!(self.file, ...) goes to the open file, whatever its name is now.
AppendLine ==
    /\ pc = "append"
    /\ files' = IF handle = Unlinked THEN files ELSE [files EXCEPT ![handle] = Append(@, line)]
    /\ size' = size + line.bytes
    /\ written' = Append(written, line)
    /\ pc' = "idle" /\ line' = NoLine
    /\ UNCHANGED <<handle, n, faults>>

--------------------------------------------------------------------------------
(***************************************************************************)
(* rotate                                                                  *)
(***************************************************************************)
Without(k) == [m \in DOMAIN files \ {k} |-> files[m]]

\* What remove_file and rename do to the names and to the open file.
RemoveFile(k) == /\ files' = Without(k)
                 /\ handle' = IF handle = k THEN Unlinked ELSE handle

Rename(from, to) ==
    /\ files' = [m \in (DOMAIN files \ {from}) \cup {to} |-> IF m = to THEN files[from] ELSE files[m]]
    /\ handle' = CASE handle = from -> to
                   [] handle = to -> Unlinked
                   [] OTHER -> handle

\* Where the loop starts: 0 when there is nothing to shift.
FirstShift == IF MaxBackups > 1 THEN MaxBackups - 1 ELSE 0

\* let _ = remove_file(backup(max_backups)); <name>.0 is never there.
RemoveOldest ==
    /\ pc = "remove"
    /\ IF MaxBackups > 0 THEN RemoveFile(MaxBackups) ELSE UNCHANGED <<files, handle>>
    /\ pc' = IF FirstShift = 0 THEN "roll" ELSE "shift"
    /\ n' = FirstShift
    /\ UNCHANGED <<size, line, written, faults>>

ShiftFile(k) ==
    /\ pc = "shift"
    /\ IF Exists(k) THEN Rename(k, k + 1) ELSE UNCHANGED <<files, handle>>
    /\ n' = n - 1
    /\ pc' = IF n = 1 THEN "roll" ELSE "shift"
    /\ UNCHANGED <<size, line, written, faults>>

\* Mutant: the shift starts at the newest backup.
ShiftFromNewest == ShiftFile(MaxBackups - n)

Shift == ShiftFile(n)

\* The current file becomes <name>.1, or is removed; without one this fails.
Roll ==
    /\ pc = "roll"
    /\ IF Exists(0)
       THEN /\ IF MaxBackups > 0 THEN Rename(0, 1) ELSE RemoveFile(0)
            /\ pc' = "reopen"
       ELSE pc' = "append" /\ UNCHANGED <<files, handle>>
    /\ UNCHANGED <<size, line, n, written, faults>>

Reopen ==
    /\ pc = "reopen"
    /\ files' = Opened /\ handle' = 0 /\ size' = 0
    /\ pc' = "append"
    /\ UNCHANGED <<line, n, written, faults>>

--------------------------------------------------------------------------------
Fault(kind) == Len(faults) < MaxFaults /\ faults' = Append(faults, kind)

\* rotate returns the error; write_line logs it and writes the line.
Fails ==
    /\ \/ pc \in {"shift", "roll"} /\ Fault("rename")
       \/ pc = "reopen" /\ Fault("open")
    /\ pc' = "append"
    /\ UNCHANGED <<files, handle, size, line, n, written>>

\* The process crashes and opens the log again; the line is lost with it.
Crash ==
    /\ pc # "idle" /\ Fault("crash")
    /\ files' = Opened /\ handle' = 0 /\ size' = Bytes(Opened[0])
    /\ pc' = "idle" /\ line' = NoLine
    /\ UNCHANGED <<n, written>>

Next == \/ \E bytes \in LineSizes : WriteLine(bytes)
        \/ AppendLine \/ RemoveOldest \/ Shift \/ Roll \/ Reopen
        \/ Fails \/ Crash

Spec == Init /\ [][Next]_vars

--------------------------------------------------------------------------------
\* The lines of the files, the oldest backup first.
Kept == FlattenSeq([i \in 1 .. MaxBackups + 1 |->
                        IF Exists(MaxBackups + 1 - i) THEN files[MaxBackups + 1 - i] ELSE <<>>])

\* The files hold the most recent lines, in order and without a gap, at every
\* moment of a rotation and after a crash at any of them; with backups, there
\* is always one of them at least.  (A failed open is another matter: lines
\* then go to a rolled file that the next rotation removes first.)
RecentKept ==
    "open" \notin Range(faults) =>
        /\ IsSuffix(Kept, written)
        /\ MaxBackups > 0 /\ written # <<>> => Kept # <<>>

\* Whatever fails, no line is twice in the files, and none before an older one.
InOrder == \A i, j \in DOMAIN Kept : i < j => Kept[i].id < Kept[j].id

\* Nothing is dropped before max_backups rolled files are full: at rest, either
\* every line is still there or all backups are, and a line that was written
\* is in the current file.
DropsOnlyBeyond ==
    pc = "idle" /\ faults = <<>> =>
        /\ Kept # written => \A k \in 1 .. MaxBackups : Exists(k) /\ files[k] # <<>>
        /\ written # <<>> => Exists(0) /\ files[0] # <<>> /\ Last(files[0]) = Last(written)

\* No file outgrows max_size, but for one whose only line does.
SizeBound ==
    MaxSize > 0 /\ faults = <<>> => \A k \in DOMAIN files : Bytes(files[k]) <= MaxSize \/ Len(files[k]) = 1
================================================================================
