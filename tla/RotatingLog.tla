---------------------------- MODULE RotatingLog ----------------------------
(***************************************************************************)
(* The rotating log file of file-share (logging.go): a line goes to stdout *)
(* and then to rotatingFile.Write, which shifts path -> path.1 -> path.2   *)
(* ... before a line that no longer fits.                                   *)
(*                                                                         *)
(* Every system call of a rotation is a step, so that a crash may come in  *)
(* between, and each may fail.  slog's handler and r.mu serialise the      *)
(* goroutines that log, so one line at a time is on its way.               *)
(*                                                                         *)
(* A line is its number, how many bytes of it were written, and whether    *)
(* these are all; a file is the lines in it and its length.                *)
(***************************************************************************)
EXTENDS Integers, Sequences, SequencesExt

CONSTANTS
    maxBytes,   \* LOG_MAX_MB
    maxFiles,   \* LOG_MAX_FILES
    Sizes,      \* lengths of the lines
    MaxLines,   \* bound on the number of lines
    MayFail     \* the calls that may fail in this instance

Calls == {"stdout", "start", "close", "remove", "shift", "move", "open", "write"}

ASSUME RotatingLogAssumption ==
    /\ maxBytes \in Nat \ {0}         \* envInt takes no other value
    /\ maxFiles \in Nat \ {0}
    /\ Sizes \subseteq Nat \ {0}
    /\ MaxLines \in Nat
    /\ MayFail \subseteq Calls

VARIABLES
    file,    \* file[0] is path, file[i] is path.i; no file is an empty one
    handle,  \* r.f: "open", "closed", or "off" for stdout only
    size,    \* r.size
    pc,      \* where Write and rotate are
    i,       \* the loop variable of rotate
    line,    \* the argument of Write
    logged,  \* the number of lines logged
    stored   \* observation: the lines written to the file, in whole or in part

vars == <<file, handle, size, pc, i, line, logged, stored>>

NoFile == [lines |-> <<>>, bytes |-> 0]
NoLine == [no |-> 0, len |-> 0, whole |-> TRUE]

Fails(call) == call \in MayFail

-----------------------------------------------------------------------------
(* newRotatingFile, at every start of the process. *)

\* Mutant of Start: the file is appended to and taken for an empty one.
StartAtZero ==
    \/ handle' = "open" /\ size' = 0
    \/ Fails("start") /\ handle' = "off" /\ size' = 0

\* Appends to the file of the last run.  If it cannot be opened, this run
\* logs to stdout only.
Start ==
    \/ handle' = "open" /\ size' = file[0].bytes
    \/ Fails("start") /\ handle' = "off" /\ size' = 0

Init ==
    /\ file = [k \in 0 .. maxFiles |-> NoFile]
    /\ handle \in {"open"} \cup (IF Fails("start") THEN {"off"} ELSE {})
    /\ size = 0
    /\ pc = "idle" /\ i = 0 /\ line = NoLine
    /\ logged = 0 /\ stored = <<>>

\* Mutant of CrashRestart: O_TRUNC in the place of O_APPEND.
RestartTruncates ==
    /\ handle' = "open" /\ size' = 0
    /\ file' = [file EXCEPT ![0] = NoFile]
    /\ pc' = "idle" /\ i' = 0 /\ line' = NoLine
    /\ UNCHANGED <<logged, stored>>

\* A crash, or log.Fatal; the deferred closer does not run.  A line that was
\* on its way is not written.
CrashRestart ==
    /\ Start
    /\ pc' = "idle" /\ i' = 0 /\ line' = NoLine
    /\ UNCHANGED <<file, logged, stored>>

-----------------------------------------------------------------------------
(* Write. *)

Goto(label) == pc' = label /\ UNCHANGED line

\* Write returns; classicLogWriter drops its error.
Return == pc' = "idle" /\ line' = NoLine

NeedsRotation(n) == size > 0 /\ size + n > maxBytes

\* io.MultiWriter writes to stdout first, and stops there if that fails.
Log(n) ==
    /\ pc = "idle"
    /\ logged < MaxLines
    /\ logged' = logged + 1
    /\ \/ /\ handle # "off"
          /\ line' = [no |-> logged + 1, len |-> n, whole |-> TRUE]
          /\ pc' = IF NeedsRotation(n) THEN "close" ELSE "write"
       \/ /\ handle = "off" \/ Fails("stdout")
          /\ UNCHANGED <<pc, line>>
    /\ UNCHANGED <<file, handle, size, i, stored>>

AppendLine(l) ==
    /\ file' = [file EXCEPT ![0] = [lines |-> Append(@.lines, l),
                                    bytes |-> @.bytes + l.len]]
    /\ size' = size + l.len
    /\ stored' = Append(stored, l)

\* r.f.Write on a closed file is an error; on an open one it may stop short.
WriteLine ==
    /\ pc = "write"
    /\ IF handle = "closed" THEN UNCHANGED <<file, size, stored>>
       ELSE \/ AppendLine(line)
            \/ /\ Fails("write")
               /\ \/ UNCHANGED <<file, size, stored>>
                  \/ \E k \in 1 .. line.len - 1 :
                        AppendLine([line EXCEPT !.len = k, !.whole = FALSE])
    /\ Return
    /\ UNCHANGED <<handle, i, logged>>

-----------------------------------------------------------------------------
(* rotate. *)

\* Closing twice is an error.  Otherwise the descriptor is gone, even if
\* Close returns an error, and rotate with it.
CloseFile ==
    /\ pc = "close"
    /\ handle' = "closed"
    /\ \/ handle = "open" /\ Goto("remove")
       \/ (handle = "closed" \/ Fails("close")) /\ Return
    /\ UNCHANGED <<file, size, i, logged, stored>>

\* Mutant of RemoveOldest: path.1 is removed.
RemoveNewest ==
    /\ pc = "remove"
    /\ \/ file' = [file EXCEPT ![1] = NoFile]
       \/ Fails("remove") /\ UNCHANGED file
    /\ i' = maxFiles - 1
    /\ Goto("shift")
    /\ UNCHANGED <<handle, size, logged, stored>>

\* Its error, like those of the shifts, is ignored.
RemoveOldest ==
    /\ pc = "remove"
    /\ \/ file' = [file EXCEPT ![maxFiles] = NoFile]
       \/ Fails("remove") /\ UNCHANGED file
    /\ i' = maxFiles - 1
    /\ Goto("shift")
    /\ UNCHANGED <<handle, size, logged, stored>>

Exists(k) == file[k] # NoFile

\* os.Rename(path.k, path.(k+1)) replaces what is there.
Rename(k) == file' = [file EXCEPT ![k + 1] = file[k], ![k] = NoFile]

\* Mutant of Shift: the loop runs once too often.
ShiftToZero ==
    /\ pc = "shift" /\ i >= 0
    /\ \/ Exists(i) /\ Rename(i)
       \/ ~Exists(i) /\ UNCHANGED file
    /\ i' = i - 1
    /\ UNCHANGED <<handle, size, pc, line, logged, stored>>

Shift ==
    /\ pc = "shift" /\ i >= 1
    /\ \/ Exists(i) /\ Rename(i)
       \/ (~Exists(i) \/ Fails("shift")) /\ UNCHANGED file
    /\ i' = i - 1
    /\ UNCHANGED <<handle, size, pc, line, logged, stored>>

\* os.Rename(path, path.1): only a missing path is no error.
MoveCurrent ==
    /\ pc = "shift" /\ i = 0
    /\ \/ Exists(0) /\ Rename(0) /\ Goto("open")
       \/ ~Exists(0) /\ UNCHANGED file /\ Goto("open")
       \/ Fails("move") /\ UNCHANGED file /\ Return
    /\ UNCHANGED <<handle, size, i, logged, stored>>

\* r.f and r.size are set only if all went well.
Reopen ==
    /\ pc = "open"
    /\ \/ handle' = "open" /\ size' = 0 /\ Goto("write")
       \/ Fails("open") /\ UNCHANGED <<handle, size>> /\ Return
    /\ UNCHANGED <<file, i, logged, stored>>

Next ==
    \/ \E n \in Sizes : Log(n)
    \/ WriteLine
    \/ CloseFile \/ RemoveOldest \/ Shift \/ MoveCurrent \/ Reopen
    \/ CrashRestart

Spec == Init /\ [][Next]_vars

-----------------------------------------------------------------------------
(* Properties. *)

Line == [no : Nat, len : Nat, whole : BOOLEAN]
File == [lines : Seq(Line), bytes : Nat]

TypeOK ==
    /\ file   \in [0 .. maxFiles -> File]
    /\ handle \in {"open", "closed", "off"}
    /\ size   \in Nat
    /\ pc     \in {"idle", "close", "remove", "shift", "open", "write"}
    /\ i      \in 0 .. maxFiles
    /\ line   \in Line
    /\ logged \in 0 .. MaxLines
    /\ stored \in Seq(Line)

\* A file is longer than maxBytes only if it holds a single line that is,
\* whatever failed or crashed before: r.size is what Stat would say.
FilesBounded ==
    \A k \in 0 .. maxFiles :
        file[k].bytes <= maxBytes \/ Len(file[k].lines) = 1

\* Ways to cut what was stored into the files: path.k holds the lines after
\* end[k + 1] up to end[k], and what is before end[maxFiles + 1] is deleted.
\* (TLC computes this set once because it is written as an image.)
Cuts == {end : end \in {f \in [0 .. maxFiles + 1 -> 0 .. MaxLines] :
                          \A j, k \in 0 .. maxFiles + 1 :
                             j <= k => f[k] <= f[j]}}

\* "oldest deleted once that cap is hit": what the files hold, path.maxFiles
\* first and path last, is the end of what was written to them, without a
\* gap, a repetition or a line out of place, at every step of a rotation and
\* after a crash in the middle of one (unless one of the shifts, whose errors
\* are ignored, fails).
KeepsNewest ==
    \E end \in Cuts :
        /\ end[0] = Len(stored)
        /\ \A k \in 0 .. maxFiles :
              file[k].lines = SubSeq(stored, end[k + 1] + 1, end[k])

\* A line leaves the disk only with the oldest file.
OnlyOldestIsLost ==
    [][\A k \in 0 .. maxFiles - 1 : \A l \in Range(file[k].lines) :
          \E j \in 0 .. maxFiles : l \in Range(file'[j].lines)
      ]_vars

=============================================================================
