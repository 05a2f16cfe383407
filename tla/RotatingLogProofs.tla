------------------------- MODULE RotatingLogProofs -------------------------
(***************************************************************************)
(* The log files stay within LOG_MAX_MB for every limit, number of files,  *)
(* choice of failing calls and sequence of crashes; and unless a shift     *)
(* fails, they hold the newest lines in their order.                       *)
(***************************************************************************)
EXTENDS RotatingLog, SequenceTheorems, TLAPS

FileOK(f) ==
    /\ f.bytes = 0 => f.lines = <<>>
    /\ f.bytes <= maxBytes \/ Len(f.lines) = 1

\* What rotate and Write rely on: r.size is the length of the open file, and
\* a line is written only where it fits or comes first.
SizeOK ==
    /\ handle = "open" => size = file[0].bytes
    /\ pc # "idle" => line.len > 0
    /\ pc = "write" /\ handle = "open" => size = 0 \/ size + line.len <= maxBytes
    /\ pc # "idle" => handle # "off"
    /\ pc \in {"remove", "shift", "open"} => handle = "closed"
    /\ pc = "shift" => i < maxFiles
    /\ pc = "open" => file[0] = NoFile

BoundInv ==
    /\ TypeOK
    /\ \A k \in 0 .. maxFiles : FileOK(file[k])
    /\ SizeOK

LEMMA BoundInit == Init => BoundInv
<1> SUFFICES ASSUME Init
             PROVE  BoundInv
  OBVIOUS
<1> USE RotatingLogAssumption
<1>1. NoFile \in File /\ NoLine \in Line /\ FileOK(NoFile)
  BY DEF NoFile, NoLine, File, Line, FileOK
<1>2. NoFile.bytes = 0 /\ 0 \in 0 .. maxFiles
  BY DEF NoFile
<1> QED
  BY <1>1, <1>2 DEF Init, BoundInv, TypeOK, SizeOK

\* Moving the files about keeps them as they are.
LEMMA RenameKeeps ==
  ASSUME BoundInv, NEW k \in 0 .. maxFiles - 1, Rename(k)
  PROVE  /\ file' \in [0 .. maxFiles -> File]
         /\ \A j \in 0 .. maxFiles : FileOK(file'[j])
<1> USE RotatingLogAssumption
<1>1. NoFile \in File /\ FileOK(NoFile)
  BY DEF NoFile, File, FileOK
<1>2. file[k] \in File /\ FileOK(file[k]) /\ file \in [0 .. maxFiles -> File]
  BY DEF BoundInv, TypeOK
<1>3. file' \in [0 .. maxFiles -> File]
  BY <1>1, <1>2 DEF Rename
<1>4. ASSUME NEW j \in 0 .. maxFiles
      PROVE  FileOK(file'[j])
  <2>1. file'[j] \in {NoFile, file[k], file[j]}
    BY <1>2 DEF Rename
  <2> QED
    BY <1>1, <1>2, <2>1 DEF BoundInv
<1> QED
  BY <1>3, <1>4

LEMMA LogBound ==
  ASSUME BoundInv, NEW n \in Sizes, Log(n)
  PROVE  BoundInv'
<1> USE RotatingLogAssumption
<1>1. file' = file /\ handle' = handle /\ size' = size /\ i' = i
      /\ stored' = stored /\ logged' = logged + 1 /\ logged' \in 0 .. MaxLines
  BY DEF Log, BoundInv, TypeOK
<1>2. CASE pc' = pc /\ line' = line
  BY <1>1, <1>2 DEF BoundInv, TypeOK, SizeOK
<1>3. CASE /\ handle # "off"
           /\ line' = [no |-> logged + 1, len |-> n, whole |-> TRUE]
           /\ pc' = IF NeedsRotation(n) THEN "close" ELSE "write"
  <2>1. line' \in Line /\ line'.len = n /\ n > 0
    BY <1>3 DEF Line, BoundInv, TypeOK
  <2>2. pc' = "write" => size = 0 \/ size + n <= maxBytes
    BY <1>3 DEF NeedsRotation, BoundInv, TypeOK
  <2>3. pc' \in {"close", "write"}
    BY <1>3
  <2> QED
    BY <1>1, <1>3, <2>1, <2>2, <2>3 DEF BoundInv, TypeOK, SizeOK
<1> QED
  BY <1>2, <1>3 DEF Log

LEMMA AppendBound ==
  ASSUME BoundInv, pc = "write", handle # "closed",
         NEW l \in Line, 0 < l.len, l.len <= line.len, AppendLine(l)
  PROVE  /\ file' \in [0 .. maxFiles -> File]
         /\ \A k \in 0 .. maxFiles : FileOK(file'[k])
         /\ size' \in Nat /\ size' = file'[0].bytes
         /\ stored' \in Seq(Line)
<1> USE RotatingLogAssumption
<1> DEFINE new == [lines |-> Append(file[0].lines, l),
                   bytes |-> file[0].bytes + l.len]
<1>1. /\ handle = "open" /\ size = file[0].bytes
      /\ size = 0 \/ size + line.len <= maxBytes
  BY DEF BoundInv, SizeOK, TypeOK
<1>2. /\ file \in [0 .. maxFiles -> File] /\ 0 \in 0 .. maxFiles
      /\ file[0] \in File /\ FileOK(file[0]) /\ size \in Nat
      /\ l.len \in Nat /\ line.len \in Nat /\ stored \in Seq(Line)
  BY DEF BoundInv, TypeOK, Line
<1>3. file' = [file EXCEPT ![0] = new]
  BY <1>2 DEF AppendLine
<1>4. new \in File
  BY <1>2 DEF File
<1>5. FileOK(new)
  <2>1. new.bytes # 0
    BY <1>2 DEF File
  <2>2. CASE size = 0
    <3>1. file[0].lines = <<>>
      BY <1>1, <1>2, <2>2 DEF FileOK
    <3>2. Len(Append(<<>>, l)) = 1
      OBVIOUS
    <3> QED
      BY <2>1, <3>1, <3>2 DEF FileOK
  <2>3. CASE size + line.len <= maxBytes
    BY <1>1, <1>2, <2>1, <2>3 DEF FileOK
  <2> QED
    BY <1>1, <2>2, <2>3
<1>6. ASSUME NEW k \in 0 .. maxFiles
      PROVE  FileOK(file'[k])
  <2>1. file'[k] \in {new, file[k]}
    BY <1>2, <1>3
  <2> QED
    BY <1>5, <2>1 DEF BoundInv
<1>7. size' = size + l.len /\ stored' = Append(stored, l)
  BY DEF AppendLine
<1>8. file'[0] = new /\ size' = new.bytes /\ size' \in Nat
  BY <1>1, <1>2, <1>3, <1>7
<1>9. stored' \in Seq(Line)
  BY <1>2, <1>7
<1>10. file' \in [0 .. maxFiles -> File]
  BY <1>2, <1>3, <1>4
<1> QED
  BY <1>6, <1>8, <1>9, <1>10

LEMMA WriteBound ==
  ASSUME BoundInv, WriteLine
  PROVE  BoundInv'
<1> USE RotatingLogAssumption
<1>1. /\ pc = "write" /\ pc' = "idle" /\ line' = NoLine /\ NoLine \in Line
      /\ handle' = handle /\ i' = i /\ logged' = logged
  BY DEF WriteLine, Return, NoLine, Line
<1>2. line \in Line /\ line.len \in Nat /\ line.len > 0
  BY <1>1 DEF BoundInv, TypeOK, SizeOK, Line
<1>3. CASE UNCHANGED <<file, size, stored>>
  BY <1>1, <1>3 DEF BoundInv, TypeOK, SizeOK
<1>4. ASSUME NEW l \in Line, 0 < l.len, l.len <= line.len, AppendLine(l),
             handle # "closed"
      PROVE  BoundInv'
  <2>1. /\ file' \in [0 .. maxFiles -> File]
        /\ \A k \in 0 .. maxFiles : FileOK(file'[k])
        /\ size' \in Nat /\ size' = file'[0].bytes
        /\ stored' \in Seq(Line)
    BY <1>1, <1>4, AppendBound
  <2> QED
    BY <1>1, <2>1 DEF BoundInv, TypeOK, SizeOK
<1>5. CASE AppendLine(line) /\ handle # "closed"
  BY <1>2, <1>4, <1>5
<1>6. ASSUME NEW k \in 1 .. line.len - 1, handle # "closed",
             AppendLine([line EXCEPT !.len = k, !.whole = FALSE])
      PROVE  BoundInv'
  <2>1. k \in Nat /\ 0 < k /\ k <= line.len
    BY <1>2
  <2>2. /\ [line EXCEPT !.len = k, !.whole = FALSE] \in Line
        /\ [line EXCEPT !.len = k, !.whole = FALSE].len = k
    BY <1>2, <2>1 DEF Line
  <2> QED
    BY <1>4, <1>6, <2>1, <2>2
<1> QED
  BY <1>3, <1>5, <1>6 DEF WriteLine

LEMMA RotateBound ==
  ASSUME BoundInv, CloseFile \/ RemoveOldest \/ Shift \/ MoveCurrent \/ Reopen
  PROVE  BoundInv'
<1> USE RotatingLogAssumption
<1>1. NoFile \in File /\ NoLine \in Line /\ FileOK(NoFile)
  BY DEF NoFile, NoLine, File, Line, FileOK
<1>2. CASE CloseFile
  BY <1>1, <1>2 DEF CloseFile, Goto, Return, BoundInv, TypeOK, SizeOK
<1>3. CASE RemoveOldest
  <2>1. /\ file' \in [0 .. maxFiles -> File]
        /\ \A k \in 0 .. maxFiles : FileOK(file'[k])
    <3>1. CASE UNCHANGED file
      BY <3>1 DEF BoundInv, TypeOK
    <3>2. CASE file' = [file EXCEPT ![maxFiles] = NoFile]
      BY <1>1, <3>2 DEF BoundInv, TypeOK
    <3> QED
      BY <1>3, <3>1, <3>2 DEF RemoveOldest
  <2>2. i' = maxFiles - 1 /\ i' \in 0 .. maxFiles /\ i' < maxFiles
    BY <1>3 DEF RemoveOldest
  <2>3. handle' = "closed" /\ size' = size /\ pc' = "shift" /\ line' = line
        /\ logged' = logged /\ stored' = stored /\ pc = "remove"
    BY <1>3 DEF RemoveOldest, Goto, BoundInv, SizeOK
  <2> QED
    BY <2>1, <2>2, <2>3 DEF BoundInv, TypeOK, SizeOK
<1>4. CASE Shift
  <2>1. /\ i \in 1 .. maxFiles - 1 /\ handle = "closed" /\ pc = "shift"
        /\ i - 1 \in 0 .. maxFiles /\ i - 1 < maxFiles
    BY <1>4 DEF Shift, BoundInv, TypeOK, SizeOK
  <2>2. /\ file' \in [0 .. maxFiles -> File]
        /\ \A k \in 0 .. maxFiles : FileOK(file'[k])
    <3>1. CASE UNCHANGED file
      BY <3>1 DEF BoundInv, TypeOK
    <3>2. CASE Rename(i)
      BY <2>1, <3>2, RenameKeeps
    <3> QED
      BY <1>4, <3>1, <3>2 DEF Shift
  <2>3. i' = i - 1 /\ UNCHANGED <<handle, size, pc, line, logged, stored>>
    BY <1>4 DEF Shift
  <2> QED
    BY <2>1, <2>2, <2>3 DEF BoundInv, TypeOK, SizeOK
<1>5. CASE MoveCurrent
  <2>1. /\ handle = "closed" /\ handle' = handle /\ size' = size /\ i' = i
        /\ logged' = logged /\ stored' = stored /\ line \in Line
        /\ 0 \in 0 .. maxFiles - 1
    BY <1>5 DEF MoveCurrent, BoundInv, TypeOK, SizeOK
  <2>2. /\ file' \in [0 .. maxFiles -> File]
        /\ \A k \in 0 .. maxFiles : FileOK(file'[k])
    <3>1. CASE UNCHANGED file
      BY <3>1 DEF BoundInv, TypeOK
    <3>2. CASE Rename(0)
      BY <2>1, <3>2, RenameKeeps
    <3> QED
      BY <1>5, <3>1, <3>2 DEF MoveCurrent
  <2>3. \/ pc' = "open" /\ line' = line /\ file'[0] = NoFile
        \/ pc' = "idle" /\ line' = NoLine
    <3>1. 0 \in DOMAIN file /\ 0 # 0 + 1
      BY <2>1 DEF BoundInv, TypeOK
    <3>2. Rename(0) => file'[0] = NoFile
      BY <3>1 DEF Rename
    <3> QED
      BY <1>5, <3>2 DEF MoveCurrent, Goto, Return, Exists
  <2> QED
    BY <1>1, <2>1, <2>2, <2>3 DEF BoundInv, TypeOK, SizeOK
<1>6. CASE Reopen
  <2>1. /\ pc = "open" /\ handle = "closed" /\ file' = file /\ i' = i
        /\ logged' = logged /\ stored' = stored
    BY <1>6 DEF Reopen, BoundInv, SizeOK
  <2>2. CASE handle' = "open" /\ size' = 0 /\ Goto("write")
    <3>1. size' = file'[0].bytes
      BY <2>1, <2>2 DEF NoFile, BoundInv, SizeOK
    <3> QED
      BY <2>1, <2>2, <3>1 DEF Goto, BoundInv, TypeOK, SizeOK
  <2>3. CASE UNCHANGED <<handle, size>> /\ Return
    BY <1>1, <2>1, <2>3 DEF Return, BoundInv, TypeOK, SizeOK
  <2> QED
    BY <1>6, <2>2, <2>3 DEF Reopen
<1> QED
  BY <1>2, <1>3, <1>4, <1>5, <1>6

LEMMA CrashBound ==
  ASSUME BoundInv, CrashRestart
  PROVE  BoundInv'
<1> USE RotatingLogAssumption
<1>1. NoLine \in Line /\ 0 \in 0 .. maxFiles /\ file[0].bytes \in Nat
  BY DEF NoLine, Line, File, BoundInv, TypeOK
<1>2. /\ handle' \in {"open", "off"} /\ size' \in Nat
      /\ handle' = "open" => size' = file[0].bytes
  BY <1>1 DEF CrashRestart, Start
<1> QED
  BY <1>1, <1>2 DEF CrashRestart, BoundInv, TypeOK, SizeOK

LEMMA BoundInvariance == Spec => []BoundInv
<1>1. BoundInv /\ [Next]_vars => BoundInv'
  <2> SUFFICES ASSUME BoundInv, [Next]_vars
               PROVE  BoundInv'
    OBVIOUS
  <2>1. CASE \E n \in Sizes : Log(n)
    BY <2>1, LogBound
  <2>2. CASE WriteLine
    BY <2>2, WriteBound
  <2>3. CASE CloseFile \/ RemoveOldest \/ Shift \/ MoveCurrent \/ Reopen
    BY <2>3, RotateBound
  <2>4. CASE CrashRestart
    BY <2>4, CrashBound
  <2>5. CASE UNCHANGED vars
    BY <2>5 DEF vars, BoundInv, TypeOK, SizeOK
  <2> QED
    BY <2>1, <2>2, <2>3, <2>4, <2>5 DEF Next
<1> QED
  BY <1>1, BoundInit, PTL DEF Spec

\* Every variable of the log stays in its range: the loop of rotate never
\* leaves the names path.1 ... path.maxFiles.
THEOREM LogTypeCorrect == Spec => []TypeOK
<1>1. BoundInv => TypeOK
  BY DEF BoundInv
<1> QED
  BY <1>1, BoundInvariance, PTL

\* No log file outgrows LOG_MAX_MB but by a single line that does so alone,
\* whichever calls fail and wherever the process crashes in a rotation.
THEOREM LogFilesBounded == Spec => []FilesBounded
<1>1. BoundInv => FilesBounded
  BY DEF BoundInv, FileOK, FilesBounded
<1> QED
  BY <1>1, BoundInvariance, PTL

-----------------------------------------------------------------------------
(* Where the shifts do not fail, the chain of renames overwrites nothing but *)
(* the oldest file: what stands before the loop variable has moved on.       *)

ShiftsWork == "shift" \notin MayFail

GapOK == pc = "shift" => i + 1 = maxFiles \/ file[i + 1] = NoFile

GapInv == BoundInv /\ GapOK

\* The lines of file k are still in one of the files after the step.
Survive(k) == \A l \in Range(file[k].lines) :
                \E j \in 0 .. maxFiles : l \in Range(file'[j].lines)

LEMMA GapStep ==
  ASSUME ShiftsWork, GapInv, Next
  PROVE  GapOK'
<1> USE RotatingLogAssumption
<1>1. file \in [0 .. maxFiles -> File]
  BY DEF GapInv, BoundInv, TypeOK
<1>2. CASE \E n \in Sizes : Log(n)
  BY <1>2 DEF Log, GapOK
<1>3. CASE WriteLine
  BY <1>3 DEF WriteLine, Return, GapOK
<1>4. CASE CloseFile
  BY <1>4 DEF CloseFile, Goto, Return, GapOK
<1>5. CASE RemoveOldest
  BY <1>5 DEF RemoveOldest, GapOK
<1>6. CASE Shift
  <2>1. i \in 1 .. maxFiles - 1 /\ i' = i - 1 /\ i' + 1 = i
    BY <1>6 DEF Shift, GapInv, BoundInv, TypeOK, SizeOK
  <2>2. Rename(i) \/ (~Exists(i) /\ UNCHANGED file)
    BY <1>6 DEF Shift, Fails, ShiftsWork, Exists
  <2>3. file'[i] = NoFile
    BY <1>1, <2>1, <2>2 DEF Rename, Exists
  <2> QED
    BY <2>1, <2>3 DEF GapOK
<1>7. CASE MoveCurrent
  BY <1>7 DEF MoveCurrent, Goto, Return, GapOK
<1>8. CASE Reopen
  BY <1>8 DEF Reopen, Goto, Return, GapOK
<1>9. CASE CrashRestart
  BY <1>9 DEF CrashRestart, GapOK
<1> QED
  BY <1>2, <1>3, <1>4, <1>5, <1>6, <1>7, <1>8, <1>9 DEF Next

\* A file that is moved takes its lines along; the one it replaces is the
\* oldest or has none.
LEMMA RenameLoses ==
  ASSUME file \in [0 .. maxFiles -> File], NEW k \in 0 .. maxFiles - 1, Rename(k),
         k + 1 = maxFiles \/ file[k + 1] = NoFile,
         NEW j \in 0 .. maxFiles - 1
  PROVE  Survive(j)
<1> USE RotatingLogAssumption
<1>1. /\ k \in 0 .. maxFiles /\ k + 1 \in 0 .. maxFiles /\ j \in 0 .. maxFiles
      /\ k # k + 1
  OBVIOUS
<1>2. file'[k + 1] = file[k]
  BY <1>1 DEF Rename
<1>3. CASE j = k
  BY <1>1, <1>2, <1>3 DEF Survive
<1>4. CASE j = k + 1
  <2>1. file[j].lines = <<>>
    BY <1>4 DEF NoFile
  <2>2. Range(<<>>) = {}
    BY DEF Range
  <2> QED
    BY <2>1, <2>2 DEF Survive
<1>5. CASE j # k /\ j # k + 1
  <2>1. file'[j] = file[j]
    BY <1>1, <1>5 DEF Rename
  <2> QED
    BY <1>1, <2>1 DEF Survive
<1> QED
  BY <1>3, <1>4, <1>5

LEMMA AppendLoses ==
  ASSUME file \in [0 .. maxFiles -> File], NEW l, AppendLine(l),
         NEW j \in 0 .. maxFiles - 1
  PROVE  Survive(j)
<1> USE RotatingLogAssumption
<1>1. 0 \in 0 .. maxFiles /\ j \in 0 .. maxFiles /\ file[0].lines \in Seq(Line)
  BY DEF File
<1>2. Range(file[j].lines) \subseteq Range(file'[j].lines)
  <2>1. CASE j = 0
    <3>1. file'[0].lines = Append(file[0].lines, l)
      BY <1>1 DEF AppendLine
    <3> DEFINE s == file[0].lines
    <3>2. /\ DOMAIN s \subseteq DOMAIN Append(s, l)
          /\ \A n \in DOMAIN s : Append(s, l)[n] = s[n]
      BY <1>1
    <3> QED
      BY <2>1, <3>1, <3>2 DEF Range
  <2>2. CASE j # 0
    BY <1>1, <2>2 DEF AppendLine
  <2> QED
    BY <2>1, <2>2
<1> QED
  BY <1>1, <1>2 DEF Survive

LEMMA StepLoses ==
  ASSUME GapInv, [Next]_vars, ShiftsWork, NEW j \in 0 .. maxFiles - 1
  PROVE  Survive(j)
<1> USE RotatingLogAssumption
<1>1. file \in [0 .. maxFiles -> File] /\ j \in 0 .. maxFiles
  BY DEF GapInv, BoundInv, TypeOK
<1>2. CASE UNCHANGED file
  BY <1>1, <1>2 DEF Survive
<1>3. CASE WriteLine
  <2>1. \/ UNCHANGED file
        \/ AppendLine(line)
        \/ \E k \in 1 .. line.len - 1 :
              AppendLine([line EXCEPT !.len = k, !.whole = FALSE])
    BY <1>3 DEF WriteLine
  <2> QED
    BY <1>1, <1>2, <2>1, AppendLoses
<1>4. CASE RemoveOldest
  <2>1. file'[j] = file[j]
    BY <1>1, <1>4 DEF RemoveOldest
  <2> QED
    BY <1>1, <2>1 DEF Survive
<1>5. CASE Shift
  <2>1. i \in 0 .. maxFiles - 1 /\ (i + 1 = maxFiles \/ file[i + 1] = NoFile)
    BY <1>5 DEF Shift, GapInv, GapOK, BoundInv, TypeOK, SizeOK
  <2>2. Rename(i) \/ UNCHANGED file
    BY <1>5 DEF Shift
  <2> QED
    BY <1>1, <1>2, <2>1, <2>2, RenameLoses
<1>6. CASE MoveCurrent
  <2>1. /\ i = 0 /\ 0 \in 0 .. maxFiles - 1
        /\ 0 + 1 = maxFiles \/ file[0 + 1] = NoFile
    BY <1>6 DEF MoveCurrent, GapInv, GapOK
  <2>2. Rename(0) \/ UNCHANGED file
    BY <1>6 DEF MoveCurrent
  <2> QED
    BY <1>1, <1>2, <2>1, <2>2, RenameLoses
<1>7. ASSUME \/ \E n \in Sizes : Log(n)
             \/ CloseFile \/ Reopen \/ CrashRestart \/ UNCHANGED vars
      PROVE  UNCHANGED file
  BY <1>7 DEF Log, CloseFile, Reopen, CrashRestart, vars
<1> QED
  BY <1>2, <1>3, <1>4, <1>5, <1>6, <1>7 DEF Next

\* Where the shifts do not fail, a line leaves the disk only with the oldest
\* file, at every step of a rotation and whatever else fails or crashes.
THEOREM NewerLinesAreKept == ShiftsWork /\ Spec => OnlyOldestIsLost
<1> SUFFICES ASSUME ShiftsWork
             PROVE  Spec => OnlyOldestIsLost
  OBVIOUS
<1>1. Init => GapOK
  BY DEF Init, GapOK
<1>2. BoundInv /\ GapOK /\ [Next]_vars => GapOK'
  <2>1. UNCHANGED vars /\ GapOK => GapOK'
    BY DEF vars, GapOK
  <2> QED
    BY <2>1, GapStep DEF GapInv
<1>3. BoundInv /\ GapOK /\ [Next]_vars =>
        [\A k \in 0 .. maxFiles - 1 : \A l \in Range(file[k].lines) :
           \E j \in 0 .. maxFiles : l \in Range(file'[j].lines)]_vars
  BY StepLoses DEF Survive, GapInv
<1> QED
  BY <1>1, <1>2, <1>3, BoundInvariance, PTL DEF Spec, OnlyOldestIsLost

-----------------------------------------------------------------------------
(* Nor do the files get out of order, or lose a line from their middle.     *)

\* The file system keeps end: path.k holds what was stored after end[k + 1].
CutAt(end) ==
    /\ end[0] = Len(stored)
    /\ \A k \in 0 .. maxFiles :
          file[k].lines = SubSeq(stored, end[k + 1] + 1, end[k])

\* Of the lines logged, those stored are done with.
CountOK ==
    /\ Len(stored) <= logged
    /\ pc # "idle" => Len(stored) < logged

LEMMA CutsDef ==
  ASSUME NEW end
  PROVE  end \in Cuts <=> /\ end \in [0 .. maxFiles + 1 -> 0 .. MaxLines]
                          /\ \A j, k \in 0 .. maxFiles + 1 :
                                j <= k => end[k] <= end[j]
BY DEF Cuts

\* A part is as long as its ends say, and parts beyond change nothing.
LEMMA PartLength ==
  ASSUME NEW s \in Seq(Line), NEW a \in 0 .. Len(s), NEW b \in a .. Len(s)
  PROVE  /\ SubSeq(s, a + 1, b) \in Seq(Line)
         /\ Len(SubSeq(s, a + 1, b)) = b - a
         /\ \A n \in 1 .. b - a : SubSeq(s, a + 1, b)[n] = s[a + n]
<1>1. /\ Len(s) \in Nat /\ a + 1 \in Int /\ b \in Int
      /\ \A n \in a + 1 .. b : s[n] \in Line
  OBVIOUS
<1>2. /\ SubSeq(s, a + 1, b) \in Seq(Line)
      /\ Len(SubSeq(s, a + 1, b)) = IF a + 1 <= b THEN b - (a + 1) + 1 ELSE 0
      /\ \A n \in 1 .. b - (a + 1) + 1 : SubSeq(s, a + 1, b)[n] = s[a + 1 + n - 1]
  BY ONLY <1>1, SubSeqProperties
<1>3. \A n \in 1 .. b - a : n \in 1 .. b - (a + 1) + 1 /\ a + 1 + n - 1 = a + n
  OBVIOUS
<1> QED
  BY <1>1, <1>2, <1>3

LEMMA PartEqual ==
  ASSUME NEW s \in Seq(Line), NEW t \in Seq(Line),
         NEW a \in 0 .. Len(s), NEW b \in a .. Len(s), b <= Len(t),
         \A n \in 1 .. Len(s) : n <= Len(t) => t[n] = s[n]
  PROVE  SubSeq(t, a + 1, b) = SubSeq(s, a + 1, b)
<1>1. Len(s) \in Nat /\ Len(t) \in Nat /\ a \in 0 .. Len(t) /\ b \in a .. Len(t)
  OBVIOUS
<1>2. /\ SubSeq(t, a + 1, b) \in Seq(Line) /\ SubSeq(s, a + 1, b) \in Seq(Line)
      /\ Len(SubSeq(t, a + 1, b)) = Len(SubSeq(s, a + 1, b))
  BY <1>1, PartLength
<1>3. \A n \in 1 .. Len(SubSeq(t, a + 1, b)) :
         SubSeq(t, a + 1, b)[n] = SubSeq(s, a + 1, b)[n]
  <2> SUFFICES ASSUME NEW n \in 1 .. b - a
               PROVE  SubSeq(t, a + 1, b)[n] = SubSeq(s, a + 1, b)[n]
    BY <1>1, PartLength
  <2>1. SubSeq(t, a + 1, b)[n] = t[a + n] /\ SubSeq(s, a + 1, b)[n] = s[a + n]
    BY <1>1, PartLength
  <2>2. a + n \in 1 .. Len(s) /\ a + n <= Len(t)
    BY <1>1
  <2> QED
    BY <2>1, <2>2
<1> QED
  BY <1>2, <1>3, SeqEqual

LEMMA PartAppend ==
  ASSUME NEW s \in Seq(Line), NEW l \in Line, NEW a \in 0 .. Len(s)
  PROVE  SubSeq(Append(s, l), a + 1, Len(s) + 1) = Append(SubSeq(s, a + 1, Len(s)), l)
<1> DEFINE t == Append(s, l)
           n == Len(s)
<1>1. /\ t \in Seq(Line) /\ Len(t) = n + 1 /\ t[n + 1] = l /\ n \in Nat
      /\ \A j \in 1 .. n : t[j] = s[j]
  BY AppendProperties
<1> HIDE DEF t
<1>2. SubSeq(t, a + 1, n + 1) = SubSeq(t, a + 1, n) \o <<t[n + 1]>>
  <2> DEFINE m == a + 1
             k == n + 1
  <2>1. m \in 1 .. Len(t) /\ k \in m .. Len(t) /\ k - 1 = n
    BY <1>1
  <2> HIDE DEF m, k
  <2>2. SubSeq(t, m, k) = SubSeq(t, m, k - 1) \o <<t[k]>>
    BY <1>1, <2>1, SubSeqRecursiveSecond, Zenon
  <2> QED
    BY <2>1, <2>2, Zenon DEF m, k
<1>3. SubSeq(t, a + 1, n) = SubSeq(s, a + 1, n)
  <2>1. n \in a .. n /\ n <= Len(t)
    BY <1>1
  <2> QED
    BY <1>1, <2>1, PartEqual
<1>4. SubSeq(s, a + 1, n) \in Seq(Line)
  <2>1. n \in a .. n
    BY <1>1
  <2> QED
    BY <2>1, PartLength
<1>5. SubSeq(s, a + 1, n) \o <<l>> = Append(SubSeq(s, a + 1, n), l)
  BY <1>4, AppendIsConcat
<1> QED
  BY <1>1, <1>2, <1>3, <1>5 DEF t

LEMMA CountStep ==
  ASSUME BoundInv, CountOK, [Next]_vars
  PROVE  CountOK'
<1>1. /\ stored \in Seq(Line) /\ Len(stored) \in Nat /\ logged \in Nat
  BY RotatingLogAssumption DEF BoundInv, TypeOK
<1>2. CASE \E n \in Sizes : Log(n)
  BY <1>1, <1>2 DEF Log, CountOK
<1>3. CASE WriteLine
  <2>1. pc = "write" /\ pc' = "idle" /\ logged' = logged
    BY <1>3 DEF WriteLine, Return
  <2>2. stored' = stored \/ \E l : stored' = Append(stored, l)
    BY <1>3 DEF WriteLine, AppendLine
  <2>3. Len(stored') <= Len(stored) + 1
    <3>1. \A l : Len(Append(stored, l)) = Len(stored) + 1
      BY <1>1
    <3> QED
      BY <1>1, <2>2, <3>1
  <2>4. Len(stored') \in Nat
    <3>1. \A l : Len(Append(stored, l)) = Len(stored) + 1
      BY <1>1
    <3> QED
      BY <1>1, <2>2, <3>1
  <2> QED
    BY <1>1, <2>1, <2>3, <2>4 DEF CountOK
<1>4. CASE CloseFile \/ RemoveOldest \/ Shift \/ MoveCurrent \/ Reopen
  <2>1. pc # "idle" /\ UNCHANGED <<logged, stored>>
    BY <1>4 DEF CloseFile, RemoveOldest, Shift, MoveCurrent, Reopen
  <2> QED
    BY <1>1, <2>1 DEF CountOK
<1>5. CASE CrashRestart
  BY <1>5 DEF CrashRestart, CountOK
<1>6. CASE UNCHANGED vars
  BY <1>6 DEF vars, CountOK
<1> QED
  BY <1>2, <1>3, <1>4, <1>5, <1>6 DEF Next

\* A line that is written belongs to path.
LEMMA AppendCut ==
  ASSUME BoundInv, NEW end \in Cuts, CutAt(end), NEW l \in Line, AppendLine(l),
         Len(stored) < MaxLines
  PROVE  KeepsNewest'
<1> USE RotatingLogAssumption
<1>1. /\ stored \in Seq(Line) /\ Len(stored) \in Nat
      /\ file \in [0 .. maxFiles -> File] /\ 0 \in 0 .. maxFiles
      /\ file[0].lines \in Seq(Line)
  BY DEF BoundInv, TypeOK, File
<1>2. /\ end \in [0 .. maxFiles + 1 -> 0 .. MaxLines]
      /\ \A j, k \in 0 .. maxFiles + 1 : j <= k => end[k] <= end[j]
      /\ end[0] = Len(stored) /\ 0 \in 0 .. maxFiles + 1
      /\ \A k \in 0 .. maxFiles : k \in 0 .. maxFiles + 1 /\ k + 1 \in 0 .. maxFiles + 1
  BY CutsDef DEF CutAt
<1> DEFINE n == Len(stored)
           new == [end EXCEPT ![0] = n + 1]
<1>3. /\ stored' = Append(stored, l) /\ Len(stored') = n + 1
      /\ stored' \in Seq(Line) /\ stored'[n + 1] = l
      /\ \A j \in 1 .. n : stored'[j] = stored[j]
  BY <1>1 DEF AppendLine
<1>4. /\ file'[0].lines = Append(file[0].lines, l)
      /\ \A k \in 0 .. maxFiles : k # 0 => file'[k] = file[k]
  BY <1>1 DEF AppendLine
<1>5. /\ new[0] = n + 1 /\ new \in [0 .. maxFiles + 1 -> 0 .. MaxLines]
      /\ \A k \in 0 .. maxFiles + 1 : k # 0 => new[k] = end[k]
  BY <1>1, <1>2
<1>6. \A k \in 0 .. maxFiles + 1 : end[k] \in 0 .. n
  BY <1>1, <1>2
<1>7. \A j, k \in 0 .. maxFiles + 1 : j <= k => new[k] <= new[j]
  BY <1>1, <1>2, <1>5, <1>6
<1>8. ASSUME NEW k \in 0 .. maxFiles, k # 0
      PROVE  file'[k].lines = SubSeq(stored', new[k + 1] + 1, new[k])
  <2>1. new[k + 1] = end[k + 1] /\ new[k] = end[k] /\ end[k + 1] <= end[k]
    BY <1>2, <1>5, <1>8
  <2>2. end[k + 1] \in 0 .. n /\ end[k] \in end[k + 1] .. n /\ end[k] <= n + 1
    BY <1>1, <1>2, <1>6, <2>1
  <2>3. SubSeq(stored', end[k + 1] + 1, end[k]) = SubSeq(stored, end[k + 1] + 1, end[k])
    BY ONLY <1>1, <1>3, <2>2, PartEqual
  <2> QED
    BY <1>4, <1>8, <2>1, <2>3 DEF CutAt
<1>9. file'[0].lines = SubSeq(stored', new[0 + 1] + 1, new[0])
  <2>1. end[1] \in 0 .. n /\ new[0 + 1] = end[1] /\ new[0] = n + 1
    BY <1>1, <1>2, <1>5, <1>6
  <2>2. file[0].lines = SubSeq(stored, end[1] + 1, n)
    BY <1>1, <1>2, SMTT(20) DEF CutAt
  <2>3. SubSeq(stored', end[1] + 1, n + 1) = Append(SubSeq(stored, end[1] + 1, n), l)
    BY <1>1, <1>3, <2>1, PartAppend
  <2> QED
    BY <1>4, <2>1, <2>2, <2>3
<1>10. new \in Cuts
  BY <1>5, <1>7, CutsDef
<1>11. new[0] = Len(stored')
  BY <1>3, <1>5
<1>12. \A k \in 0 .. maxFiles : file'[k].lines = SubSeq(stored', new[k + 1] + 1, new[k])
  BY <1>8, <1>9
<1> HIDE DEF new
<1> QED
  BY <1>10, <1>11, <1>12 DEF KeepsNewest

\* The oldest file is the first part.
LEMMA RemoveCut ==
  ASSUME BoundInv, NEW end \in Cuts, CutAt(end), UNCHANGED stored,
         file' = [file EXCEPT ![maxFiles] = NoFile]
  PROVE  KeepsNewest'
<1> USE RotatingLogAssumption
<1>1. file \in [0 .. maxFiles -> File] /\ stored \in Seq(Line)
  BY DEF BoundInv, TypeOK
<1>2. /\ end \in [0 .. maxFiles + 1 -> 0 .. MaxLines]
      /\ \A j, k \in 0 .. maxFiles + 1 : j <= k => end[k] <= end[j]
  BY CutsDef
<1> DEFINE new == [end EXCEPT ![maxFiles + 1] = end[maxFiles]]
<1>3. /\ new \in [0 .. maxFiles + 1 -> 0 .. MaxLines]
      /\ new[maxFiles + 1] = end[maxFiles]
      /\ \A k \in 0 .. maxFiles : new[k] = end[k]
  BY <1>2
<1>4. \A j, k \in 0 .. maxFiles + 1 : j <= k => new[k] <= new[j]
  BY <1>2, <1>3
<1>5. ASSUME NEW k \in 0 .. maxFiles
      PROVE  file'[k].lines = SubSeq(stored, new[k + 1] + 1, new[k])
  <2>1. CASE k = maxFiles
    <3>1. file'[k].lines = <<>>
      BY <1>1, <2>1 DEF NoFile
    <3>2. SubSeq(stored, end[maxFiles] + 1, end[maxFiles]) = <<>>
      BY <1>2, SubSeqEmpty
    <3> QED
      BY <1>3, <2>1, <3>1, <3>2
  <2>2. CASE k # maxFiles
    <3>1. k + 1 \in 0 .. maxFiles /\ file'[k] = file[k]
      BY <1>1, <2>2
    <3> QED
      BY <1>3, <3>1 DEF CutAt
  <2> QED
    BY <2>1, <2>2
<1>6. new \in Cuts
  BY <1>3, <1>4, CutsDef
<1>7. CutAt(new)'
  BY <1>3, <1>5 DEF CutAt
<1> QED
  BY <1>6, <1>7 DEF KeepsNewest, CutAt

\* A file moves to a name that has no part, or the first one.
LEMMA RenameCut ==
  ASSUME BoundInv, NEW end \in Cuts, CutAt(end), UNCHANGED stored,
         NEW k \in 0 .. maxFiles - 1, Rename(k),
         k + 1 = maxFiles \/ file[k + 1] = NoFile
  PROVE  KeepsNewest'
<1> USE RotatingLogAssumption
<1>1. /\ file \in [0 .. maxFiles -> File] /\ stored \in Seq(Line)
      /\ k \in 0 .. maxFiles /\ k + 1 \in 0 .. maxFiles
      /\ k + 1 \in 0 .. maxFiles + 1 /\ k + 2 \in 0 .. maxFiles + 1
  BY DEF BoundInv, TypeOK
<1>2. /\ end \in [0 .. maxFiles + 1 -> 0 .. MaxLines]
      /\ \A j, m \in 0 .. maxFiles + 1 : j <= m => end[m] <= end[j]
      /\ end[0] = Len(stored) /\ 0 \in 0 .. maxFiles + 1
  BY CutsDef DEF CutAt
<1> DEFINE new == [end EXCEPT ![k + 1] = end[k], ![k + 2] = end[k + 1]]
<1>3. /\ new \in [0 .. maxFiles + 1 -> 0 .. MaxLines]
      /\ new[k + 1] = end[k] /\ new[k + 2] = end[k + 1]
      /\ \A j \in 0 .. maxFiles + 1 : j # k + 1 /\ j # k + 2 => new[j] = end[j]
  BY <1>1, <1>2, SMTT(20)
<1>4. \A j, m \in 0 .. maxFiles + 1 : j <= m => new[m] <= new[j]
  <2>1. end[k + 2] <= end[k + 1] /\ end[k + 1] <= end[k]
    BY <1>1, <1>2
  <2>2. ASSUME NEW j \in 0 .. maxFiles + 1, NEW m \in 0 .. maxFiles + 1, j <= m
        PROVE  new[m] <= new[j]
    <3>1. CASE m = k + 1
      <4>1. CASE j = k + 1
        BY <1>1, <1>2, <1>3, <3>1, <4>1
      <4>2. CASE j # k + 1
        <5>1. j <= k /\ new[j] = end[j] /\ new[m] = end[k]
          BY <1>1, <1>3, <2>2, <3>1, <4>2
        <5> QED
          BY <1>1, <1>2, <5>1
      <4> QED
        BY <4>1, <4>2
    <3>2. CASE m = k + 2
      <4>1. CASE j \in {k + 1, k + 2}
        BY <1>1, <1>2, <1>3, <2>1, <3>2, <4>1
      <4>2. CASE j \notin {k + 1, k + 2}
        <5>1. j <= k + 1 /\ new[j] = end[j] /\ new[m] = end[k + 1]
          BY <1>1, <1>3, <2>2, <3>2, <4>2
        <5> QED
          BY <1>1, <1>2, <5>1
      <4> QED
        BY <4>1, <4>2
    <3>3. CASE m # k + 1 /\ m # k + 2
      <4>1. new[m] = end[m] /\ end[m] <= end[j]
        BY <1>2, <1>3, <2>2, <3>3
      <4>2. end[j] <= new[j]
        BY <1>1, <1>2, <1>3, <2>1
      <4> QED
        BY <1>2, <1>3, <4>1, <4>2
    <3> QED
      BY <3>1, <3>2, <3>3
  <2> QED
    BY <2>2
<1>5. file[k + 1] = NoFile => end[k + 2] = end[k + 1]
  <2> SUFFICES ASSUME file[k + 1] = NoFile
               PROVE  end[k + 2] = end[k + 1]
    OBVIOUS
  <2>1. SubSeq(stored, end[k + 2] + 1, end[k + 1]) = <<>>
    <3>1. k + 1 + 1 = k + 2
      OBVIOUS
    <3>2. file[k + 1].lines = <<>>
      BY DEF NoFile
    <3> QED
      BY <1>1, <3>1, <3>2 DEF CutAt
  <2>2. /\ Len(stored) \in Nat /\ end[k + 2] \in 0 .. Len(stored)
        /\ end[k + 1] \in end[k + 2] .. Len(stored)
    BY <1>1, <1>2
  <2>3. end[k + 1] - end[k + 2] = 0
    BY <1>1, <2>1, <2>2, PartLength
  <2> QED
    BY <2>2, <2>3
<1>6. ASSUME NEW j \in 0 .. maxFiles
      PROVE  file'[j].lines = SubSeq(stored, new[j + 1] + 1, new[j])
  <2>1. CASE j = k
    <3>1. file'[j].lines = <<>>
      BY <1>1, <2>1 DEF Rename, NoFile
    <3>2. new[j + 1] = end[k] /\ new[j] = end[k] /\ end[k] \in Int
      BY <1>1, <1>2, <1>3, <2>1
    <3>3. SubSeq(stored, end[k] + 1, end[k]) = <<>>
      BY <3>2, SubSeqEmpty
    <3> QED
      BY <3>1, <3>2, <3>3
  <2>2. CASE j = k + 1
    <3>1. file'[j] = file[k]
      BY <1>1, <2>2 DEF Rename
    <3>2. new[j + 1] = end[k + 1] /\ new[j] = end[k]
      BY <1>1, <1>3, <2>2
    <3> QED
      BY <1>1, <3>1, <3>2 DEF CutAt
  <2>3. CASE j # k /\ j # k + 1
    <3>1. file'[j] = file[j]
      BY <1>1, <2>3 DEF Rename
    <3>2. new[j + 1] = end[j + 1]
      BY <1>3, <2>3
    <3>3. new[j] = end[j]
      <4>1. CASE j = k + 2
        BY <1>1, <1>3, <1>5, <4>1
      <4>2. CASE j # k + 2
        BY <1>3, <2>3, <4>2
      <4> QED
        BY <4>1, <4>2
    <3> QED
      BY <3>1, <3>2, <3>3 DEF CutAt
  <2> QED
    BY <2>1, <2>2, <2>3
<1>7. new \in Cuts
  BY <1>3, <1>4, CutsDef
<1>8. new[0] = Len(stored)
  BY <1>1, <1>2, <1>3
<1>9. CutAt(new)'
  BY <1>6, <1>8 DEF CutAt
<1> QED
  BY <1>7, <1>9 DEF KeepsNewest, CutAt

LEMMA CutStep ==
  ASSUME ShiftsWork, GapInv, CountOK, KeepsNewest, [Next]_vars
  PROVE  KeepsNewest'
<1> USE RotatingLogAssumption
<1>1. PICK end \in Cuts : CutAt(end)
  BY DEF KeepsNewest, CutAt
<1>2. BoundInv /\ line \in Line /\ stored \in Seq(Line)
  BY DEF GapInv, BoundInv, TypeOK
<1>3. CASE UNCHANGED <<file, stored>>
  <2>1. CutAt(end)'
    BY <1>1, <1>3 DEF CutAt
  <2> QED
    BY <2>1 DEF KeepsNewest, CutAt
<1>4. CASE WriteLine
  <2>1. \/ UNCHANGED <<file, stored>>
        \/ AppendLine(line)
        \/ \E n \in 1 .. line.len - 1 :
              AppendLine([line EXCEPT !.len = n, !.whole = FALSE])
    BY <1>4 DEF WriteLine
  <2>2. Len(stored) < MaxLines
    <3>1. Len(stored) \in Nat /\ logged \in 0 .. MaxLines
      BY <1>2 DEF BoundInv, TypeOK
    <3>2. Len(stored) < logged
      BY <1>4 DEF WriteLine, CountOK
    <3> QED
      BY <3>1, <3>2
  <2>3. ASSUME NEW n \in 1 .. line.len - 1
        PROVE  [line EXCEPT !.len = n, !.whole = FALSE] \in Line
    <3>1. line.len \in Nat /\ n \in Nat
      BY <1>2 DEF Line
    <3> QED
      BY <1>2, <3>1 DEF Line
  <2> QED
    BY <1>1, <1>2, <1>3, <2>1, <2>2, <2>3, AppendCut
<1>5. CASE RemoveOldest
  BY <1>1, <1>2, <1>3, <1>5, RemoveCut DEF RemoveOldest
<1>6. CASE Shift
  <2>1. i \in 0 .. maxFiles - 1 /\ (i + 1 = maxFiles \/ file[i + 1] = NoFile)
    BY <1>6 DEF Shift, GapInv, GapOK, BoundInv, TypeOK, SizeOK
  <2> QED
    BY <1>1, <1>2, <1>3, <1>6, <2>1, RenameCut DEF Shift
<1>7. CASE MoveCurrent
  <2>1. /\ i = 0 /\ 0 \in 0 .. maxFiles - 1
        /\ 0 + 1 = maxFiles \/ file[0 + 1] = NoFile
    BY <1>7 DEF MoveCurrent, GapInv, GapOK
  <2> QED
    BY <1>1, <1>2, <1>3, <1>7, <2>1, RenameCut DEF MoveCurrent
<1>8. ASSUME \/ \E n \in Sizes : Log(n)
             \/ CloseFile \/ Reopen \/ CrashRestart \/ UNCHANGED vars
      PROVE  UNCHANGED <<file, stored>>
  BY <1>8 DEF Log, CloseFile, Reopen, CrashRestart, vars
<1> QED
  BY <1>3, <1>4, <1>5, <1>6, <1>7, <1>8 DEF Next

\* KeepsNewest: where the shifts do not fail, the files hold the newest lines
\* in the order in which they were logged, wherever a rotation was cut short.
THEOREM NewestAreInOrder == ShiftsWork /\ Spec => []KeepsNewest
<1> SUFFICES ASSUME ShiftsWork
             PROVE  Spec => []KeepsNewest
  OBVIOUS
<1>1. Init => GapOK /\ CountOK /\ KeepsNewest
  <2> SUFFICES ASSUME Init
               PROVE  GapOK /\ CountOK /\ KeepsNewest
    OBVIOUS
  <2> DEFINE end == [k \in 0 .. maxFiles + 1 |-> 0]
  <2>1. end \in Cuts
    BY CutsDef, RotatingLogAssumption
  <2>2. SubSeq(<<>>, 0 + 1, 0) = <<>>
    BY SubSeqEmpty
  <2>3. CutAt(end)
    <3>1. end[0] = 0 /\ stored = <<>> /\ Len(stored) = 0
      BY RotatingLogAssumption DEF Init
    <3>2. \A k \in 0 .. maxFiles :
             file[k].lines = <<>> /\ end[k + 1] = 0 /\ end[k] = 0
      BY RotatingLogAssumption DEF Init, NoFile
    <3> QED
      BY <2>2, <3>1, <3>2 DEF CutAt
  <2>4. KeepsNewest
    BY <2>1, <2>3 DEF KeepsNewest, CutAt
  <2> QED
    BY <2>4 DEF Init, GapOK, CountOK
<1>2. BoundInv /\ GapOK /\ [Next]_vars => GapOK'
  <2>1. UNCHANGED vars /\ GapOK => GapOK'
    BY DEF vars, GapOK
  <2> QED
    BY <2>1, GapStep DEF GapInv
<1>3. BoundInv /\ CountOK /\ [Next]_vars => CountOK'
  BY CountStep
<1>4. BoundInv /\ GapOK /\ CountOK /\ KeepsNewest /\ [Next]_vars => KeepsNewest'
  BY CutStep DEF GapInv
<1> QED
  BY <1>1, <1>2, <1>3, <1>4, BoundInvariance, PTL DEF Spec

=============================================================================
