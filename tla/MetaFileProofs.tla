--------------------------- MODULE MetaFileProofs ---------------------------
(***************************************************************************)
(* When one goroutine uploads and the link is handed out after the last    *)
(* acknowledgement, the callers of writeMeta take turns: the upload alone   *)
(* first, the touches of the downloads under s.mu then.  For any number of  *)
(* downloaders, touches, failed writes and crashes, a writeMeta renames     *)
(* what it wrote, no transfer is forgotten and no touch is undone; and it   *)
(* is one step, as in AtomicMeta.                                           *)
(***************************************************************************)
EXTENDS MetaFile, TLAPS

Serial == UploadThenShare /\ \A u, v \in Uploaders : u = v

Active(p) == pc[p] # "idle"

\* Nobody but p is in writeMeta, an uploader before the link is out, a
\* downloader after it and with s.mu.
Alone(p) ==
    /\ \A q \in Writers : Active(q) => q = p
    /\ p \in Uploaders => ~shared
    /\ p \in Downloaders => shared /\ mu = p
    /\ ~Known => mu = p

\* What p has done to its file so far.
Progress(p) ==
    /\ m[p] \in Version
    /\ m[p].touched > final.touched
    /\ m[p].touched <= now
    /\ file[p] = IF pc[p] = "write" THEN "tmp" ELSE "none"
    /\ pc[p] = "write" => tmp = Empty
    /\ pc[p] = "rename" => tmp = m[p]

MetaInv ==
    /\ TypeOK
    /\ final # Absent => Whole(final)
    /\ final.touched <= now
    /\ Known => final # Absent
    /\ shared => Known
    /\ mu # "free" => Active(mu)
    /\ \A p \in Writers : Active(p) => Alone(p) /\ Progress(p)
    /\ \A p \in Writers : ~Active(p) => file[p] = "none"

LEMMA Values ==
  /\ Absent \in Contents /\ Empty \in Contents
  /\ Absent \notin Version /\ Empty \notin Version /\ Empty # Absent
  /\ \A v \in Version : v \in Contents /\ v.touched \in 1 .. MaxTouch
                                       /\ v.len \in 1 .. MaxLen
  BY MetaFileAssumption DEF Absent, Empty, Version, Damaged, Contents

LEMMA FreeIsNobody == "free" \notin Writers
  BY MetaFileAssumption DEF Writers

LEMMA InitMeta == Init => MetaInv
<1> SUFFICES ASSUME Init PROVE MetaInv
  OBVIOUS
<1>1. TypeOK
  <2>1. entry = Absent /\ tmp = Absent /\ final = Absent
    BY DEF Init
  <2>2. mu = "free" /\ now \in 0 .. MaxTouch /\ shared = FALSE
    BY MetaFileAssumption DEF Init
  <2>3. /\ pc \in [Writers -> {"idle", "create", "open", "write", "rename"}]
        /\ m \in [Writers -> Version \cup {Absent}]
        /\ file \in [Writers -> {"none", "tmp", "final", "gone"}]
    BY DEF Init
  <2> QED
    BY <2>1, <2>2, <2>3, Values DEF TypeOK
<1>2. final = Absent /\ final.touched = 0 /\ now = 0 /\ ~Known /\ ~shared
  BY DEF Init, Known, Absent
<1>3. \A p \in Writers : ~Active(p) /\ file[p] = "none"
  BY DEF Init, Active
<1> QED
  BY <1>1, <1>2, <1>3, FreeIsNobody DEF MetaInv, Init

-----------------------------------------------------------------------------
(* A call of writeMeta begins when nobody else is in one. *)

LEMMA Started ==
  ASSUME MetaInv, NEW p \in Writers, NEW len \in 1 .. MaxLen, Fresh(p, len),
         \A q \in Writers : ~Active(q),
         NEW st \in {"create", "open"}, pc' = [pc EXCEPT ![p] = st],
         mu' \in {"free", p},
         p \in Uploaders => ~shared,
         p \in Downloaders => shared /\ mu' = p,
         ~Known => mu' = p,
         entry' \in Version \cup {Absent}, entry' # Absent <=> Known,
         UNCHANGED <<tmp, final, file, shared>>
  PROVE  MetaInv'
<1>1. TypeOK
  BY DEF MetaInv
<1>2. /\ now' = now + 1 /\ now' \in 0 .. MaxTouch
      /\ m' = [m EXCEPT ![p] = [touched |-> now + 1, len |-> len]]
      /\ [touched |-> now + 1, len |-> len] \in Version
  BY <1>1, MetaFileAssumption DEF Fresh, TypeOK, Version
<1>3. m' \in [Writers -> Version \cup {Absent}] /\ m'[p] \in Version
      /\ m'[p].touched = now + 1
  BY <1>1, <1>2 DEF TypeOK
<1>4. pc' \in [Writers -> {"idle", "create", "open", "write", "rename"}]
      /\ pc'[p] = st /\ \A q \in Writers \ {p} : pc'[q] = pc[q]
  BY <1>1 DEF TypeOK
<1>5. TypeOK'
  BY <1>1, <1>2, <1>3, <1>4 DEF TypeOK
<1>6. \A q \in Writers : Active(q)' <=> q = p
  BY <1>4 DEF Active
<1>7. Alone(p)'
  BY <1>6 DEF Alone, Known
<1>8. now \in Nat /\ final.touched <= now /\ final.touched \in Int
  BY <1>1, Values DEF MetaInv, TypeOK, Contents, Version, Damaged, Absent
<1>9. file'[p] = "none"
  BY DEF MetaInv
<1>10. Progress(p)'
  BY <1>2, <1>3, <1>4, <1>8, <1>9 DEF Progress
<1>11. final.touched <= now'
  BY <1>2, <1>8
<1>12. \A q \in Writers : ~Active(q)' => file'[q] = "none"
  BY DEF MetaInv
<1>13. mu' # "free" => Active(mu)'
  BY <1>6
<1> QED
  BY <1>5, <1>6, <1>7, <1>10, <1>11, <1>12, <1>13 DEF MetaInv, Known, Whole

LEMMA CreateStep ==
  ASSUME MetaInv, NEW p \in Uploaders, NEW len \in 1 .. MaxLen,
         CreateTransfer(p, len)
  PROVE  MetaInv'
<1>1. p \in Writers /\ p \notin Downloaders
  BY MetaFileAssumption DEF Writers
<1>2. \A q \in Writers : ~Active(q)
  BY FreeIsNobody DEF CreateTransfer, MetaInv, Alone
<1>3. ~Known /\ ~shared /\ mu' = p /\ entry' = entry
  BY DEF CreateTransfer, MetaInv
<1>4. Fresh(p, len) /\ pc' = [pc EXCEPT ![p] = "create"]
      /\ UNCHANGED <<tmp, final, file, shared>>
  BY DEF CreateTransfer
<1> QED
  BY <1>1, <1>2, <1>3, <1>4, Started DEF Known

\* The entry that writeChunk and touchLinkTransfer publish.
LEMMA Published ==
  ASSUME MetaInv, NEW p \in Writers, NEW len \in 1 .. MaxLen, Fresh(p, len)
  PROVE  m'[p] \in Version
  BY MetaFileAssumption DEF MetaInv, TypeOK, Fresh, Version

LEMMA WriteChunkStep ==
  ASSUME Serial, MetaInv, NEW p \in Uploaders, NEW len \in 1 .. MaxLen,
         WriteChunk(p, len)
  PROVE  MetaInv'
<1>1. p \in Writers /\ p \notin Downloaders
  BY MetaFileAssumption DEF Writers
<1>2. /\ Fresh(p, len) /\ Known /\ ~shared /\ mu = "free" /\ entry' = m'[p]
      /\ pc' = [pc EXCEPT ![p] = "open"] /\ UNCHANGED <<tmp, final, mu, file, shared>>
  BY DEF WriteChunk, Serial
<1>3. \A q \in Writers : ~Active(q)
  <2> SUFFICES ASSUME NEW q \in Writers, Active(q) PROVE FALSE
    OBVIOUS
  <2>1. Alone(q)
    BY DEF MetaInv
  <2>2. q \in Uploaders
    BY <1>2, <2>1 DEF Alone, Writers
  <2> QED
    BY <1>2, <2>2 DEF Serial, Fresh, Active
<1>4. entry' \in Version /\ entry' # Absent
  BY <1>1, <1>2, Published, Values
<1> QED
  BY <1>1, <1>2, <1>3, <1>4, Started

LEMMA TouchStep ==
  ASSUME Serial, MetaInv, NEW p \in Downloaders, NEW len \in 1 .. MaxLen,
         TouchLinkTransfer(p, len)
  PROVE  MetaInv'
<1>1. p \in Writers /\ p \notin Uploaders
  BY MetaFileAssumption DEF Writers
<1>2. /\ Fresh(p, len) /\ Known /\ shared /\ mu = "free" /\ mu' = p
      /\ entry' = m'[p] /\ pc' = [pc EXCEPT ![p] = "open"]
      /\ UNCHANGED <<tmp, final, file, shared>>
  BY DEF TouchLinkTransfer, Serial
<1>3. \A q \in Writers : ~Active(q)
  <2> SUFFICES ASSUME NEW q \in Writers, Active(q) PROVE FALSE
    OBVIOUS
  <2>1. Alone(q)
    BY DEF MetaInv
  <2> QED
    BY <1>2, <2>1, FreeIsNobody DEF Alone, Writers
<1>4. entry' \in Version /\ entry' # Absent
  BY <1>1, <1>2, Published, Values
<1> QED
  BY <1>1, <1>2, <1>3, <1>4, Started

-----------------------------------------------------------------------------
(* Inside writeMeta. *)

\* The one active goroutine goes on, and stays active.
LEMMA GoesOn ==
  ASSUME MetaInv, NEW p \in Writers, Active(p),
         NEW st \in {"write", "rename"}, pc' = [pc EXCEPT ![p] = st],
         NEW f \in {"none", "tmp"}, file' = [file EXCEPT ![p] = f],
         f = IF st = "write" THEN "tmp" ELSE "none",
         tmp' \in Contents,
         st = "write" => tmp' = Empty,
         st = "rename" => tmp' = m[p],
         UNCHANGED <<entry, final, mu, m, now, shared>>
  PROVE  MetaInv'
<1>1. TypeOK /\ Alone(p) /\ Progress(p)
  BY DEF MetaInv
<1>2. /\ pc' \in [Writers -> {"idle", "create", "open", "write", "rename"}]
      /\ pc'[p] = st /\ \A q \in Writers \ {p} : pc'[q] = pc[q]
  BY <1>1 DEF TypeOK
<1>3. /\ file' \in [Writers -> {"none", "tmp", "final", "gone"}]
      /\ file'[p] = f /\ \A q \in Writers \ {p} : file'[q] = file[q]
  BY <1>1 DEF TypeOK
<1>4. TypeOK'
  BY <1>1, <1>2, <1>3 DEF TypeOK
<1>5. \A q \in Writers : Active(q)' <=> q = p
  BY <1>1, <1>2 DEF Active, Alone
<1>6. Alone(p)'
  BY <1>1, <1>5 DEF Alone, Known
<1>7. Progress(p)'
  BY <1>1, <1>2, <1>3 DEF Progress
<1>8. \A q \in Writers \ {p} : file'[q] = "none"
  BY <1>1, <1>3 DEF MetaInv, Alone
<1>9. mu' # "free" => Active(mu)'
  <2>1. mu \in Writers \cup {"free"}
    BY <1>1 DEF TypeOK
  <2>2. mu # "free" => mu = p
    BY <1>1, <2>1 DEF MetaInv, Alone
  <2> QED
    BY <1>5, <2>2
<1> QED
  BY <1>4, <1>5, <1>6, <1>7, <1>8, <1>9 DEF MetaInv, Known, Whole

\* The one active goroutine returns.
LEMMA Returned ==
  ASSUME MetaInv, NEW p \in Writers, Active(p), NEW ok \in BOOLEAN,
         Return(p, ok),
         tmp' \in Contents, Whole(final') \/ (final' = final /\ ~ok),
         final'.touched <= now,
         \A q \in Writers : file'[q] = "none",
         file' \in [Writers -> {"none", "tmp", "final", "gone"}]
  PROVE  MetaInv'
<1>1. TypeOK /\ Alone(p) /\ Progress(p)
  BY DEF MetaInv
<1>2. /\ pc' \in [Writers -> {"idle", "create", "open", "write", "rename"}]
      /\ pc'[p] = "idle" /\ \A q \in Writers \ {p} : pc'[q] = pc[q]
  BY <1>1 DEF TypeOK, Return
<1>3. \A q \in Writers : ~Active(q)'
  BY <1>1, <1>2 DEF Active, Alone
<1>4. mu' = "free"
  <2>1. mu \in Writers \cup {"free"}
    BY <1>1 DEF TypeOK
  <2>2. mu # "free" => mu = p
    BY <1>1, <2>1 DEF MetaInv, Alone
  <2> QED
    BY <2>2 DEF Return
<1>5. entry' \in Version \cup {Absent} /\ (Known => entry' # Absent)
      /\ (entry' # Absent => Known \/ ok)
  BY <1>1 DEF Return, TypeOK, Progress, Known
<1>6. final' \in Contents /\ (final' # Absent => Whole(final'))
  BY <1>1, Values DEF MetaInv, TypeOK, Whole
<1>7. entry' # Absent => final' # Absent
  BY <1>5, Values DEF MetaInv, Whole
<1>8. /\ m' \in [Writers -> Version \cup {Absent}] /\ UNCHANGED <<now, shared>>
  BY <1>1 DEF TypeOK, Return
<1>9. TypeOK'
  BY <1>1, <1>2, <1>4, <1>5, <1>6, <1>8 DEF TypeOK
<1> QED
  BY <1>3, <1>4, <1>5, <1>6, <1>7, <1>8, <1>9 DEF MetaInv, Known

LEMMA OpenStep ==
  ASSUME MetaInv, NEW p \in Writers, OpenTmp(p)
  PROVE  MetaInv'
<1>1. Active(p)
  BY DEF OpenTmp, Active
<1> QED
  BY <1>1, GoesOn, Values DEF OpenTmp

\* An open file is meta.json.tmp, just truncated.
LEMMA Opened ==
  ASSUME MetaInv, NEW p \in Writers, pc[p] = "write"
  PROVE  Active(p) /\ file[p] = "tmp" /\ FileOf(p) = Empty /\ m[p] \in Version
  BY DEF MetaInv, Active, Progress, FileOf

LEMMA WriteStep ==
  ASSUME MetaInv, NEW p \in Writers, WriteTmp(p)
  PROVE  MetaInv'
<1>1. Active(p) /\ file[p] = "tmp" /\ FileOf(p) = Empty /\ m[p] \in Version
  BY Opened DEF WriteTmp
<1>2. Over(m[p], FileOf(p)) = m[p]
  BY <1>1, Values, MetaFileAssumption DEF Over, Empty
<1>3. tmp' = m[p] /\ final' = final /\ file' = [file EXCEPT ![p] = "none"]
  BY <1>1, <1>2 DEF WriteTmp, SetFile
<1>4. tmp' \in Contents
  BY <1>1, <1>3, Values
<1> QED
  BY <1>1, <1>3, <1>4, GoesOn DEF WriteTmp

\* Nobody has a file open, once p has closed its own.
LEMMA Closed ==
  ASSUME MetaInv, NEW p \in Writers, Active(p)
  PROVE  \A q \in Writers \ {p} : file[q] = "none"
  BY DEF MetaInv, Alone

LEMMA WriteFailsStep ==
  ASSUME MetaInv, NEW p \in Writers, WriteTmpFails(p)
  PROVE  MetaInv'
<1>1. Active(p) /\ file[p] = "tmp" /\ FileOf(p) = Empty /\ m[p] \in Version
  BY Opened DEF WriteTmpFails
<1>2. PICK len \in 0 .. m[p].len :
        SetFile(p, [touched |-> 0, len |-> IF len < FileOf(p).len
                                           THEN FileOf(p).len ELSE len])
  BY DEF WriteTmpFails
<1>3. m[p].len \in 1 .. MaxLen
  BY <1>1, Values
<1>4. [touched |-> 0, len |-> IF len < FileOf(p).len THEN FileOf(p).len ELSE len]
        \in Damaged
  <2>1. FileOf(p).len = 0
    BY <1>1 DEF Empty
  <2> QED
    BY <1>2, <1>3, <2>1, MetaFileAssumption DEF Damaged
<1>5. tmp' \in Contents /\ final' = final
      /\ file' = [file EXCEPT ![p] = "none"]
  BY <1>1, <1>2, <1>4 DEF SetFile, Contents
<1>6. /\ \A q \in Writers : file'[q] = "none"
      /\ file' \in [Writers -> {"none", "tmp", "final", "gone"}]
  BY <1>1, <1>5, Closed DEF MetaInv, TypeOK
<1>7. Return(p, FALSE) /\ final'.touched <= now
  BY <1>5 DEF WriteTmpFails, MetaInv
<1> QED
  BY <1>1, <1>5, <1>6, <1>7, Returned

\* Before the rename p has closed its file, and nobody else has one open.
LEMMA AboutToRename ==
  ASSUME MetaInv, NEW p \in Writers, pc[p] = "rename"
  PROVE  /\ Active(p) /\ Progress(p) /\ tmp = m[p] /\ m[p] \in Version
         /\ \A q \in Writers : file[q] = "none"
<1>1. Active(p) /\ Progress(p)
  BY DEF MetaInv, Active
<1> QED
  BY <1>1, Closed DEF Progress

LEMMA RenameStep ==
  ASSUME MetaInv, NEW p \in Writers, Rename(p)
  PROVE  MetaInv' /\ final'.touched >= final.touched
<1>1. /\ Active(p) /\ Progress(p) /\ tmp = m[p] /\ m[p] \in Version
      /\ \A q \in Writers : file[q] = "none"
  BY AboutToRename DEF Rename
<1>2. final' = m[p] /\ tmp' = Absent /\ Return(p, TRUE)
  BY <1>1 DEF Rename
<1>3. /\ \A q \in Writers : file'[q] = "none"
      /\ file' \in [Writers -> {"none", "tmp", "final", "gone"}]
  BY <1>1 DEF Rename
<1>4. /\ final'.touched > final.touched /\ final'.touched <= now
      /\ m[p].touched \in Int /\ final.touched \in Int
  <2>1. final \in Contents
    BY DEF MetaInv, TypeOK
  <2>2. final.touched \in Int
    BY <2>1, MetaFileAssumption DEF Contents, Version, Damaged, Absent
  <2>3. m[p].touched \in Int
    BY <1>1, Values
  <2> QED
    BY <1>1, <1>2, <2>2, <2>3 DEF Progress
<1>5. MetaInv'
  BY <1>1, <1>2, <1>3, <1>4, Returned, Values DEF Whole
<1> QED
  BY <1>2, <1>4, <1>5

LEMMA RenameFailsStep ==
  ASSUME MetaInv, NEW p \in Writers, RenameFails(p)
  PROVE  MetaInv'
<1>1. /\ Active(p) /\ \A q \in Writers : file[q] = "none"
  BY AboutToRename DEF RenameFails
<1>2. Return(p, FALSE) /\ UNCHANGED <<tmp, final, file>>
  BY DEF RenameFails
<1>3. /\ tmp \in Contents /\ final.touched <= now
      /\ file \in [Writers -> {"none", "tmp", "final", "gone"}]
  BY DEF MetaInv, TypeOK
<1> QED
  BY <1>1, <1>2, <1>3, Returned

-----------------------------------------------------------------------------
(* The rest of the steps. *)

LEMMA HandOutStep ==
  ASSUME MetaInv, HandOut
  PROVE  MetaInv'
<1>1. /\ Known /\ ~shared /\ shared' = TRUE
      /\ UNCHANGED <<entry, tmp, final, mu, pc, m, file, now>>
      /\ \A p \in Uploaders : ~Active(p)
  BY DEF HandOut, Active
<1>2. \A p \in Writers : ~Active(p)
  <2> SUFFICES ASSUME NEW p \in Writers, Active(p) PROVE FALSE
    OBVIOUS
  <2>1. Alone(p) /\ p \in Downloaders
    BY <1>1 DEF MetaInv, Writers
  <2> QED
    BY <1>1, <2>1 DEF Alone
<1>3. \A p \in Writers : ~Active(p)'
  BY <1>1, <1>2 DEF Active
<1>4. TypeOK'
  BY <1>1 DEF MetaInv, TypeOK
<1>5. mu = "free"
  <2>1. mu \in Writers \cup {"free"}
    BY DEF MetaInv, TypeOK
  <2>2. mu # "free" => Active(mu)
    BY DEF MetaInv
  <2> QED
    BY <1>2, <2>1, <2>2
<1>6. \A p \in Writers : file'[p] = "none"
  BY <1>1, <1>2 DEF MetaInv
<1>7. final' # Absent /\ Whole(final)' /\ final'.touched <= now' /\ entry' # Absent
  BY <1>1 DEF MetaInv, Known, Whole
<1> QED
  BY <1>1, <1>3, <1>4, <1>5, <1>6, <1>7 DEF MetaInv, Known

LEMMA RestartStep ==
  ASSUME MetaInv, Restart
  PROVE  MetaInv' /\ (Known => entry' # Absent)
<1>1. TypeOK
  BY DEF MetaInv
<1>2. /\ pc' = [p \in Writers |-> "idle"] /\ m' = [p \in Writers |-> Absent]
      /\ file' = [p \in Writers |-> "none"] /\ mu' = "free"
      /\ UNCHANGED <<tmp, final, now, shared>>
      /\ entry' = IF Whole(final) THEN final ELSE Absent
  BY DEF Restart
<1>3. entry' \in Version \cup {Absent} /\ (Known => entry' # Absent)
      /\ (entry' # Absent => final # Absent)
  BY <1>2, Values DEF MetaInv, Whole
<1>4. TypeOK'
  BY <1>1, <1>2, <1>3 DEF TypeOK
<1>5. \A p \in Writers : ~Active(p)' /\ file'[p] = "none"
  BY <1>2 DEF Active
<1> QED
  BY <1>2, <1>3, <1>4, <1>5 DEF MetaInv, Known, Whole

LEMMA StutterStep ==
  ASSUME MetaInv, UNCHANGED vars
  PROVE  MetaInv'
<1>1. UNCHANGED <<entry, tmp, final, mu, pc, m, file, now, shared>>
  BY DEF vars
<1> QED
  BY <1>1 DEF MetaInv, TypeOK, Known, Whole, Active, Alone, Progress

\* What a step of a serial system does to the entry and to meta.json.
LEMMA NextMeta ==
  ASSUME Serial, MetaInv, [Next]_vars
  PROVE  /\ MetaInv'
         /\ Known => entry' # Absent
         /\ final'.touched >= final.touched
<1>0. final' = final => final'.touched >= final.touched
  <2>1. final.touched \in Int
    BY MetaFileAssumption DEF MetaInv, TypeOK, Contents, Version, Damaged, Absent
  <2> QED
    BY <2>1
<1>1. CASE UNCHANGED vars
  BY <1>0, <1>1, StutterStep DEF vars, Known
<1>2. ASSUME NEW p \in Uploaders, NEW len \in 1 .. MaxLen, CreateTransfer(p, len)
      PROVE  /\ MetaInv' /\ (Known => entry' # Absent)
             /\ final'.touched >= final.touched
  <2>1. final' = final /\ entry' = entry
    BY <1>2 DEF CreateTransfer
  <2> QED
    BY <1>0, <1>2, <2>1, CreateStep DEF Known
<1>3. ASSUME NEW p \in Uploaders, NEW len \in 1 .. MaxLen, WriteChunk(p, len)
      PROVE  /\ MetaInv' /\ (Known => entry' # Absent)
             /\ final'.touched >= final.touched
  <2>1. final' = final /\ entry' = m'[p] /\ Fresh(p, len) /\ p \in Writers
    BY <1>3 DEF WriteChunk, Writers
  <2>2. entry' # Absent
    BY <2>1, Published, Values
  <2> QED
    BY <1>0, <1>3, <2>1, <2>2, WriteChunkStep
<1>4. ASSUME NEW p \in Downloaders, NEW len \in 1 .. MaxLen,
             TouchLinkTransfer(p, len)
      PROVE  /\ MetaInv' /\ (Known => entry' # Absent)
             /\ final'.touched >= final.touched
  <2>1. final' = final /\ entry' = m'[p] /\ Fresh(p, len) /\ p \in Writers
    BY <1>4 DEF TouchLinkTransfer, Writers
  <2>2. entry' # Absent
    BY <2>1, Published, Values
  <2> QED
    BY <1>0, <1>4, <2>1, <2>2, TouchStep
<1>5. ASSUME NEW p \in Writers, OpenTmp(p)
      PROVE  /\ MetaInv' /\ (Known => entry' # Absent)
             /\ final'.touched >= final.touched
  <2>1. final' = final /\ entry' = entry
    BY <1>5 DEF OpenTmp
  <2> QED
    BY <1>0, <1>5, <2>1, OpenStep DEF Known
<1>6. ASSUME NEW p \in Writers, WriteTmp(p)
      PROVE  /\ MetaInv' /\ (Known => entry' # Absent)
             /\ final'.touched >= final.touched
  <2>1. final' = final /\ entry' = entry
    BY <1>6, Opened DEF WriteTmp, SetFile
  <2> QED
    BY <1>0, <1>6, <2>1, WriteStep DEF Known
<1>7. ASSUME NEW p \in Writers, WriteTmpFails(p)
      PROVE  /\ MetaInv' /\ (Known => entry' # Absent)
             /\ final'.touched >= final.touched
  <2>1. final' = final /\ entry' = entry
    BY <1>7, Opened DEF WriteTmpFails, SetFile, Return
  <2> QED
    BY <1>0, <1>7, <2>1, WriteFailsStep DEF Known
<1>8. ASSUME NEW p \in Writers, Rename(p)
      PROVE  /\ MetaInv' /\ (Known => entry' # Absent)
             /\ final'.touched >= final.touched
  BY <1>8, RenameStep DEF Rename, Return, Known
<1>9. ASSUME NEW p \in Writers, RenameFails(p)
      PROVE  /\ MetaInv' /\ (Known => entry' # Absent)
             /\ final'.touched >= final.touched
  <2>1. final' = final /\ entry' = entry
    BY <1>9 DEF RenameFails, Return
  <2> QED
    BY <1>0, <1>9, <2>1, RenameFailsStep DEF Known
<1>10. CASE HandOut
  BY <1>0, <1>10, HandOutStep DEF HandOut, Known
<1>11. CASE Restart
  BY <1>0, <1>11, RestartStep DEF Restart
<1> QED
  BY <1>1, <1>2, <1>3, <1>4, <1>5, <1>6, <1>7, <1>8, <1>9, <1>10, <1>11
  DEF Next

\* RenamesItsOwn: os.Rename moves what this writeMeta wrote to meta.json.
THEOREM SerialRenames ==
  ASSUME Serial
  PROVE  Spec => []RenamesItsOwn
<1>1. MetaInv => RenamesItsOwn
  BY AboutToRename DEF RenamesItsOwn
<1>2. MetaInv /\ [Next]_vars => MetaInv'
  BY NextMeta
<1> QED
  BY <1>1, <1>2, InitMeta, PTL DEF Spec

\* NotForgotten: no crash, at whatever point of a writeMeta, loses a transfer.
THEOREM SerialNotForgotten ==
  ASSUME Serial
  PROVE  Spec => NotForgotten
<1>1. MetaInv /\ [Next]_vars => MetaInv' /\ [Known => entry' # Absent]_vars
  BY NextMeta
<1> QED
  BY <1>1, InitMeta, PTL DEF Spec, NotForgotten

\* TouchesInOrder: the TouchedAt of meta.json never goes back.
THEOREM SerialTouches ==
  ASSUME Serial
  PROVE  Spec => TouchesInOrder
<1>1. MetaInv /\ [Next]_vars => MetaInv' /\ [final'.touched >= final.touched]_vars
  BY NextMeta
<1> QED
  BY <1>1, InitMeta, PTL DEF Spec, TouchesInOrder

\* Every file is a version of the transferMeta, a damaged text or absent, and
\* every writer has the file it writes open under one of its names.
THEOREM SerialTypes ==
  ASSUME Serial
  PROVE  Spec => []TypeOK
<1>1. MetaInv => TypeOK
  BY DEF MetaInv
<1>2. MetaInv /\ [Next]_vars => MetaInv'
  BY NextMeta
<1> QED
  BY <1>1, <1>2, InitMeta, PTL DEF Spec

-----------------------------------------------------------------------------
(* Calls that take turns are the atomic ones of AtomicMeta.                 *)

Writing == {m[p] : p \in {q \in Writers : pc[q] # "idle"}}

LEMMA NobodyWrites ==
  ASSUME \A q \in Writers : ~Active(q)
  PROVE  Writing = {}
  BY DEF Writing, Active

LEMMA OneWrites ==
  ASSUME MetaInv, NEW p \in Writers, Active(p)
  PROVE  Writing = {m[p]}
<1>1. \A q \in Writers : Active(q) => q = p
  BY DEF MetaInv, Alone
<1> QED
  BY <1>1 DEF Writing, Active

\* A call begins, by the lemmas above when nobody is in one.
LEMMA CallBegins ==
  ASSUME MetaInv, MetaInv', NEW p \in Writers, NEW len \in 1 .. MaxLen,
         Fresh(p, len), \A q \in Writers : ~Active(q),
         NEW st \in {"create", "open"}, pc' = [pc EXCEPT ![p] = st],
         entry' = IF Known THEN m'[p] ELSE Absent,
         UNCHANGED final
  PROVE  \E v \in Version : Atomic!Call(v)
<1>1. m'[p] \in Version
  BY Published
<1>2. Writing = {}
  BY NobodyWrites
<1>3. \A q \in Writers : pc'[q] # "idle" <=> q = p
  BY DEF MetaInv, TypeOK, Active
<1>4. Writing' = {m'[p]}
  BY <1>3 DEF Writing
<1> QED
  BY <1>1, <1>2, <1>4 DEF Atomic!Call, Writing, Known

\* A call under way goes on without a trace.
LEMMA CallGoesOn ==
  ASSUME MetaInv, NEW p \in Writers, Active(p),
         NEW st \in {"write", "rename"}, pc' = [pc EXCEPT ![p] = st],
         UNCHANGED <<entry, final, m>>
  PROVE  UNCHANGED Atomic!vars
<1>1. \A q \in Writers : pc'[q] # "idle" <=> pc[q] # "idle"
  BY DEF MetaInv, TypeOK, Active
<1>2. Writing' = Writing
  BY <1>1 DEF Writing
<1> QED
  BY <1>2 DEF Atomic!vars, Writing

\* It ends: nobody is in writeMeta any more.
LEMMA CallEnds ==
  ASSUME MetaInv, NEW p \in Writers, Active(p), NEW ok, Return(p, ok)
  PROVE  Writing' = {}
<1>1. \A q \in Writers : Active(q) => q = p
  BY DEF MetaInv, Alone
<1>2. \A q \in Writers : pc'[q] = "idle"
  BY <1>1 DEF Return, MetaInv, TypeOK, Active
<1> QED
  BY <1>2 DEF Writing

LEMMA CallFails ==
  ASSUME MetaInv, NEW p \in Writers, Active(p), Return(p, FALSE),
         UNCHANGED final
  PROVE  Atomic!Fail
<1>1. Writing = {m[p]} /\ Writing' = {} /\ entry' = entry
  BY OneWrites, CallEnds DEF Return
<1> QED
  BY <1>1 DEF Atomic!Fail, Writing

LEMMA InitAtomic == Init => Atomic!Init
  BY DEF Init, Atomic!Init

LEMMA NextAtomic ==
  ASSUME Serial, MetaInv, MetaInv', [Next]_vars
  PROVE  [Atomic!Next]_(Atomic!vars)
<1>1. CASE UNCHANGED vars \/ HandOut
  BY <1>1 DEF vars, HandOut, Atomic!vars
<1>2. ASSUME NEW p \in Uploaders, NEW len \in 1 .. MaxLen, CreateTransfer(p, len)
      PROVE  Atomic!Next
  <2>1. p \in Writers /\ Fresh(p, len) /\ ~Known
        /\ entry' = entry /\ final' = final /\ pc' = [pc EXCEPT ![p] = "create"]
    BY <1>2 DEF CreateTransfer, Writers
  <2>2. \A q \in Writers : ~Active(q)
    BY <1>2, FreeIsNobody DEF CreateTransfer, MetaInv, Alone
  <2> QED
    BY <2>1, <2>2, CallBegins DEF Known, Atomic!Next
<1>3. ASSUME NEW p \in Uploaders, NEW len \in 1 .. MaxLen, WriteChunk(p, len)
      PROVE  Atomic!Next
  <2>1. p \in Writers /\ Fresh(p, len) /\ Known /\ ~shared
        /\ entry' = m'[p] /\ final' = final /\ pc' = [pc EXCEPT ![p] = "open"]
    BY <1>3 DEF WriteChunk, Writers, Serial
  <2>2. \A q \in Writers : Active(q) => q \in Uploaders
    BY <2>1 DEF MetaInv, Alone, Writers
  <2>3. \A q \in Writers : ~Active(q)
    BY <2>1, <2>2 DEF Serial, Fresh, Active
  <2> QED
    BY <2>1, <2>3, CallBegins DEF Atomic!Next
<1>4. ASSUME NEW p \in Downloaders, NEW len \in 1 .. MaxLen,
             TouchLinkTransfer(p, len)
      PROVE  Atomic!Next
  <2>1. p \in Writers /\ Fresh(p, len) /\ Known /\ shared /\ mu = "free"
        /\ entry' = m'[p] /\ final' = final /\ pc' = [pc EXCEPT ![p] = "open"]
    BY <1>4 DEF TouchLinkTransfer, Writers, Serial
  <2>2. \A q \in Writers : ~Active(q)
    BY <2>1, FreeIsNobody DEF MetaInv, Alone, Writers
  <2> QED
    BY <2>1, <2>2, CallBegins DEF Atomic!Next
<1>5. ASSUME NEW p \in Writers, OpenTmp(p) \/ WriteTmp(p)
      PROVE  UNCHANGED Atomic!vars
  <2>1. CASE OpenTmp(p)
    BY <2>1, CallGoesOn DEF OpenTmp, Active
  <2>2. CASE WriteTmp(p)
    <3>1. final' = final
      BY <2>2, Opened DEF WriteTmp, SetFile
    <3> QED
      BY <2>2, <3>1, CallGoesOn DEF WriteTmp, Active
  <2> QED
    BY <1>5, <2>1, <2>2
<1>6. ASSUME NEW p \in Writers, WriteTmpFails(p) \/ RenameFails(p)
      PROVE  Atomic!Fail
  <2>1. CASE WriteTmpFails(p)
    <3>1. final' = final
      BY <2>1, Opened DEF WriteTmpFails, SetFile
    <3> QED
      BY <2>1, <3>1, CallFails DEF WriteTmpFails, Active
  <2>2. CASE RenameFails(p)
    BY <2>2, CallFails DEF RenameFails, Active
  <2> QED
    BY <1>6, <2>1, <2>2
<1>7. ASSUME NEW p \in Writers, Rename(p)
      PROVE  Atomic!Next
  <2>1. Active(p) /\ tmp = m[p] /\ m[p] \in Version
    BY <1>7, AboutToRename DEF Rename
  <2>2. final' = m[p] /\ Return(p, TRUE)
    BY <1>7, <2>1 DEF Rename
  <2>3. Writing = {m[p]} /\ Writing' = {}
    BY <2>1, <2>2, OneWrites, CallEnds
  <2>4. entry' = IF entry = Absent THEN m[p] ELSE entry
    BY <2>2 DEF Return, Known
  <2>5. PICK v \in Version : v = m[p]
    BY <2>1
  <2>6. Atomic!Succeed(v)
    BY <2>2, <2>3, <2>4, <2>5 DEF Atomic!Succeed, Writing
  <2> QED
    BY <2>6 DEF Atomic!Next
<1>8. CASE Restart
  <2>1. final' = final /\ entry' = final
    BY <1>8 DEF Restart, MetaInv
  <2>2. Writing' = {}
    BY <1>8 DEF Restart, Writing
  <2> QED
    BY <2>1, <2>2 DEF Atomic!Next, Atomic!Restart, Writing
<1>9. ASSUME NEW p \in Writers, WriteTmpFails(p) \/ RenameFails(p)
      PROVE  Atomic!Next
  BY <1>6, <1>9 DEF Atomic!Next
<1> QED
  BY <1>1, <1>2, <1>3, <1>4, <1>5, <1>7, <1>8, <1>9 DEF Next

\* WritesAtomically: with one uploader, who hands the link out after the last
\* acknowledgement, writeMeta is one step, as Store takes it: whichever system
\* calls fail and wherever the process stops, a call succeeds or does nothing.
THEOREM SerialIsAtomic ==
  ASSUME Serial
  PROVE  Spec => WritesAtomically
<1>1. MetaInv /\ [Next]_vars => MetaInv'
  BY NextMeta
<1>2. MetaInv /\ MetaInv' /\ [Next]_vars => [Atomic!Next]_(Atomic!vars)
  BY NextAtomic
<1> QED
  BY <1>1, <1>2, InitMeta, InitAtomic, PTL
     DEF Spec, WritesAtomically, Atomic!Spec

=============================================================================
